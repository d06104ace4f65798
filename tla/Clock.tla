-------------------------------- MODULE Clock --------------------------------
(***************************************************************************)
(* The hybrid logical clock of packages/domain/src/hlc.ts.  A stamp orders  *)
(* the events of one phone the way they were authored, whatever the phone's *)
(* wall clock reads.  The node name in a stamp only breaks ties between     *)
(* equal readings and is left out: one outbox never holds two equal stamps  *)
(* (StampsGrow in DeviceSync).                                              *)
(***************************************************************************)
EXTENDS Naturals

Stamp == [physical : Nat, counter : Nat]

\* hlcInit
Fresh == [physical |-> 0, counter |-> 0]

\* hlcSend: the physical part never goes back; the counter tells apart the
\* stamps that share one.
Send(last, now) ==
  LET physical == IF now > last.physical THEN now ELSE last.physical
  IN  [physical |-> physical,
       counter  |-> IF physical = last.physical THEN last.counter + 1 ELSE 0]

\* hlcCompare(s, t) < 0
Before(s, t) ==
  \/ s.physical < t.physical
  \/ s.physical = t.physical /\ s.counter < t.counter
=============================================================================
