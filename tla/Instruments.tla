----------------------------- MODULE Instruments -----------------------------
(***************************************************************************)
(* The versions of one instrument (console/instruments.service.ts, with    *)
(* the tables of db/migrations/0002 and 0006): drafts, their structure,    *)
(* and the publishing that freezes one and demotes the version in force.   *)
(*                                                                         *)
(* publish() reads and checks the draft, computes the hash of what it      *)
(* read, changes the rows in a transaction that checks nothing again, and  *)
(* appends the event when that has committed.                              *)
(***************************************************************************)
EXTENDS Naturals, FiniteSets

CONSTANTS
  Version,      \* versions of the instrument
  First,        \* the one in force to begin with
  Structure,    \* what a version may consist of; 0 is no sections
  Publisher,    \* calls of publish() that may be under way at once
  MaxEdits,     \* bound: structures replaced
  None          \* no version

ASSUME InstrumentsAssumption ==
  /\ First \in Version /\ None \notin Version
  /\ 0 \in Structure /\ Structure \subseteq Nat /\ Structure # {0}
  /\ MaxEdits \in Nat

VARIABLES
  version,      \* instrument_version: status, structure and structure_hash
  publishing,   \* what each call of publish() has read
  published,    \* InstrumentVersionPublished in the event store
  edits         \* number of structures replaced

instruments == <<version, publishing, published, edits>>

-----------------------------------------------------------------------------
VersionStatus == {"none", "draft", "in_force", "superseded"}
Row(status, structure, hash) ==
  [status |-> status, structure |-> structure, hash |-> hash]
NotPublishing == [at |-> "idle", on |-> None, read |-> 0]

InForce == {v \in Version : version[v].status = "in_force"}

\* The hash is the structure it was computed of; 0 is no hash.
InstrumentsInit ==
  /\ \E s \in Structure \ {0} :
       version = [v \in Version |-> IF v = First THEN Row("in_force", s, s)
                                    ELSE Row("none", 0, 0)]
  /\ publishing = [p \in Publisher |-> NotPublishing]
  /\ published = {} /\ edits = 0

\* The variables have the shapes their comments say.
InstrumentsTypeOK ==
  /\ version \in [Version ->
       [status : VersionStatus, structure : Structure, hash : Structure]]
  /\ publishing \in [Publisher ->
       [at : {"idle", "checked", "committed"}, on : Version \cup {None}, read : Structure]]
  /\ \A p \in Publisher : publishing[p].at # "idle" => publishing[p].on \in Version
  /\ published \subseteq [of : Version, hash : Structure]
  /\ edits \in 0..MaxEdits

-----------------------------------------------------------------------------
CreateDraft(v, s) ==
  /\ version[v].status = "none"
  /\ version' = [version EXCEPT ![v] = Row("draft", s, 0)]
  /\ UNCHANGED <<publishing, published, edits>>

\* Mutant: the status is not asked.
ReplaceDraftStructure_AnyStatus(v, s) ==
  /\ edits < MaxEdits /\ edits' = edits + 1
  /\ version[v].status # "none"
  /\ version' = [version EXCEPT ![v].structure = s]
  /\ UNCHANGED <<publishing, published>>

\* The row is locked, so the status cannot change before the commit.
ReplaceDraftStructure(v, s) ==
  /\ edits < MaxEdits /\ edits' = edits + 1
  /\ version[v].status = "draft"
  /\ version' = [version EXCEPT ![v].structure = s]
  /\ UNCHANGED <<publishing, published>>

\* publish(): the version as it is read, outside any transaction.
CheckDraft(p, v) ==
  /\ publishing[p] = NotPublishing
  /\ version[v].status = "draft" /\ version[v].structure # 0
  /\ publishing' = [publishing EXCEPT ![p] =
                      [at |-> "checked", on |-> v, read |-> version[v].structure]]
  /\ UNCHANGED <<version, published, edits>>

\* The transaction: the version in force is demoted, and this one takes its
\* place whatever has become of it.
Demoted(v, row) ==
  IF row.status = "in_force" THEN [row EXCEPT !.status = "superseded"] ELSE row
PutInForce(p) ==
  LET v == publishing[p].on
  IN  /\ publishing[p].at = "checked"
      /\ version' = [w \in Version |->
                       IF w = v THEN Row("in_force", version[v].structure, publishing[p].read)
                       ELSE Demoted(w, version[w])]
      /\ publishing' = [publishing EXCEPT ![p].at = "committed"]
      /\ UNCHANGED <<published, edits>>

AppendPublished(p) ==
  /\ publishing[p].at = "committed"
  /\ published' = published \cup {[of |-> publishing[p].on, hash |-> publishing[p].read]}
  /\ publishing' = [publishing EXCEPT ![p] = NotPublishing]
  /\ UNCHANGED <<version, edits>>

\* The process stops, before the transaction or after it; or another publish
\* overlapped it, whose version the demotion did not see, and the index that
\* allows one version in force undoes the transaction.
PublishFails(p) ==
  /\ publishing[p].at # "idle"
  /\ publishing' = [publishing EXCEPT ![p] = NotPublishing]
  /\ UNCHANGED <<version, published, edits>>

-----------------------------------------------------------------------------
\* bootstrap(): the version an inspector's phone is given, with its structure
\* and its hash.
Bundle ==
  {[of |-> v, structure |-> version[v].structure, hash |-> version[v].hash] : v \in InForce}
=============================================================================
