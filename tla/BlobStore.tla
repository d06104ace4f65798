------------------------------ MODULE BlobStore ------------------------------
(***************************************************************************)
(* One key of the evidence store (sync/s3-blob-store.ts, with              *)
(* local-blob-store.ts and storage.service.ts).                            *)
(*                                                                         *)
(* The key is the hash of the bytes that belong under it.  A bucket with   *)
(* versions and object lock never loses a version, but a later write by    *)
(* anybody becomes the current one.  A key is the sequence of its          *)
(* versions: "own" hashes to the key, "other" does not.                    *)
(***************************************************************************)
EXTENDS Naturals, Sequences

Versions == Seq({"own", "other"})

\* head(): does the key hold anything?
Present(vs) == vs # <<>>

\* putIfAbsent(): the bytes were hashed before, and the store itself refuses
\* the write (If-None-Match) where the key holds anything.
PutIfAbsent(vs) == IF Present(vs) THEN vs ELSE Append(vs, "own")

\* Some version hashes to the key.
Authentic(vs) == \E i \in 1..Len(vs) : vs[i] = "own"

\* get(): the current version where it hashes to the key, and else the newest
\* version that does.
Get(vs) ==
  IF ~Present(vs) THEN "none"
  ELSE IF vs[Len(vs)] = "own" THEN "own"
  ELSE IF Authentic(vs) THEN "own" ELSE "none"

\* verify(), of what get() returns.
Verify(vs) == [present |-> Get(vs) # "none", intact |-> Get(vs) = "own"]
=============================================================================
