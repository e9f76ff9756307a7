-------------------------------- MODULE Memo --------------------------------
(***************************************************************************)
(* What the call journal promises the engine: a memo table that learns     *)
(* newer results, serves what it knows, and never forgets.  Processes,     *)
(* files and kills do not appear.                                          *)
(***************************************************************************)
EXTENDS Integers

CONSTANT Keys

VARIABLES
  known,  \* key -> the newest result the memo can serve (its version, or -1)
  seen    \* key -> the newest result a caller has been given

Unknown == -1

Init == known = [k \in Keys |-> Unknown] /\ seen = [k \in Keys |-> Unknown]

\* A newer result of k is recorded.
Learn(k) ==
  /\ known'[k] \in Nat /\ known'[k] > known[k]
  /\ known' = [known EXCEPT ![k] = known'[k]]
  /\ UNCHANGED seen

\* A caller is given a result the memo holds or held.
Serve(k) ==
  /\ \E v \in 0 .. known[k] : /\ v > seen[k]
                              /\ seen' = [seen EXCEPT ![k] = v]
  /\ UNCHANGED known

Next == \E k \in Keys : Learn(k) \/ Serve(k)

Spec == Init /\ [][Next]_<<known, seen>>
=============================================================================
