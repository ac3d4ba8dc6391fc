---------------------------- MODULE AtomicObject ----------------------------
(***************************************************************************)
(* What the storage promises of one object: an upload replaces it at once  *)
(* and by the whole of what was read, and a download that succeeds returns *)
(* exactly one version.                                                    *)
(***************************************************************************)
CONSTANTS Versions, None

VARIABLES object, taken, answer

vars == <<object, taken, answer>>

Init == object \in Versions /\ taken = None /\ answer = None

Put(v) ==
    /\ object' = v
    /\ UNCHANGED <<taken, answer>>

\* The version of the answer is the one at some moment of the download.
Take ==
    /\ taken = None
    /\ taken' = object
    /\ UNCHANGED <<object, answer>>

Answer ==
    /\ taken # None /\ answer = None
    /\ answer' = taken
    /\ UNCHANGED <<object, taken>>

Next == (\E v \in Versions : Put(v)) \/ Take \/ Answer

Spec == Init /\ [][Next]_vars
=============================================================================
