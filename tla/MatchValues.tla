---------------------------- MODULE MatchValues ----------------------------
(***************************************************************************)
(* What a MatchData promises, without memory: it holds one match or none.  *)
(* A match it holds is replaced only by a call on that MatchData, a copy   *)
(* holds what its source holds at that moment and shares nothing with it   *)
(* afterwards, and $~ always names a MatchData that was given a match.     *)
(***************************************************************************)
CONSTANTS MatchDatas, Matches, Absent, Empty, None

VARIABLES
  val,   \* what each MatchData holds
  last   \* the MatchData $~ names

vars == <<val, last>>

Init ==
  /\ val = [m \in MatchDatas |-> Absent]
  /\ last = None

\* initialize, on a new or on an existing MatchData
Clear(m) ==
  /\ val' = [val EXCEPT ![m] = Empty]
  /\ UNCHANGED last

\* Regexp#match fills only a MatchData that holds nothing
Found(m, v) ==
  /\ val[m] = Empty
  /\ val' = [val EXCEPT ![m] = v]
  /\ UNCHANGED last

Copy(c, s) ==
  /\ val[c] # Absent /\ val[s] # Absent
  /\ val' = [val EXCEPT ![c] = val[s]]
  /\ UNCHANGED last

Publish(m) ==
  /\ val[m] \in Matches
  /\ last' = m
  /\ UNCHANGED val

\* garbage collection
Drop(m) ==
  /\ val[m] # Absent /\ m # last
  /\ val' = [val EXCEPT ![m] = Absent]
  /\ UNCHANGED last

Next ==
  \E m \in MatchDatas :
    \/ Clear(m) \/ Publish(m) \/ Drop(m)
    \/ \E v \in Matches : Found(m, v)
    \/ \E s \in MatchDatas : Copy(m, s)

Spec == Init /\ [][Next]_vars
=============================================================================
