------------------------------- MODULE NameTrim -------------------------------
(***************************************************************************)
(* StringUtils.trim, the loops as they run: one from the first byte to the *)
(* first that is no space, one from the last byte down to the last that is *)
(* none, and a copy of what lies between.  Indexes are unsigned and        *)
(* checked: going below zero reverts the call.                             *)
(*                                                                         *)
(* Sequences are numbered from 1 here; i is the code's index.              *)
(***************************************************************************)
EXTENDS Integers, Sequences

CONSTANTS Space, Letters,  \* bytes
          MaxLength        \* bound on the length of a name

ASSUME TrimAssumption == Space \notin Letters /\ MaxLength \in Nat

VARIABLES str,      \* the argument
          i, start, end,
          trimmed,  \* the result as far as it is copied
          pc        \* "start", "end", "copy", "done", "reverted"

vars == <<str, i, start, end, trimmed, pc>>

Bytes == Letters \union {Space}
Names == UNION {[1..n -> Bytes] : n \in 0..MaxLength}

\* _str[k]
At(k) == str[k + 1]

Init ==
    /\ str \in Names
    /\ i = 0 /\ start = 0 /\ end = Len(str) /\ trimmed = <<>>
    /\ pc = IF Len(str) = 0 THEN "done" ELSE "start"

TypeOK ==
    /\ str \in Seq(Bytes) /\ trimmed \in Seq(Bytes)
    /\ i \in 0..Len(str) /\ start \in 0..Len(str) /\ end \in 0..Len(str)
    /\ pc \in {"start", "end", "copy", "done", "reverted"}

\* The first loop: start stays zero when there are only spaces.
FindStart ==
    /\ pc = "start"
    /\ IF i < Len(str) /\ At(i) = Space
       THEN i' = i + 1 /\ UNCHANGED <<start, pc>>
       ELSE /\ start' = IF i < Len(str) THEN i ELSE start
            /\ i' = Len(str) - 1 /\ pc' = "end"
    /\ UNCHANGED <<str, end, trimmed>>

\* Faulty: the byte that is no space is left out.
FindEndShort ==
    /\ pc = "end"
    /\ IF At(i) # Space THEN end' = i /\ i' = start /\ pc' = "copy"
       ELSE IF i = 0 THEN pc' = "reverted" /\ UNCHANGED <<i, end>>
       ELSE i' = i - 1 /\ UNCHANGED <<end, pc>>
    /\ UNCHANGED <<str, start, trimmed>>

\* Faulty: the loop counts down before it looks at a byte.
FindEndAfter ==
    /\ pc = "end"
    /\ IF i = 0 THEN pc' = "reverted" /\ UNCHANGED <<i, end>>
       ELSE IF At(i - 1) # Space THEN end' = i /\ i' = start /\ pc' = "copy"
       ELSE i' = i - 1 /\ UNCHANGED <<end, pc>>
    /\ UNCHANGED <<str, start, trimmed>>

\* Faulty: below zero the index wraps and the loop goes over the bytes again.
FindEndWraps ==
    /\ pc = "end"
    /\ IF At(i) # Space THEN end' = i + 1 /\ i' = start /\ pc' = "copy"
       ELSE i' = (i + Len(str) - 1) % Len(str) /\ UNCHANGED <<end, pc>>
    /\ UNCHANGED <<str, start, trimmed>>

\* The second loop.  It passes below start only when start is zero, and then reverts.
FindEnd ==
    /\ pc = "end"
    /\ IF At(i) # Space THEN end' = i + 1 /\ i' = start /\ pc' = "copy"
       ELSE IF i = 0 THEN pc' = "reverted" /\ UNCHANGED <<i, end>>
       ELSE i' = i - 1 /\ UNCHANGED <<end, pc>>
    /\ UNCHANGED <<str, start, trimmed>>

Copy ==
    /\ pc = "copy"
    /\ IF i < end THEN /\ trimmed' = Append(trimmed, At(i)) /\ i' = i + 1 /\ UNCHANGED pc
                  ELSE pc' = "done" /\ UNCHANGED <<i, trimmed>>
    /\ UNCHANGED <<str, start, end>>

Next == FindStart \/ FindEnd \/ Copy

Spec == Init /\ [][Next]_vars
FairSpec == Spec /\ WF_vars(Next)

-----------------------------------------------------------------------------
(* Properties *)

OnlySpaces == \A k \in 1..Len(str) : str[k] = Space

\* The result of trim is the argument without the spaces at its two ends: what it took off
\* is spaces, and what it kept begins and ends with none.
TrimmedName ==
    pc = "done" =>
        \/ str = <<>> /\ trimmed = <<>>
        \/ \E a \in 1..Len(str), b \in 1..Len(str) :
             /\ a <= b /\ trimmed = SubSeq(str, a, b)
             /\ str[a] # Space /\ str[b] # Space
             /\ \A k \in 1..a - 1 : str[k] = Space
             /\ \A k \in b + 1..Len(str) : str[k] = Space

\* trim reverts only on a name of spaces.
RevertsOnSpaces == pc = "reverted" => str # <<>> /\ OnlySpaces

\* trim returns the name without its surrounding spaces, reverts on names of spaces only, and
\* never reads or writes outside its arrays.
TrimCorrect == TypeOK /\ TrimmedName /\ RevertsOnSpaces

\* trim ends on every name: the loops have no other way to stop.
TrimEnds == <>(pc \in {"done", "reverted"})

=============================================================================
