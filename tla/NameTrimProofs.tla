---------------------------- MODULE NameTrimProofs ----------------------------
(***************************************************************************)
(* trim, proved for names of every length and over every alphabet.         *)
(*                                                                         *)
(* The inductive invariant says, for each loop, what the bytes it has      *)
(* passed are: spaces for the first two, copied bytes for the third.       *)
(***************************************************************************)
EXTENDS NameTrim, TLAPS

\* What the loops know of start and end when they have found them.
StartFound ==
    /\ start \in 0..Len(str) - 1
    /\ At(start) # Space
    /\ \A k \in 0..start - 1 : At(k) = Space

EndFound ==
    /\ end \in start + 1..Len(str)
    /\ At(end - 1) # Space
    /\ \A k \in end..Len(str) - 1 : At(k) = Space

AllSpaces == \A k \in 0..Len(str) - 1 : At(k) = Space

StartInv ==
    pc = "start" =>
        /\ Len(str) > 0 /\ i \in 0..Len(str)
        /\ start = 0 /\ end = Len(str) /\ trimmed = <<>>
        /\ \A k \in 0..i - 1 : At(k) = Space

EndInv ==
    pc = "end" =>
        /\ i \in 0..Len(str) - 1 /\ end = Len(str) /\ trimmed = <<>>
        /\ (StartFound /\ start <= i) \/ (AllSpaces /\ start = 0)
        /\ \A k \in i + 1..Len(str) - 1 : At(k) = Space

CopyInv ==
    pc = "copy" =>
        /\ StartFound /\ EndFound
        /\ i \in start..end
        /\ trimmed = SubSeq(str, start + 1, i)

DoneInv ==
    pc = "done" => \/ str = <<>> /\ trimmed = <<>>
                   \/ /\ StartFound /\ EndFound
                      /\ trimmed = SubSeq(str, start + 1, end)

RevertedInv == pc = "reverted" => Len(str) > 0 /\ AllSpaces

TrimInv == TypeOK /\ StartInv /\ EndInv /\ CopyInv /\ DoneInv /\ RevertedInv

-----------------------------------------------------------------------------

\* A byte of a name is a byte.
LEMMA AtType == ASSUME NEW s \in Seq(Bytes), NEW k \in 0..Len(s) - 1
                PROVE  s[k + 1] \in Bytes
  OBVIOUS

\* Copying the next byte makes the copied part one byte longer.
LEMMA CopyOne ==
    ASSUME NEW s \in Seq(Bytes), NEW a \in 1..Len(s), NEW b \in a - 1..Len(s) - 1
    PROVE  /\ Append(SubSeq(s, a, b), s[b + 1]) = SubSeq(s, a, b + 1)
           /\ SubSeq(s, a, b + 1) \in Seq(Bytes)
  OBVIOUS

\* A name is a sequence of bytes.
LEMMA NamesAreSequences == ASSUME NEW s \in Names PROVE s \in Seq(Bytes)
  <1>1. PICK n \in 0..MaxLength : s \in [1..n -> Bytes]
    BY DEF Names
  <1> QED
    BY <1>1, TrimAssumption

LEMMA TrimInvInit == Init => TrimInv
  <1> SUFFICES ASSUME Init PROVE TrimInv
    OBVIOUS
  <1>1. str \in Seq(Bytes)
    BY NamesAreSequences DEF Init
  <1>2. Len(str) = 0 => str = <<>>
    BY <1>1
  <1> QED
    BY <1>1, <1>2 DEF Init, TrimInv, TypeOK, StartInv, EndInv, CopyInv, DoneInv, RevertedInv

LEMMA TrimInvFindStart == ASSUME TrimInv, FindStart PROVE TrimInv'
  <1>1. str \in Seq(Bytes) /\ Len(str) \in Nat
    BY DEF TrimInv, TypeOK
  <1>2. CASE i < Len(str) /\ At(i) = Space
    <2>1. /\ pc' = "start" /\ i' = i + 1
          /\ UNCHANGED <<str, start, end, trimmed>>
      BY <1>2 DEF FindStart
    <2>2. \A k \in 0..i' - 1 : At(k)' = Space
      BY <1>1, <1>2, <2>1 DEF TrimInv, TypeOK, StartInv, FindStart, At
    <2> QED
      BY <1>1, <1>2, <2>1, <2>2
         DEF TrimInv, TypeOK, StartInv, EndInv, CopyInv, DoneInv, RevertedInv, FindStart
  <1>3. CASE i < Len(str) /\ At(i) # Space
    <2>1. /\ pc' = "end" /\ i' = Len(str) - 1 /\ start' = i
          /\ UNCHANGED <<str, end, trimmed>>
      BY <1>3 DEF FindStart
    <2>2. StartFound'
      BY <1>1, <1>3, <2>1 DEF TrimInv, TypeOK, StartInv, FindStart, StartFound, At
    <2> QED
      BY <1>1, <1>3, <2>1, <2>2
         DEF TrimInv, TypeOK, StartInv, EndInv, CopyInv, DoneInv, RevertedInv, FindStart
  <1>4. CASE ~(i < Len(str))
    <2>1. /\ pc' = "end" /\ i' = Len(str) - 1
          /\ UNCHANGED <<str, start, end, trimmed>>
      BY <1>4 DEF FindStart
    <2>2. AllSpaces'
      BY <1>1, <1>4, <2>1 DEF TrimInv, TypeOK, StartInv, FindStart, AllSpaces, At
    <2> QED
      BY <1>1, <1>4, <2>1, <2>2
         DEF TrimInv, TypeOK, StartInv, EndInv, CopyInv, DoneInv, RevertedInv, FindStart
  <1> QED
    BY <1>2, <1>3, <1>4

LEMMA TrimInvFindEnd == ASSUME TrimInv, FindEnd PROVE TrimInv'
  <1>1. str \in Seq(Bytes) /\ Len(str) \in Nat
    BY DEF TrimInv, TypeOK
  <1>2. CASE At(i) # Space
    <2>1. /\ pc' = "copy" /\ end' = i + 1 /\ i' = start
          /\ UNCHANGED <<str, start, trimmed>>
      BY <1>2 DEF FindEnd
    <2>2. StartFound /\ start <= i /\ i \in 0..Len(str) - 1 /\ trimmed = <<>>
      BY <1>2 DEF TrimInv, EndInv, FindEnd, AllSpaces
    <2>3. StartFound'
      BY <2>1, <2>2 DEF StartFound, At
    <2>4. EndFound'
      BY <1>1, <1>2, <2>1, <2>2 DEF TrimInv, EndInv, FindEnd, EndFound, StartFound, At
    <2>5. trimmed' = SubSeq(str', start' + 1, i')
      BY <1>1, <2>1, <2>2 DEF StartFound
    <2> QED
      BY <1>1, <2>1, <2>2, <2>3, <2>4, <2>5
         DEF TrimInv, TypeOK, StartInv, EndInv, CopyInv, DoneInv, RevertedInv, StartFound, EndFound
  <1>3. CASE At(i) = Space /\ i = 0
    <2>1. pc' = "reverted" /\ UNCHANGED <<str, i, start, end, trimmed>>
      BY <1>3 DEF FindEnd
    <2>2. AllSpaces' /\ Len(str) > 0
      BY <1>1, <1>3, <2>1 DEF TrimInv, TypeOK, EndInv, FindEnd, AllSpaces, At
    <2> QED
      BY <1>1, <2>1, <2>2
         DEF TrimInv, TypeOK, StartInv, EndInv, CopyInv, DoneInv, RevertedInv
  <1>4. CASE At(i) = Space /\ i # 0
    <2>1. pc = "end" /\ pc' = "end" /\ i' = i - 1 /\ UNCHANGED <<str, start, end, trimmed>>
      BY <1>4 DEF FindEnd
    <2>2. \A k \in i'+ 1..Len(str) - 1 : At(k) = Space
      BY <1>1, <1>4, <2>1 DEF TrimInv, TypeOK, EndInv
    <2>3. (StartFound /\ start <= i') \/ (AllSpaces /\ start = 0)
      BY <1>1, <1>4, <2>1 DEF TrimInv, TypeOK, EndInv, StartFound
    <2>4. (StartFound' /\ start' <= i') \/ (AllSpaces' /\ start' = 0)
      BY <2>1, <2>3 DEF StartFound, AllSpaces, At
    <2> QED
      BY <1>1, <1>4, <2>1, <2>2, <2>4
         DEF TrimInv, TypeOK, StartInv, EndInv, CopyInv, DoneInv, RevertedInv, At
  <1> QED
    BY <1>2, <1>3, <1>4

LEMMA TrimInvCopy == ASSUME TrimInv, Copy PROVE TrimInv'
  <1>1. /\ str \in Seq(Bytes) /\ Len(str) \in Nat
        /\ StartFound /\ EndFound /\ i \in start..end
        /\ trimmed = SubSeq(str, start + 1, i)
    BY DEF TrimInv, TypeOK, CopyInv, Copy
  <1>2. StartFound' /\ EndFound'
    BY <1>1 DEF Copy, StartFound, EndFound, At
  <1>3. CASE i < end
    <2>1. /\ pc' = "copy" /\ i' = i + 1 /\ trimmed' = Append(trimmed, str[i + 1])
          /\ UNCHANGED <<str, start, end>>
      BY <1>3 DEF Copy, At
    <2>2. start + 1 \in 1..Len(str) /\ i \in start..Len(str) - 1
      BY <1>1, <1>3 DEF StartFound, EndFound
    <2>3. trimmed' = SubSeq(str, start + 1, i + 1) /\ trimmed' \in Seq(Bytes)
      <3>1. i \in (start + 1) - 1..Len(str) - 1
        BY <1>1, <2>2 DEF StartFound
      <3>2. /\ Append(SubSeq(str, start + 1, i), str[i + 1]) = SubSeq(str, start + 1, i + 1)
            /\ SubSeq(str, start + 1, i + 1) \in Seq(Bytes)
        BY <1>1, <2>2, <3>1, CopyOne
      <3> QED
        BY <1>1, <2>1, <3>2
    <2> QED
      BY <1>1, <1>2, <1>3, <2>1, <2>2, <2>3
         DEF TrimInv, TypeOK, StartInv, EndInv, CopyInv, DoneInv, RevertedInv, StartFound, EndFound
  <1>4. CASE ~(i < end)
    <2>1. pc' = "done" /\ i = end /\ UNCHANGED <<str, i, start, end, trimmed>>
      BY <1>1, <1>4 DEF Copy, StartFound, EndFound
    <2> QED
      BY <1>1, <1>2, <2>1
         DEF TrimInv, TypeOK, StartInv, EndInv, CopyInv, DoneInv, RevertedInv
  <1> QED
    BY <1>3, <1>4

\* What is always true of the three loops.
THEOREM TrimInvariant == Spec => []TrimInv
  <1>1. Init => TrimInv
    BY TrimInvInit
  <1>2. TrimInv /\ [Next]_vars => TrimInv'
    <2> SUFFICES ASSUME TrimInv, [Next]_vars PROVE TrimInv'
      OBVIOUS
    <2>1. CASE FindStart
      BY <2>1, TrimInvFindStart
    <2>2. CASE FindEnd
      BY <2>2, TrimInvFindEnd
    <2>3. CASE Copy
      BY <2>3, TrimInvCopy
    <2>4. CASE UNCHANGED vars
      BY <2>4 DEF vars, TrimInv, TypeOK, StartInv, EndInv, CopyInv, DoneInv, RevertedInv,
                  StartFound, EndFound, AllSpaces, At
    <2> QED
      BY <2>1, <2>2, <2>3, <2>4 DEF Next
  <1> QED
    BY <1>1, <1>2, PTL DEF Spec

\* The result of trim is the name without the spaces at its ends, for names of any length:
\* the loops of StringUtils.trim neither leave a space nor cut a letter.
THEOREM TrimsSpaces == Spec => []TrimmedName
  <1>1. TrimInv => TrimmedName
    <2> SUFFICES ASSUME TrimInv, pc = "done", ~(str = <<>> /\ trimmed = <<>>)
                 PROVE  \E a \in 1..Len(str), b \in 1..Len(str) :
                            /\ a <= b /\ trimmed = SubSeq(str, a, b)
                            /\ str[a] # Space /\ str[b] # Space
                            /\ \A k \in 1..a - 1 : str[k] = Space
                            /\ \A k \in b + 1..Len(str) : str[k] = Space
      BY DEF TrimmedName
    <2>1. /\ str \in Seq(Bytes) /\ Len(str) \in Nat /\ StartFound /\ EndFound
          /\ trimmed = SubSeq(str, start + 1, end)
      BY DEF TrimInv, TypeOK, DoneInv
    <2>2. start + 1 \in 1..Len(str) /\ end \in 1..Len(str) /\ start + 1 <= end
      BY <2>1 DEF StartFound, EndFound
    <2>3. str[start + 1] # Space /\ str[end] # Space
      BY <2>1, <2>2 DEF StartFound, EndFound, At
    <2>4. \A k \in 1..(start + 1) - 1 : str[k] = Space
      <3> TAKE k \in 1..(start + 1) - 1
      <3>1. k - 1 \in 0..start - 1 /\ (k - 1) + 1 = k
        BY <2>1 DEF StartFound
      <3> QED
        BY <2>1, <3>1 DEF StartFound, At
    <2>5. \A k \in end + 1..Len(str) : str[k] = Space
      <3> TAKE k \in end + 1..Len(str)
      <3>1. k - 1 \in end..Len(str) - 1 /\ (k - 1) + 1 = k
        BY <2>1, <2>2
      <3> QED
        BY <2>1, <3>1 DEF EndFound, At
    <2> QED
      BY <2>1, <2>2, <2>3, <2>4, <2>5
  <1> QED
    BY <1>1, TrimInvariant, PTL

\* trim reverts on names of spaces only, whatever their length: no other name takes the
\* unsigned index below zero.
THEOREM RevertsOnlyOnSpaces == Spec => []RevertsOnSpaces
  <1>1. TrimInv => RevertsOnSpaces
    <2> SUFFICES ASSUME TrimInv, pc = "reverted" PROVE str # <<>> /\ OnlySpaces
      BY DEF RevertsOnSpaces
    <2>1. str \in Seq(Bytes) /\ Len(str) > 0 /\ AllSpaces
      BY DEF TrimInv, TypeOK, RevertedInv
    <2>2. OnlySpaces
      <3> SUFFICES ASSUME NEW k \in 1..Len(str) PROVE str[k] = Space
        BY DEF OnlySpaces
      <3>1. k - 1 \in 0..Len(str) - 1 /\ (k - 1) + 1 = k
        BY <2>1
      <3> QED
        BY <2>1, <3>1 DEF AllSpaces, At
    <2> QED
      BY <2>1, <2>2
  <1> QED
    BY <1>1, TrimInvariant, PTL

\* No loop of trim reads or writes outside its arrays or takes an index below zero.
THEOREM TrimTypes == Spec => []TypeOK
  <1>1. TrimInv => TypeOK
    BY DEF TrimInv
  <1> QED
    BY <1>1, TrimInvariant, PTL

\* trim does what the registry asks of it, for names of every length.
THEOREM TrimIsCorrect == Spec => []TrimCorrect
  BY TrimTypes, TrimsSpaces, RevertsOnlyOnSpaces, PTL DEF TrimCorrect
=============================================================================
