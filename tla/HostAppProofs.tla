---------------------------- MODULE HostAppProofs ----------------------------
(***************************************************************************)
(* What the in-process host (module HostApp) always does, for every set of *)
(* plugins, values and tempos, every depth of the undo stack and every     *)
(* length of the rack: its state has the types the code gives it, undoing  *)
(* all leads back to where the kept history begins (UndoLeads) and redoing *)
(* all to what the user had made last (RedoLeads).                         *)
(*                                                                         *)
(* The argument is a chain of contents of the rack (Chained): one for the  *)
(* place before each kept entry and one after the last, such that each     *)
(* entry leads from its content to the next and, undone, back (Edge).  The *)
(* undo stack is the chain up to the rack's content, the redo stack, read  *)
(* backwards, the chain from there on.  Undo and redo only move the place  *)
(* on the chain; a new entry cuts it and adds a link (AddedEdge,           *)
(* RemovedEdge, MovedEdge, StandingEdge), one too many drops its first     *)
(* link, merging replaces a link between equal contents.  Every other step *)
(* keeps the content.  That an edit of the rack is the same edit of its    *)
(* content (CaptureEdit), and what takes an edit of a sequence back        *)
(* (AddTakenBack, RemovalTakenBack, MoveTakenBack), comes first.           *)
(*                                                                         *)
(* Rewound and Replayed are recursive functions: that they run along the   *)
(* chain is shown at the first place where they would not (Smallest).      *)
(***************************************************************************)
EXTENDS HostApp, FiniteSetTheorems, SequenceTheorems, NaturalsInduction, WellFoundedInduction, TLAPS

-----------------------------------------------------------------------------
(* Edits of a sequence, and how each is taken back *)

\* Vec::remove.
LEMMA Removal ==
  ASSUME NEW S, NEW s \in Seq(S), NEW i \in 1..Len(s)
  PROVE  /\ RemoveAt(s, i) \in Seq(S) /\ Len(RemoveAt(s, i)) = Len(s) - 1
         /\ \A j \in 1..(Len(s) - 1) : RemoveAt(s, i)[j] = IF j < i THEN s[j] ELSE s[j + 1]
PROOF
  <1>1. PICK front, back : front = SubSeq(s, 1, i - 1) /\ back = SubSeq(s, i + 1, Len(s))
    OBVIOUS
  <1>2. Len(s) \in Nat
    OBVIOUS
  <1>3. /\ front \in Seq(S) /\ Len(front) = i - 1
        /\ \A k \in 1..(i - 1) : front[k] = s[k]
    BY <1>1, <1>2
  <1>4. /\ back \in Seq(S) /\ Len(back) = Len(s) - i
        /\ \A k \in 1..(Len(s) - i) : back[k] = s[k + i]
    BY <1>1, <1>2
  <1>5. PICK r : r = front \o back
    OBVIOUS
  <1>6. RemoveAt(s, i) = r
    BY <1>1, <1>5 DEF RemoveAt
  <1>7. r \in Seq(S) /\ Len(r) = Len(s) - 1
    <2>1. r \in Seq(S) /\ Len(r) = Len(front) + Len(back)
      BY <1>3, <1>4, <1>5, ConcatProperties
    <2>2. (i - 1) + (Len(s) - i) = Len(s) - 1
      BY <1>2
    <2> QED BY <1>3, <1>4, <2>1, <2>2
  <1>8. ASSUME NEW j \in 1..(Len(s) - 1)
        PROVE  r[j] = IF j < i THEN s[j] ELSE s[j + 1]
    <2>1. j < i => r[j] = front[j]
      BY <1>2, <1>3, <1>4, <1>5
    <2>2. ~(j < i) => r[j] = back[j - (i - 1)]
      BY <1>2, <1>3, <1>4, <1>5
    <2>3. ~(j < i) => j - (i - 1) \in 1..(Len(s) - i) /\ (j - (i - 1)) + i = j + 1
      BY <1>2
    <2>4. j < i => j \in 1..(i - 1)
      BY <1>2
    <2>5. CASE j < i
      BY <1>3, <2>1, <2>4, <2>5
    <2>6. CASE ~(j < i)
      BY <1>4, <2>2, <2>3, <2>6
    <2> QED BY <2>5, <2>6
  <1> QED BY <1>6, <1>7, <1>8

\* Vec::insert.
LEMMA InsertionIs ==
  ASSUME NEW S, NEW s \in Seq(S), NEW i \in 1..(Len(s) + 1), NEW e \in S
  PROVE  /\ InsertAt(s, i, e) \in Seq(S) /\ Len(InsertAt(s, i, e)) = Len(s) + 1
         /\ \A j \in 1..(Len(s) + 1) :
              InsertAt(s, i, e)[j] = IF j < i THEN s[j] ELSE IF j = i THEN e ELSE s[j - 1]
PROOF
  <1>1. PICK front, back : front = SubSeq(s, 1, i - 1) /\ back = SubSeq(s, i, Len(s))
    OBVIOUS
  <1>2. Len(s) \in Nat
    OBVIOUS
  <1>3. /\ front \in Seq(S) /\ Len(front) = i - 1
        /\ \A k \in 1..(i - 1) : front[k] = s[k]
    BY <1>1, <1>2
  <1>4. /\ back \in Seq(S) /\ Len(back) = Len(s) - i + 1
        /\ \A k \in 1..(Len(s) - i + 1) : back[k] = s[k + i - 1]
    BY <1>1, <1>2
  <1>5. PICK begin : begin = front \o <<e>>
    OBVIOUS
  <1>6. /\ begin \in Seq(S) /\ Len(begin) = i
        /\ \A k \in 1..(i - 1) : begin[k] = s[k]
        /\ begin[i] = e
    BY <1>3, <1>5
  <1>7. PICK r : r = begin \o back
    OBVIOUS
  <1>8. InsertAt(s, i, e) = r
    BY <1>1, <1>5, <1>7 DEF InsertAt
  <1>9. r \in Seq(S) /\ Len(r) = Len(s) + 1
    <2>1. r \in Seq(S) /\ Len(r) = Len(begin) + Len(back)
      BY <1>4, <1>6, <1>7, ConcatProperties
    <2>2. i + (Len(s) - i + 1) = Len(s) + 1
      BY <1>2
    <2> QED BY <1>4, <1>6, <2>1, <2>2
  <1>10. ASSUME NEW j \in 1..(Len(s) + 1)
         PROVE  r[j] = IF j < i THEN s[j] ELSE IF j = i THEN e ELSE s[j - 1]
    <2>1. ~(j > i) => r[j] = begin[j]
      BY <1>2, <1>4, <1>6, <1>7
    <2>2. j > i => r[j] = back[j - i]
      BY <1>2, <1>4, <1>6, <1>7
    <2>3. j > i => j - i \in 1..(Len(s) - i + 1) /\ (j - i) + i - 1 = j - 1
      BY <1>2
    <2>4. ~(j > i) => j = i \/ (j < i /\ j \in 1..(i - 1))
      BY <1>2
    <2> QED BY <1>4, <1>6, <2>1, <2>2, <2>3, <2>4
  <1> QED BY <1>8, <1>9, <1>10

\* What each leaves at a position.
LEMMA RemovalElements ==
  ASSUME NEW S, NEW s \in Seq(S), NEW i \in 1..Len(s), NEW j \in 1..(Len(s) - 1)
  PROVE  RemoveAt(s, i)[j] = IF j < i THEN s[j] ELSE s[j + 1]
BY Removal

\* Vec::insert makes the sequence one longer.
LEMMA Insertion ==
  ASSUME NEW S, NEW s \in Seq(S), NEW i \in 1..(Len(s) + 1), NEW e \in S
  PROVE  InsertAt(s, i, e) \in Seq(S) /\ Len(InsertAt(s, i, e)) = Len(s) + 1
BY InsertionIs

\* What it leaves at a position.
LEMMA InsertionElements ==
  ASSUME NEW S, NEW s \in Seq(S), NEW i \in 1..(Len(s) + 1), NEW e \in S,
         NEW j \in 1..(Len(s) + 1)
  PROVE  InsertAt(s, i, e)[j] = IF j < i THEN s[j] ELSE IF j = i THEN e ELSE s[j - 1]
BY InsertionIs

\* Inserted appends what would come after the end.
LEMMA InsertedAt ==
  ASSUME NEW S, NEW s \in Seq(S), NEW i \in Nat \ {0}, NEW e \in S
  PROVE  \E k \in 1..(Len(s) + 1) :
           k = (IF i <= Len(s) THEN i ELSE Len(s) + 1) /\ Inserted(s, i, e) = InsertAt(s, k, e)
PROOF
  <1>1. PICK k \in 1..(Len(s) + 1) : k = IF i <= Len(s) THEN i ELSE Len(s) + 1
    OBVIOUS
  <1>2. Inserted(s, i, e) = InsertAt(s, k, e)
    BY <1>1 DEF Inserted
  <1> QED BY <1>1, <1>2

\* Inserted too makes the sequence one longer.
LEMMA InsertedIs ==
  ASSUME NEW S, NEW s \in Seq(S), NEW i \in Nat \ {0}, NEW e \in S
  PROVE  Inserted(s, i, e) \in Seq(S) /\ Len(Inserted(s, i, e)) = Len(s) + 1
PROOF
  <1>1. PICK k \in 1..(Len(s) + 1) : Inserted(s, i, e) = InsertAt(s, k, e)
    BY InsertedAt
  <1> QED BY <1>1, Insertion

\* Removed takes the last of what is there beyond the end, if anything is.
LEMMA RemovedIs ==
  ASSUME NEW S, NEW s \in Seq(S), NEW i \in Nat \ {0}
  PROVE  /\ Removed(s, i) \in Seq(S)
         /\ s = <<>> => Removed(s, i) = <<>>
         /\ s # <<>> => \E k \in 1..Len(s) :
              /\ k = (IF i <= Len(s) THEN i ELSE Len(s)) /\ Removed(s, i) = RemoveAt(s, k)
              /\ Len(Removed(s, i)) = Len(s) - 1
PROOF
  <1>1. CASE s = <<>>
    BY <1>1 DEF Removed
  <1>2. CASE s # <<>>
    <2>1. Len(s) \in Nat \ {0}
      BY <1>2, EmptySeq
    <2>2. PICK k \in 1..Len(s) : k = IF i <= Len(s) THEN i ELSE Len(s)
      BY <2>1
    <2>3. Removed(s, i) = RemoveAt(s, k)
      BY <1>2, <2>2 DEF Removed
    <2> QED BY <1>2, <2>2, <2>3, Removal
  <1> QED BY <1>1, <1>2

\* Moved keeps the length.
LEMMA MovedIs ==
  ASSUME NEW S, NEW s \in Seq(S), NEW from \in Nat \ {0}, NEW to \in Nat \ {0}
  PROVE  Moved(s, from, to) \in Seq(S) /\ Len(Moved(s, from, to)) = Len(s)
PROOF
  <1>1. CASE from > Len(s)
    BY <1>1 DEF Moved
  <1>2. CASE ~(from > Len(s))
    <2>1. from \in 1..Len(s) /\ s[from] \in S
      BY <1>2
    <2>2. PICK r : r = RemoveAt(s, from)
      OBVIOUS
    <2>3. r \in Seq(S) /\ Len(r) = Len(s) - 1
      BY <2>1, <2>2, Removal
    <2>4. Inserted(r, to, s[from]) \in Seq(S) /\ Len(Inserted(r, to, s[from])) = Len(r) + 1
      BY <2>1, <2>3, InsertedIs
    <2>5. Len(s) \in Nat
      OBVIOUS
    <2> QED BY <1>2, <2>2, <2>3, <2>4, <2>5 DEF Moved
  <1> QED BY <1>1, <1>2

\* An element added at the end is taken away again, and put back.
LEMMA AddTakenBack ==
  ASSUME NEW S, NEW s \in Seq(S), NEW e \in S
  PROVE  /\ Inserted(s, Len(s) + 1, e) = Append(s, e)
         /\ Removed(Append(s, e), Len(s) + 1) = s
PROOF
  <1>1. PICK a : a = Append(s, e)
    OBVIOUS
  <1>2. /\ a \in Seq(S) /\ Len(a) = Len(s) + 1 /\ a[Len(s) + 1] = e
        /\ \A j \in 1..Len(s) : a[j] = s[j]
    BY <1>1
  <1>3. Len(s) \in Nat /\ Len(s) + 1 \in Nat \ {0}
    OBVIOUS
  <1>4. PICK r : r = Inserted(s, Len(s) + 1, e)
    OBVIOUS
  <1>5. /\ r \in Seq(S) /\ Len(r) = Len(s) + 1
        /\ \A j \in 1..(Len(s) + 1) : r[j] = IF j < Len(s) + 1 THEN s[j] ELSE e
    <2>1. PICK k \in 1..(Len(s) + 1) : k = Len(s) + 1 /\ r = InsertAt(s, k, e)
      BY <1>3, <1>4, InsertedAt
    <2>2. /\ r \in Seq(S) /\ Len(r) = Len(s) + 1
          /\ \A j \in 1..(Len(s) + 1) :
               r[j] = IF j < k THEN s[j] ELSE IF j = k THEN e ELSE s[j - 1]
      <3>1. r \in Seq(S) /\ Len(r) = Len(s) + 1
        BY <2>1, Insertion
      <3>2. \A j \in 1..(Len(s) + 1) :
              r[j] = IF j < k THEN s[j] ELSE IF j = k THEN e ELSE s[j - 1]
        BY <2>1, InsertionElements
      <3> QED BY <3>1, <3>2
    <2> QED BY <1>3, <2>1, <2>2
  <1>6. r = a
    BY <1>2, <1>3, <1>5, SeqEqual
  <1>7. PICK b : b = Removed(a, Len(s) + 1)
    OBVIOUS
  <1>8. b \in Seq(S) /\ Len(b) = Len(s) /\ \A j \in 1..Len(s) : b[j] = s[j]
    <2>1. a # <<>>
      BY <1>2, <1>3
    <2>2. PICK k \in 1..Len(a) : k = Len(s) + 1 /\ b = RemoveAt(a, k)
      BY <1>2, <1>3, <1>7, <2>1, RemovedIs
    <2>3. /\ b \in Seq(S) /\ Len(b) = Len(a) - 1
          /\ \A j \in 1..(Len(a) - 1) : b[j] = IF j < k THEN a[j] ELSE a[j + 1]
      BY <1>2, <2>2, Removal
    <2> QED BY <1>2, <1>3, <2>2, <2>3
  <1>9. b = s
    BY <1>8, SeqEqual
  <1> QED BY <1>1, <1>4, <1>6, <1>7, <1>9

\* An element removed is put back where it was.
LEMMA RemovalTakenBack ==
  ASSUME NEW S, NEW s \in Seq(S), NEW i \in 1..Len(s)
  PROVE  /\ Removed(s, i) = RemoveAt(s, i)
         /\ Inserted(RemoveAt(s, i), i, s[i]) = s
PROOF
  <1>1. Len(s) \in Nat /\ i \in Nat \ {0} /\ s # <<>> /\ s[i] \in S
    BY EmptySeq
  <1>2. Removed(s, i) = RemoveAt(s, i)
    BY <1>1, RemovedIs
  <1>3. PICK r : r = RemoveAt(s, i)
    OBVIOUS
  <1>4. /\ r \in Seq(S) /\ Len(r) = Len(s) - 1
        /\ \A j \in 1..(Len(s) - 1) : r[j] = IF j < i THEN s[j] ELSE s[j + 1]
    BY <1>3, Removal
  <1>5. PICK k \in 1..(Len(r) + 1) : k = i /\ Inserted(r, i, s[i]) = InsertAt(r, k, s[i])
    <2>1. PICK e \in S : e = s[i]
      BY <1>1
    <2>2. PICK k \in 1..(Len(r) + 1) :
            k = (IF i <= Len(r) THEN i ELSE Len(r) + 1) /\ Inserted(r, i, e) = InsertAt(r, k, e)
      <3>1. i \in Nat \ {0} /\ r \in Seq(S)
        BY <1>1, <1>4
      <3> QED BY <3>1, InsertedAt
    <2>3. k = i
      BY <1>1, <1>4, <2>2
    <2> QED BY <2>1, <2>2, <2>3
  <1>6. PICK b : b = InsertAt(r, k, s[i])
    OBVIOUS
  <1>7. /\ b \in Seq(S) /\ Len(b) = Len(r) + 1
        /\ \A j \in 1..(Len(r) + 1) :
             b[j] = IF j < k THEN r[j] ELSE IF j = k THEN s[i] ELSE r[j - 1]
    <2>1. PICK e \in S : e = s[i]
      BY <1>1
    <2>2. b \in Seq(S) /\ Len(b) = Len(r) + 1
      BY <1>4, <1>5, <1>6, <2>1, Insertion
    <2>3. \A j \in 1..(Len(r) + 1) :
            b[j] = IF j < k THEN r[j] ELSE IF j = k THEN e ELSE r[j - 1]
      BY <1>4, <1>5, <1>6, <2>1, InsertionElements
    <2> QED BY <2>1, <2>2, <2>3
  <1>8. ASSUME NEW j \in 1..Len(s) PROVE b[j] = s[j]
    <2>1. CASE j < i
      <3>1. b[j] = r[j] /\ j \in 1..(Len(s) - 1)
        BY <1>1, <1>4, <1>5, <1>7, <2>1
      <3> QED BY <1>4, <2>1, <3>1
    <2>2. CASE j = i
      BY <1>1, <1>4, <1>5, <1>7, <2>2
    <2>3. CASE j > i
      <3>1. b[j] = r[j - 1]
        BY <1>1, <1>4, <1>5, <1>7, <2>3
      <3>2. j - 1 \in 1..(Len(s) - 1) /\ ~(j - 1 < i) /\ (j - 1) + 1 = j
        BY <1>1, <2>3
      <3> QED BY <1>4, <3>1, <3>2
    <2> QED BY <1>1, <2>1, <2>2, <2>3
  <1>9. Len(b) = Len(s)
    BY <1>1, <1>4, <1>7
  <1>10. b = s
    BY <1>7, <1>8, <1>9, SeqEqual
  <1> QED BY <1>2, <1>3, <1>5, <1>6, <1>10

\* Where each element comes from when one moves.
LEMMA MoveElements ==
  ASSUME NEW S, NEW s \in Seq(S), NEW from \in 1..Len(s), NEW to \in 1..Len(s),
         NEW j \in 1..Len(s)
  PROVE  Moved(s, from, to)[j] =
           IF j = to THEN s[from]
           ELSE IF j < to THEN (IF j < from THEN s[j] ELSE s[j + 1])
           ELSE (IF j - 1 < from THEN s[j - 1] ELSE s[j])
PROOF
  <1>1. Len(s) \in Nat /\ s[from] \in S /\ to \in Nat \ {0} /\ from \in Nat \ {0}
    OBVIOUS
  <1>2. PICK r : r = RemoveAt(s, from)
    OBVIOUS
  <1>3. /\ r \in Seq(S) /\ Len(r) = Len(s) - 1
        /\ \A k \in 1..(Len(s) - 1) : r[k] = IF k < from THEN s[k] ELSE s[k + 1]
    BY <1>2, Removal
  <1>4. PICK k \in 1..(Len(r) + 1) :
          /\ k = (IF to <= Len(r) THEN to ELSE Len(r) + 1)
          /\ Inserted(r, to, s[from]) = InsertAt(r, k, s[from])
    <2>1. PICK e \in S : e = s[from]
      BY <1>1
    <2>2. PICK k \in 1..(Len(r) + 1) :
            k = (IF to <= Len(r) THEN to ELSE Len(r) + 1) /\ Inserted(r, to, e) = InsertAt(r, k, e)
      <3>1. to \in Nat \ {0} /\ r \in Seq(S)
        BY <1>1, <1>3
      <3> QED BY <3>1, InsertedAt
    <2> QED BY <2>1, <2>2
  <1>5. k = to /\ Len(r) + 1 = Len(s)
    BY <1>1, <1>3, <1>4
  <1>6. Moved(s, from, to) = InsertAt(r, k, s[from])
    BY <1>1, <1>2, <1>4 DEF Moved
  <1>7. PICK b : b = InsertAt(r, k, s[from])
    OBVIOUS
  <1>8. \A m \in 1..(Len(r) + 1) :
             b[m] = IF m < k THEN r[m] ELSE IF m = k THEN s[from] ELSE r[m - 1]
    <2>1. PICK e \in S : e = s[from]
      BY <1>1
    <2>2. b = InsertAt(r, k, e)
      BY <1>7, <2>1
    <2>3. ASSUME NEW m \in 1..(Len(r) + 1)
          PROVE  b[m] = IF m < k THEN r[m] ELSE IF m = k THEN e ELSE r[m - 1]
      BY <1>3, <2>2, InsertionElements
    <2> QED BY <2>1, <2>3
  <1>9. CASE j = to
    <2>1. b[to] = s[from]
      BY <1>1, <1>5, <1>8
    <2> QED BY <1>6, <1>7, <1>9, <2>1
  <1>10. CASE j < to
    <2>1. b[j] = r[j] /\ j \in 1..(Len(s) - 1)
      BY <1>1, <1>5, <1>8, <1>10
    <2> QED BY <1>1, <1>3, <1>6, <1>7, <1>10, <2>1
  <1>11. CASE j > to
    <2>1. PICK m \in 1..(Len(s) - 1) : m = j - 1
      BY <1>1, <1>11
    <2>2. b[j] = r[m]
      BY <1>1, <1>5, <1>8, <1>11, <2>1
    <2>3. m + 1 = j
      BY <2>1
    <2>4. b[j] = IF j - 1 < from THEN s[j - 1] ELSE s[j]
      BY <1>3, <2>1, <2>2, <2>3
    <2> QED BY <1>1, <1>6, <1>7, <1>11, <2>4
  <1> QED BY <1>1, <1>9, <1>10, <1>11

\* A move is taken back by the opposite move.
LEMMA MoveTakenBack ==
  ASSUME NEW S, NEW s \in Seq(S), NEW from \in 1..Len(s), NEW to \in 1..Len(s)
  PROVE  Moved(Moved(s, from, to), to, from) = s
PROOF
  <1>1. Len(s) \in Nat /\ from \in Nat \ {0} /\ to \in Nat \ {0}
    OBVIOUS
  <1>2. PICK m : m = Moved(s, from, to)
    OBVIOUS
  <1>3. /\ m \in Seq(S) /\ Len(m) = Len(s)
        /\ \A j \in 1..Len(s) :
             m[j] = IF j = to THEN s[from]
                    ELSE IF j < to THEN (IF j < from THEN s[j] ELSE s[j + 1])
                    ELSE (IF j - 1 < from THEN s[j - 1] ELSE s[j])
    BY <1>1, <1>2, MovedIs, MoveElements
  <1>4. PICK b : b = Moved(m, to, from)
    OBVIOUS
  <1>5. /\ b \in Seq(S) /\ Len(b) = Len(s)
        /\ \A j \in 1..Len(s) :
             b[j] = IF j = from THEN m[to]
                    ELSE IF j < from THEN (IF j < to THEN m[j] ELSE m[j + 1])
                    ELSE (IF j - 1 < to THEN m[j - 1] ELSE m[j])
    BY <1>1, <1>3, <1>4, MovedIs, MoveElements
  <1>6. ASSUME NEW j \in 1..Len(s) PROVE b[j] = s[j]
    <2>1. CASE j = from
      BY <1>1, <1>3, <1>5, <2>1
    <2>2. CASE j < from /\ j < to
      BY <1>1, <1>3, <1>5, <2>2
    <2>3. CASE j < from /\ ~(j < to)
      <3>1. PICK k \in 1..Len(s) : k = j + 1
        BY <1>1, <2>3
      <3>2. b[j] = m[k]
        BY <1>1, <1>5, <2>3, <3>1
      <3>3. m[k] = s[k - 1]
        BY <1>1, <1>3, <2>3, <3>1
      <3>4. k - 1 = j
        BY <3>1
      <3> QED BY <3>2, <3>3, <3>4
    <2>4. CASE j > from /\ j - 1 < to
      <3>1. PICK k \in 1..Len(s) : k = j - 1
        BY <1>1, <2>4
      <3>2. b[j] = m[k]
        BY <1>1, <1>5, <2>4, <3>1
      <3>3. m[k] = s[k + 1]
        BY <1>1, <1>3, <2>4, <3>1
      <3>4. k + 1 = j
        BY <3>1
      <3> QED BY <3>2, <3>3, <3>4
    <2>5. CASE j > from /\ ~(j - 1 < to)
      BY <1>1, <1>3, <1>5, <2>5
    <2> QED BY <1>1, <2>1, <2>2, <2>3, <2>4, <2>5
  <1>7. b = s
    BY <1>3, <1>5, <1>6, SeqEqual
  <1> QED BY <1>2, <1>4, <1>7

-----------------------------------------------------------------------------
(* The rack's content *)

\* Content is a snapshot for each slot.
LEMMA CaptureIs ==
  ASSUME NEW s \in Seq(Slots)
  PROVE  /\ Capture(s) \in Seq(SlotSnapshots) /\ Len(Capture(s)) = Len(s)
         /\ \A i \in 1..Len(s) : Capture(s)[i] = Snapshot(s[i])
PROOF
  <1>1. Len(s) \in Nat /\ DOMAIN s = 1..Len(s) /\ \A i \in 1..Len(s) : s[i] \in Slots
    OBVIOUS
  <1>2. \A slot \in Slots : Snapshot(slot) \in SlotSnapshots
    BY DEF Slots, SlotSnapshots, Snapshot
  <1>3. PICK c : c = [i \in 1..Len(s) |-> Snapshot(s[i])]
    OBVIOUS
  <1>4. \A i \in 1..Len(s) : c[i] = Snapshot(s[i]) /\ c[i] \in SlotSnapshots
    BY <1>1, <1>2, <1>3
  <1>5. c \in Seq(SlotSnapshots) /\ Len(c) = Len(s)
    BY <1>1, <1>3, <1>4
  <1>6. c = Capture(s)
    BY <1>1, <1>3 DEF Capture
  <1> QED BY <1>4, <1>5, <1>6

\* Content does not know of caches and staged changes.
LEMMA SameContent ==
  ASSUME NEW s \in Seq(Slots), NEW t \in Seq(Slots), Len(s) = Len(t),
         \A i \in 1..Len(s) : Snapshot(s[i]) = Snapshot(t[i])
  PROVE  Capture(s) = Capture(t)
PROOF
  <1>1. PICK c, d \in Seq(SlotSnapshots) : c = Capture(s) /\ d = Capture(t)
    BY CaptureIs
  <1>2. Len(c) = Len(d) /\ \A i \in 1..Len(c) : c[i] = d[i]
    BY <1>1, CaptureIs
  <1> QED BY <1>1, <1>2, SeqEqual

\* The content of an edited rack is the edited content: a slot put in,
LEMMA CaptureInserted ==
  ASSUME NEW s \in Seq(Slots), NEW i \in Nat \ {0}, NEW x \in Slots
  PROVE  Capture(Inserted(s, i, x)) = Inserted(Capture(s), i, Snapshot(x))
PROOF
  <1>1. PICK c \in Seq(SlotSnapshots) : c = Capture(s)
    BY CaptureIs
  <1>2. PICK y \in SlotSnapshots : y = Snapshot(x)
    BY DEF Slots, SlotSnapshots, Snapshot
  <1>3. Len(c) = Len(s) /\ \A j \in 1..Len(s) : c[j] = Snapshot(s[j])
    BY <1>1, CaptureIs
  <1>4. PICK k \in 1..(Len(s) + 1) :
          k = (IF i <= Len(s) THEN i ELSE Len(s) + 1) /\ Inserted(s, i, x) = InsertAt(s, k, x)
    BY InsertedAt
  <1>5. PICK m \in 1..(Len(c) + 1) :
          m = (IF i <= Len(c) THEN i ELSE Len(c) + 1) /\ Inserted(c, i, y) = InsertAt(c, m, y)
    BY InsertedAt
  <1>6. m = k
    BY <1>3, <1>4, <1>5
  <1>7. PICK r \in Seq(Slots) : r = InsertAt(s, k, x) /\ Len(r) = Len(s) + 1
    BY <1>4, Insertion
  <1>8. PICK d \in Seq(SlotSnapshots) : d = InsertAt(c, k, y) /\ Len(d) = Len(c) + 1
    BY <1>5, <1>6, Insertion
  <1>9. PICK b \in Seq(SlotSnapshots) : b = Capture(r)
    BY CaptureIs
  <1>10. Len(b) = Len(r) /\ \A j \in 1..Len(r) : b[j] = Snapshot(r[j])
    BY <1>9, CaptureIs
  <1>11. ASSUME NEW j \in 1..(Len(s) + 1) PROVE b[j] = d[j]
    <2>1. r[j] = IF j < k THEN s[j] ELSE IF j = k THEN x ELSE s[j - 1]
      <3>1. InsertAt(s, k, x)[j] = IF j < k THEN s[j] ELSE IF j = k THEN x ELSE s[j - 1]
        BY InsertionElements
      <3> QED BY <1>7, <3>1
    <2>2. d[j] = IF j < k THEN c[j] ELSE IF j = k THEN y ELSE c[j - 1]
      <3>1. k \in 1..(Len(c) + 1) /\ j \in 1..(Len(c) + 1)
        BY <1>3
      <3>2. InsertAt(c, k, y)[j] = IF j < k THEN c[j] ELSE IF j = k THEN y ELSE c[j - 1]
        BY <3>1, InsertionElements
      <3> QED BY <1>8, <3>2
    <2>3. b[j] = Snapshot(r[j])
      BY <1>7, <1>10
    <2>4. CASE j < k
      <3>1. j \in 1..Len(s)
        BY <1>4, <2>4
      <3> QED BY <1>3, <2>1, <2>2, <2>3, <2>4, <3>1
    <2>5. CASE j = k
      BY <1>2, <2>1, <2>2, <2>3, <2>5
    <2>6. CASE j > k
      <3>1. j - 1 \in 1..Len(s)
        BY <1>4, <2>6
      <3>2. r[j] = s[j - 1] /\ d[j] = c[j - 1]
        BY <1>4, <2>1, <2>2, <2>6
      <3> QED BY <1>3, <2>3, <3>1, <3>2
    <2> QED BY <1>4, <2>4, <2>5, <2>6
  <1>12. b = d
    BY <1>3, <1>7, <1>8, <1>10, <1>11, SeqEqual
  <1> QED BY <1>1, <1>2, <1>4, <1>5, <1>6, <1>7, <1>8, <1>9, <1>12

\* one taken out,
LEMMA CaptureRemovedAt ==
  ASSUME NEW s \in Seq(Slots), NEW i \in 1..Len(s)
  PROVE  Capture(RemoveAt(s, i)) = RemoveAt(Capture(s), i)
PROOF
  <1>1. PICK c \in Seq(SlotSnapshots) : c = Capture(s)
    BY CaptureIs
  <1>2. Len(c) = Len(s) /\ \A j \in 1..Len(s) : c[j] = Snapshot(s[j])
    BY <1>1, CaptureIs
  <1>3. PICK r \in Seq(Slots) : r = RemoveAt(s, i) /\ Len(r) = Len(s) - 1
    BY Removal
  <1>4. PICK d \in Seq(SlotSnapshots) : d = RemoveAt(c, i) /\ Len(d) = Len(c) - 1
    BY <1>2, Removal
  <1>5. PICK b \in Seq(SlotSnapshots) : b = Capture(r)
    BY CaptureIs
  <1>6. Len(b) = Len(r) /\ \A j \in 1..Len(r) : b[j] = Snapshot(r[j])
    BY <1>5, CaptureIs
  <1>7. ASSUME NEW j \in 1..(Len(s) - 1) PROVE b[j] = d[j]
    <2>1. r[j] = IF j < i THEN s[j] ELSE s[j + 1]
      BY <1>3, RemovalElements
    <2>2. d[j] = IF j < i THEN c[j] ELSE c[j + 1]
      BY <1>2, <1>4, RemovalElements
    <2>3. b[j] = Snapshot(r[j])
      BY <1>3, <1>6
    <2>4. j \in 1..Len(s) /\ j + 1 \in 1..Len(s)
      OBVIOUS
    <2> QED BY <1>2, <2>1, <2>2, <2>3, <2>4
  <1>8. b = d
    BY <1>2, <1>3, <1>4, <1>6, <1>7, SeqEqual
  <1> QED BY <1>1, <1>3, <1>4, <1>5, <1>8

\* one taken out, beyond the end the last,
LEMMA CaptureRemoved ==
  ASSUME NEW s \in Seq(Slots), NEW i \in Nat \ {0}
  PROVE  Capture(Removed(s, i)) = Removed(Capture(s), i)
PROOF
  <1>1. PICK c \in Seq(SlotSnapshots) : c = Capture(s) /\ Len(c) = Len(s)
    BY CaptureIs
  <1>2. CASE s = <<>>
    <2>1. c = <<>>
      BY <1>1, <1>2, EmptySeq
    <2> QED BY <1>1, <1>2, <2>1, RemovedIs
  <1>3. CASE s # <<>>
    <2>1. c # <<>>
      BY <1>1, <1>3, EmptySeq
    <2>2. PICK k \in 1..Len(s) :
            k = (IF i <= Len(s) THEN i ELSE Len(s)) /\ Removed(s, i) = RemoveAt(s, k)
      BY <1>3, RemovedIs
    <2>3. PICK m \in 1..Len(c) :
            m = (IF i <= Len(c) THEN i ELSE Len(c)) /\ Removed(c, i) = RemoveAt(c, m)
      BY <2>1, RemovedIs
    <2>4. m = k
      BY <1>1, <2>2, <2>3
    <2>5. Capture(RemoveAt(s, k)) = RemoveAt(c, k)
      BY <1>1, CaptureRemovedAt
    <2> QED BY <1>1, <2>2, <2>3, <2>4, <2>5
  <1> QED BY <1>2, <1>3

\* and one moved.
LEMMA CaptureMoved ==
  ASSUME NEW s \in Seq(Slots), NEW from \in Nat \ {0}, NEW to \in Nat \ {0}
  PROVE  Capture(Moved(s, from, to)) = Moved(Capture(s), from, to)
PROOF
  <1>1. PICK c \in Seq(SlotSnapshots) : c = Capture(s) /\ Len(c) = Len(s)
    BY CaptureIs
  <1>2. CASE from > Len(s)
    BY <1>1, <1>2 DEF Moved
  <1>3. CASE ~(from > Len(s))
    <2>1. from \in 1..Len(s)
      BY <1>3
    <2>2. PICK x \in Slots : x = s[from]
      BY <2>1
    <2>3. c[from] = Snapshot(x)
      BY <1>1, <2>1, <2>2, CaptureIs
    <2>4. PICK r \in Seq(Slots) : r = RemoveAt(s, from)
      BY <2>1, Removal
    <2>5. Capture(r) = RemoveAt(c, from)
      BY <1>1, <2>1, <2>4, CaptureRemovedAt
    <2>6. Capture(Inserted(r, to, x)) = Inserted(Capture(r), to, Snapshot(x))
      BY CaptureInserted
    <2> QED BY <1>1, <1>3, <2>2, <2>3, <2>4, <2>5, <2>6 DEF Moved
  <1> QED BY <1>2, <1>3

-----------------------------------------------------------------------------
(* The entries *)

\* An entry as the host makes them, with what its kind needs.
Actions ==
  {e \in Entries :
     /\ e.kind \in {"add", "remove"} => e.plugin \in Plugins /\ e.slot \in Nat \ {0}
     /\ e.kind = "param" => e.old \in Values /\ e.new \in Values
     /\ e.kind = "move" => e.old \in Nat \ {0} /\ e.new \in Nat \ {0}
     /\ e.kind = "tempo" => e.old \in Tempos /\ e.new \in Tempos}

PutsIn(entry, is_redo)   == entry.kind = (IF is_redo THEN "add" ELSE "remove")
TakesOut(entry, is_redo) == entry.kind = (IF is_redo THEN "remove" ELSE "add")

\* EditApplied, kind by kind.
LEMMA EditCases ==
  ASSUME NEW e \in Actions, NEW is_redo \in BOOLEAN, NEW s, NEW x
  PROVE  /\ PutsIn(e, is_redo) => EditApplied(s, e, is_redo, x) = Inserted(s, e.slot, x)
         /\ TakesOut(e, is_redo) => EditApplied(s, e, is_redo, x) = Removed(s, e.slot)
         /\ e.kind = "move" /\ is_redo => EditApplied(s, e, is_redo, x) = Moved(s, e.old, e.new)
         /\ e.kind = "move" /\ ~is_redo => EditApplied(s, e, is_redo, x) = Moved(s, e.new, e.old)
         /\ e.kind \in {"param", "tempo"} => EditApplied(s, e, is_redo, x) = s
         /\ \/ PutsIn(e, is_redo) \/ TakesOut(e, is_redo)
            \/ e.kind = "move" \/ e.kind \in {"param", "tempo"}
PROOF
  <1>1. e.kind \in {"param", "add", "remove", "move", "tempo"}
    BY DEF Actions, Entries
  <1>2. CASE e.kind = "add"
    BY <1>2 DEF EditApplied, PutsIn, TakesOut
  <1>3. CASE e.kind = "remove"
    BY <1>3 DEF EditApplied, PutsIn, TakesOut
  <1>4. CASE e.kind = "move"
    BY <1>4 DEF EditApplied, PutsIn, TakesOut
  <1>5. CASE e.kind \in {"param", "tempo"}
    BY <1>5 DEF EditApplied, PutsIn, TakesOut
  <1> QED BY <1>1, <1>2, <1>3, <1>4, <1>5

\* An edited sequence is one of the same elements and the one put in.
LEMMA EditTyped ==
  ASSUME NEW S, NEW s \in Seq(S), NEW e \in Actions, NEW is_redo \in BOOLEAN, NEW x,
         PutsIn(e, is_redo) => x \in S
  PROVE  /\ EditApplied(s, e, is_redo, x) \in Seq(S)
         /\ Len(EditApplied(s, e, is_redo, x)) <= Len(s) + (IF PutsIn(e, is_redo) THEN 1 ELSE 0)
         /\ ~TakesOut(e, is_redo) => Len(EditApplied(s, e, is_redo, x)) >= Len(s)
PROOF
  <1>0. Len(s) \in Nat
    OBVIOUS
  <1>1. CASE PutsIn(e, is_redo)
    <2>1. e.slot \in Nat \ {0} /\ x \in S
      BY <1>1 DEF PutsIn, Actions
    <2>2. Inserted(s, e.slot, x) \in Seq(S) /\ Len(Inserted(s, e.slot, x)) = Len(s) + 1
      BY <2>1, InsertedIs
    <2>3. EditApplied(s, e, is_redo, x) = Inserted(s, e.slot, x)
      BY <1>1, EditCases
    <2> QED BY <1>0, <1>1, <2>2, <2>3
  <1>2. CASE TakesOut(e, is_redo)
    <2>1. e.slot \in Nat \ {0} /\ ~PutsIn(e, is_redo)
      BY <1>2 DEF TakesOut, PutsIn, Actions
    <2>2. PICK r : r = Removed(s, e.slot)
      OBVIOUS
    <2>3. r \in Seq(S) /\ (s = <<>> => r = <<>>) /\ (s # <<>> => Len(r) = Len(s) - 1)
      BY <2>1, <2>2, RemovedIs
    <2>4. Len(r) <= Len(s)
      BY <1>0, <2>3
    <2>5. EditApplied(s, e, is_redo, x) = r
      BY <1>2, <2>2, EditCases
    <2> QED BY <1>0, <1>2, <2>1, <2>3, <2>4, <2>5
  <1>3. CASE e.kind = "move"
    <2>1. e.old \in Nat \ {0} /\ e.new \in Nat \ {0} /\ ~PutsIn(e, is_redo)
      BY <1>3 DEF PutsIn, Actions
    <2>2. /\ Moved(s, e.old, e.new) \in Seq(S) /\ Len(Moved(s, e.old, e.new)) = Len(s)
          /\ Moved(s, e.new, e.old) \in Seq(S) /\ Len(Moved(s, e.new, e.old)) = Len(s)
      BY <2>1, MovedIs
    <2>3. EditApplied(s, e, is_redo, x) \in {Moved(s, e.old, e.new), Moved(s, e.new, e.old)}
      BY <1>3, EditCases
    <2> QED BY <1>0, <2>1, <2>2, <2>3
  <1>4. CASE e.kind \in {"param", "tempo"}
    <2>1. EditApplied(s, e, is_redo, x) = s /\ ~PutsIn(e, is_redo)
      BY <1>4, EditCases DEF PutsIn
    <2> QED BY <1>0, <2>1
  <1> QED BY <1>1, <1>2, <1>3, <1>4, EditCases

\* The content of the edited rack, for any entry.
LEMMA CaptureEdit ==
  ASSUME NEW s \in Seq(Slots), NEW e \in Actions, NEW is_redo \in BOOLEAN, NEW x,
         PutsIn(e, is_redo) => x \in Slots
  PROVE  Capture(EditApplied(s, e, is_redo, x)) = EditApplied(Capture(s), e, is_redo, Snapshot(x))
PROOF
  <1>1. CASE PutsIn(e, is_redo)
    <2>1. e.slot \in Nat \ {0} /\ x \in Slots
      BY <1>1 DEF PutsIn, Actions
    <2> QED BY <1>1, <2>1, CaptureInserted, EditCases
  <1>2. CASE TakesOut(e, is_redo)
    <2>1. e.slot \in Nat \ {0}
      BY <1>2 DEF TakesOut, Actions
    <2> QED BY <1>2, <2>1, CaptureRemoved, EditCases
  <1>3. CASE e.kind = "move"
    <2>1. e.old \in Nat \ {0} /\ e.new \in Nat \ {0}
      BY <1>3 DEF Actions
    <2> QED BY <1>3, <2>1, CaptureMoved, EditCases
  <1>4. CASE e.kind \in {"param", "tempo"}
    BY <1>4, EditCases
  <1> QED BY <1>1, <1>2, <1>3, <1>4, EditCases

\* From one content to the next by an entry, and back by the same.
Edge(before, entry, after) ==
  after = Applied(before, entry) /\ before = Reverted(after, entry)

\* Every kind of entry is an edge where it is made: what changes no content,
LEMMA StandingEdge ==
  ASSUME NEW e \in Actions, e.kind \in {"param", "tempo"}, NEW c
  PROVE  /\ Edge(c, e, c)
         /\ \A before, after : Edge(before, e, after) => before = after
BY EditCases DEF Edge, Applied, Reverted

\* an added plugin,
LEMMA AddedEdge ==
  ASSUME NEW c \in Seq(SlotSnapshots), NEW e \in Actions, e.kind = "add", e.slot = Len(c) + 1
  PROVE  Edge(c, e, Append(c, Snapshot(e)))
PROOF
  <1>1. PICK x \in SlotSnapshots : x = Snapshot(e)
    BY DEF Actions, Entries, SlotSnapshots, Snapshot
  <1>2. Applied(c, e) = Inserted(c, e.slot, x) /\ Reverted(Append(c, x), e) = Removed(Append(c, x), e.slot)
    BY <1>1, EditCases DEF Applied, Reverted, PutsIn, TakesOut
  <1> QED BY <1>1, <1>2, AddTakenBack DEF Edge

\* a removed one
LEMMA RemovedEdge ==
  ASSUME NEW c \in Seq(SlotSnapshots), NEW e \in Actions, e.kind = "remove",
         NEW i \in 1..Len(c), e.slot = i, Snapshot(e) = c[i]
  PROVE  Edge(c, e, RemoveAt(c, i))
PROOF
  <1>1. PICK d, x : d = RemoveAt(c, i) /\ x = Snapshot(e)
    OBVIOUS
  <1>2. Applied(c, e) = Removed(c, i)
    BY EditCases DEF Applied, TakesOut
  <1>3. Reverted(d, e) = Inserted(d, i, x)
    <2>1. EditApplied(d, e, FALSE, x) = Inserted(d, e.slot, x)
      BY DEF EditApplied
    <2> QED BY <1>1, <2>1 DEF Reverted
  <1>4. Removed(c, i) = d /\ Inserted(d, i, x) = c
    BY <1>1, RemovalTakenBack
  <1> QED BY <1>1, <1>2, <1>3, <1>4 DEF Edge

\* and a moved one.
LEMMA MovedEdge ==
  ASSUME NEW c \in Seq(SlotSnapshots), NEW e \in Actions, e.kind = "move",
         NEW from \in 1..Len(c), NEW to \in 1..Len(c), e.old = from, e.new = to
  PROVE  Edge(c, e, Moved(c, from, to))
PROOF
  <1>1. /\ Applied(c, e) = Moved(c, from, to)
        /\ Reverted(Moved(c, from, to), e) = Moved(Moved(c, from, to), to, from)
    BY EditCases DEF Applied, Reverted
  <1> QED BY <1>1, MoveTakenBack DEF Edge

\* An entry's age makes no difference.
LEMMA AgedEdge ==
  ASSUME NEW e \in Actions
  PROVE  /\ [e EXCEPT !.fresh = FALSE] \in Actions
         /\ \A before, after : Edge(before, [e EXCEPT !.fresh = FALSE], after) <=> Edge(before, e, after)
PROOF
  <1>1. PICK f : f = [e EXCEPT !.fresh = FALSE]
    OBVIOUS
  <1>2. /\ f \in Actions /\ f.kind = e.kind /\ f.slot = e.slot /\ f.old = e.old /\ f.new = e.new
        /\ Snapshot(f) = Snapshot(e)
    BY <1>1 DEF Actions, Entries, Snapshot
  <1>3. ASSUME NEW s, NEW x, NEW r \in BOOLEAN
        PROVE  EditApplied(s, f, r, x) = EditApplied(s, e, r, x)
    <2>1. CASE PutsIn(e, r)
      BY <1>2, <2>1, EditCases DEF PutsIn
    <2>2. CASE TakesOut(e, r)
      BY <1>2, <2>2, EditCases DEF TakesOut
    <2>3. CASE e.kind = "move"
      BY <1>2, <2>3, EditCases
    <2>4. CASE e.kind \in {"param", "tempo"}
      BY <1>2, <2>4, EditCases
    <2>5. PutsIn(e, r) \/ TakesOut(e, r) \/ e.kind = "move" \/ e.kind \in {"param", "tempo"}
      BY EditCases
    <2> QED BY <2>1, <2>2, <2>3, <2>4, <2>5
  <1>4. \A s : Applied(s, f) = Applied(s, e) /\ Reverted(s, f) = Reverted(s, e)
    BY <1>2, <1>3 DEF Applied, Reverted
  <1> QED BY <1>1, <1>2, <1>4 DEF Edge

-----------------------------------------------------------------------------
(* Sequences at their ends *)

\* A sequence that is not empty, without its last element,
LEMMA FrontIs ==
  ASSUME NEW S, NEW s \in Seq(S), s # <<>>
  PROVE  /\ Len(s) \in Nat \ {0} /\ Last(s) = s[Len(s)] /\ Last(s) \in S
         /\ Front(s) \in Seq(S) /\ Len(Front(s)) = Len(s) - 1
PROOF
  <1>1. Len(s) \in Nat \ {0}
    BY EmptySeq
  <1>2. PICK n \in Nat : n = Len(s) - 1
    BY <1>1
  <1>3. PICK f : f = SubSeq(s, 1, n)
    OBVIOUS
  <1>4. f \in Seq(S) /\ Len(f) = n
    BY <1>1, <1>2, <1>3
  <1>5. s[Len(s)] \in S
    BY <1>1
  <1> QED BY <1>1, <1>2, <1>3, <1>4, <1>5 DEF Front, Last

\* which keeps the others in place,
LEMMA FrontElements ==
  ASSUME NEW S, NEW s \in Seq(S), s # <<>>, NEW i \in 1..(Len(s) - 1)
  PROVE  Front(s)[i] = s[i]
BY EmptySeq DEF Front

\* and without its first.
LEMMA TailIs ==
  ASSUME NEW S, NEW s \in Seq(S), s # <<>>
  PROVE  /\ Head(s) = s[1] /\ Head(s) \in S
         /\ Tail(s) \in Seq(S) /\ Len(Tail(s)) = Len(s) - 1
         /\ \A i \in 1..(Len(s) - 1) : Tail(s)[i] = s[i + 1]
BY EmptySeq

-----------------------------------------------------------------------------
(* The entries the host makes *)

\* A change of a parameter,
LEMMA ParamEntry ==
  ASSUME NEW i \in Nat, NEW a \in Values, NEW b \in Values
  PROVE  SetParameter(i, a, b) \in Actions /\ SetParameter(i, a, b).kind = "param"
BY DEF SetParameter, NoEntry, Actions, Entries, Cached

\* of the tempo,
LEMMA TempoEntry ==
  ASSUME NEW a \in Tempos, NEW b \in Tempos
  PROVE  SetTempo(a, b) \in Actions /\ SetTempo(a, b).kind = "tempo"
BY DEF SetTempo, NoEntry, Actions, Entries, Cached

\* an added plugin, which comes with no state,
LEMMA AddEntry ==
  ASSUME NEW i \in Nat \ {0}, NEW p \in Plugins
  PROVE  /\ AddPlugin(i, p) \in Actions /\ AddPlugin(i, p).kind = "add" /\ AddPlugin(i, p).slot = i
         /\ Snapshot(AddPlugin(i, p)) = Snapshot(NewSlot(p)) /\ NewSlot(p) \in Slots
BY DEF AddPlugin, NoEntry, Actions, Entries, Cached, Snapshot, NewSlot, Restored, Slots

\* a moved one
LEMMA MoveEntry ==
  ASSUME NEW a \in Nat \ {0}, NEW b \in Nat \ {0}
  PROVE  /\ ReorderPlugin(a, b) \in Actions /\ ReorderPlugin(a, b).kind = "move"
         /\ ReorderPlugin(a, b).old = a /\ ReorderPlugin(a, b).new = b
BY DEF ReorderPlugin, NoEntry, Actions, Entries, Cached

\* and a removed one, of which the snapshot is kept.
LEMMA RemoveEntry ==
  ASSUME rack \in Seq(Slots), NEW i \in 1..Len(rack)
  PROVE  /\ RemovePlugin(i) \in Actions /\ RemovePlugin(i).kind = "remove" /\ RemovePlugin(i).slot = i
         /\ Snapshot(RemovePlugin(i)) = Snapshot(rack[i])
PROOF
  <1>1. PICK slot \in Slots : slot = rack[i]
    OBVIOUS
  <1>2. slot.plugin \in Plugins /\ slot.state \in BOOLEAN /\ slot.cache \in Cached
    BY DEF Slots
  <1>3. PICK p, st, c : p = slot.plugin /\ st = slot.state /\ c = slot.cache
    OBVIOUS
  <1>4. RemovePlugin(i) = [NoEntry EXCEPT !.kind = "remove", !.slot = i, !.plugin = p,
                                           !.state = st, !.cache = c]
    BY <1>1, <1>3 DEF RemovePlugin
  <1>5. PICK e : e = RemovePlugin(i)
    OBVIOUS
  <1>6. e = [kind |-> "remove", slot |-> i, plugin |-> p, state |-> st, cache |-> c,
             old |-> None, new |-> None, fresh |-> TRUE]
    BY <1>4, <1>5 DEF NoEntry
  <1>7. e \in Entries /\ e.kind = "remove" /\ e.slot = i /\ e.plugin = p /\ e.state = st
    BY <1>2, <1>3, <1>6 DEF Entries
  <1>8. e \in Actions
    BY <1>2, <1>3, <1>7 DEF Actions
  <1>9. Snapshot(e) = Snapshot(rack[i])
    BY <1>1, <1>3, <1>7 DEF Snapshot
  <1> QED BY <1>5, <1>7, <1>8, <1>9

\* A slot an entry puts back is one, with the entry's snapshot.
LEMMA PutBackIs ==
  ASSUME NEW e \in Actions
  PROVE  /\ Snapshot(PutBack(e)) = Snapshot(e)
         /\ e.kind \in {"add", "remove"} => PutBack(e) \in Slots /\ Snapshot(e) \in SlotSnapshots
PROOF
  <1>1. e.state \in BOOLEAN /\ e.cache \in Cached
        /\ (e.kind \in {"add", "remove"} => e.plugin \in Plugins)
    BY DEF Actions, Entries
  <1>2. PICK p, st, c : p = e.plugin /\ st = e.state /\ c = e.cache
    OBVIOUS
  <1>3. PutBack(e) = [plugin |-> p, state |-> st, cache |-> c, staged |-> None]
    BY <1>2 DEF PutBack, Restored, Snapshot
  <1> QED BY <1>1, <1>2, <1>3 DEF Snapshot, Slots, Cached, SlotSnapshots

-----------------------------------------------------------------------------
(* The types, and what a step does to the content and the history *)

ActiveSlots == [slot : 1..MaxRack, plugin : Plugins, value : Values, crashed : BOOLEAN]
Histories == [base : Seq(SlotSnapshots), tip : Seq(SlotSnapshots), loaded : BOOLEAN]

RackTyped == rack \in Seq(Slots) /\ Len(rack) <= MaxRack /\ selected \in 0..Len(rack)
ActiveTyped ==
  /\ active \in {NoActive} \cup ActiveSlots /\ tainted \subseteq Plugins
  /\ shown \in Cached /\ edit \in Cached
TempoTyped == tempo \in Tempos /\ prev_tempo \in Tempos
SessionTyped == session \in [rack : Seq(SlotSnapshots), tempo : Tempos] /\ Len(session.rack) <= MaxRack
StacksTyped == undo_stack \in Seq(Actions) /\ redo_stack \in Seq(Actions) /\ DepthBound
HistoryTyped == history \in Histories

HostTyped == RackTyped /\ ActiveTyped /\ TempoTyped
Typed == HostTyped /\ SessionTyped /\ StacksTyped /\ HistoryTyped

\* The kinds of steps there are for the history.
Kept == UNCHANGED <<stacks, history>> /\ Capture(rack') = Capture(rack)
Outdated == WindowEnds /\ UNCHANGED history /\ Capture(rack') = Capture(rack)
Recorded(entry) ==
  Record(entry, Capture(rack')) /\ Edge(Capture(rack), entry, Capture(rack'))
Undone ==
  /\ Undo /\ UNCHANGED history
  /\ Capture(rack') = Reverted(Capture(rack), Last(undo_stack))
Redone ==
  /\ Redo /\ UNCHANGED history
  /\ Capture(rack') = Applied(Capture(rack), Last(redo_stack))
Reloaded ==
  /\ UNCHANGED stacks /\ Capture(rack') = session.rack
  /\ history' = IF undo_stack = <<>> /\ redo_stack = <<>>
                THEN [history EXCEPT !.base = session.rack, !.tip = session.rack]
                ELSE [history EXCEPT !.loaded = TRUE]
HostStep ==
  Kept \/ Outdated \/ (\E e \in Actions : Recorded(e)) \/ Undone \/ Redone \/ Reloaded

\* A slot given other values keeps the content.
LEMMA SlotChanged ==
  ASSUME NEW s \in Seq(Slots), NEW i \in 1..Len(s), NEW x \in Slots,
         Snapshot(x) = Snapshot(s[i])
  PROVE  /\ [s EXCEPT ![i] = x] \in Seq(Slots) /\ Len([s EXCEPT ![i] = x]) = Len(s)
         /\ Capture([s EXCEPT ![i] = x]) = Capture(s)
PROOF
  <1>1. PICK t : t = [s EXCEPT ![i] = x]
    OBVIOUS
  <1>2. t \in Seq(Slots) /\ Len(t) = Len(s)
    BY <1>1
  <1>3. \A j \in 1..Len(s) : Snapshot(t[j]) = Snapshot(s[j])
    BY <1>1
  <1>4. Capture(t) = Capture(s)
    BY <1>2, <1>3, SameContent
  <1> QED BY <1>1, <1>2, <1>4

\* Its cached value,
LEMMA CacheSet ==
  ASSUME NEW s \in Seq(Slots), NEW i \in 1..Len(s), NEW v \in Cached
  PROVE  /\ [s EXCEPT ![i].cache = v] \in Seq(Slots) /\ Len([s EXCEPT ![i].cache = v]) = Len(s)
         /\ Capture([s EXCEPT ![i].cache = v]) = Capture(s)
PROOF
  <1>1. PICK slot \in Slots : slot = s[i]
    OBVIOUS
  <1>2. PICK x : x = [slot EXCEPT !.cache = v]
    OBVIOUS
  <1>3. x \in Slots /\ Snapshot(x) = Snapshot(slot)
    BY <1>2 DEF Slots, Snapshot
  <1>4. [s EXCEPT ![i].cache = v] = [s EXCEPT ![i] = x]
    BY <1>1, <1>2
  <1> QED BY <1>1, <1>3, <1>4, SlotChanged

ValuesPut(s, i, v, w) == [s EXCEPT ![i].staged = w, ![i].cache = v]

\* and the staged and cached values at once.
LEMMA ValuesSet ==
  ASSUME NEW s \in Seq(Slots), NEW i \in 1..Len(s), NEW v \in Cached, NEW w \in Cached
  PROVE  /\ ValuesPut(s, i, v, w) \in Seq(Slots) /\ Len(ValuesPut(s, i, v, w)) = Len(s)
         /\ Capture(ValuesPut(s, i, v, w)) = Capture(s)
PROOF
  <1>0. PICK r : r = ValuesPut(s, i, v, w)
    OBVIOUS
  <1>1. PICK slot \in Slots : slot = s[i]
    OBVIOUS
  <1>2. PICK y \in Slots : y = [slot EXCEPT !.staged = w] /\ Snapshot(y) = Snapshot(slot)
    <2>1. PICK y : y = [slot EXCEPT !.staged = w]
      OBVIOUS
    <2>2. y \in Slots /\ Snapshot(y) = Snapshot(slot)
      BY <2>1 DEF Slots, Snapshot
    <2> QED BY <2>1, <2>2
  <1>3. PICK t \in Seq(Slots) :
          t = [s EXCEPT ![i] = y] /\ Len(t) = Len(s) /\ Capture(t) = Capture(s)
    BY <1>1, <1>2, SlotChanged
  <1>4. r = [t EXCEPT ![i].cache = v]
    BY <1>0, <1>1, <1>2, <1>3 DEF ValuesPut
  <1>5. i \in 1..Len(t)
    BY <1>3
  <1>6. /\ [t EXCEPT ![i].cache = v] \in Seq(Slots) /\ Len([t EXCEPT ![i].cache = v]) = Len(t)
        /\ Capture([t EXCEPT ![i].cache = v]) = Capture(t)
    BY <1>5, CacheSet
  <1> QED BY <1>0, <1>3, <1>4, <1>6

\* The active plugin's record.
LEMMA ActiveIs ==
  ASSUME ActiveTyped
  PROVE  /\ active # NoActive =>
              /\ active \in ActiveSlots /\ active.slot \in 1..MaxRack
              /\ active.plugin \in Plugins /\ active.value \in Values
         /\ active = NoActive => active.slot = 0 /\ active.plugin = None
BY DEF ActiveTyped, ActiveSlots, NoActive

\* After deactivate_plugin there is none.
LEMMA Deactivated ==
  ASSUME ActiveTyped, deactivate_plugin
  PROVE  /\ active' \in {NoActive} \cup ActiveSlots /\ tainted' \subseteq Plugins
         /\ edit' \in Cached
BY ActiveIs DEF ActiveTyped, deactivate_plugin, Taintings, Cached

\* An active plugin keeps its type with another value, or crashed.
LEMMA ActiveSet ==
  ASSUME ActiveTyped, active # NoActive, NEW v \in Values
  PROVE  /\ [active EXCEPT !.value = v] \in ActiveSlots
         /\ [active EXCEPT !.crashed = TRUE] \in ActiveSlots
BY ActiveIs DEF ActiveSlots

\* The active plugin's slot is given a cached value, if it is in the rack.
LEMMA ActiveCached ==
  ASSUME RackTyped, NEW i, NEW v \in Cached,
         rack' = IF InRack(i) THEN [rack EXCEPT ![i].cache = v] ELSE rack
  PROVE  rack' \in Seq(Slots) /\ Len(rack') = Len(rack) /\ Capture(rack') = Capture(rack)
PROOF
  <1>1. CASE InRack(i)
    <2>1. rack \in Seq(Slots) /\ i \in 1..Len(rack)
      BY <1>1 DEF InRack, RackTyped
    <2>2. PICK s, r : s = rack /\ r = rack'
      OBVIOUS
    <2>3. r = [s EXCEPT ![i].cache = v]
      BY <1>1, <2>2
    <2>4. s \in Seq(Slots) /\ i \in 1..Len(s)
      BY <2>1, <2>2
    <2>5. /\ [s EXCEPT ![i].cache = v] \in Seq(Slots) /\ Len([s EXCEPT ![i].cache = v]) = Len(s)
          /\ Capture([s EXCEPT ![i].cache = v]) = Capture(s)
      BY <2>4, CacheSet
    <2> QED BY <2>2, <2>3, <2>5
  <1>2. CASE ~InRack(i)
    BY <1>2 DEF RackTyped
  <1> QED BY <1>1, <1>2

-----------------------------------------------------------------------------
(* The steps, one by one *)

\* refresh_params changes only what is cached and shown.
LEMMA RefreshStep ==
  ASSUME HostTyped, refresh_params
  PROVE  /\ rack' \in Seq(Slots) /\ Len(rack') = Len(rack) /\ Capture(rack') = Capture(rack)
         /\ shown' \in Cached
PROOF
  <1>1. CASE selected = 0
    BY <1>1 DEF HostTyped, RackTyped, refresh_params, Cached
  <1>2. CASE selected # 0 /\ active.slot = selected
    <2>1. active.value \in Cached
      BY <1>2, ActiveIs DEF HostTyped, Cached
    <2>2. /\ rack' = IF InRack(selected) THEN [rack EXCEPT ![selected].cache = active.value] ELSE rack
          /\ shown' = active.value
      BY <1>2 DEF refresh_params, Refreshed
    <2> QED BY <2>1, <2>2, ActiveCached DEF HostTyped
  <1>3. CASE selected # 0 /\ active.slot # selected
    <2>1. rack' = rack /\ shown' = IF InRack(selected) THEN rack[selected].cache ELSE None
      BY <1>3 DEF refresh_params
    <2>2. \A i \in DOMAIN rack : rack[i].cache \in Cached
      <3>1. \A i \in DOMAIN rack : rack[i] \in Slots
        BY DEF HostTyped, RackTyped
      <3>2. \A slot \in Slots : slot.cache \in Cached
        BY DEF Slots
      <3> QED BY <3>1, <3>2
    <2> QED BY <2>1, <2>2 DEF InRack, HostTyped, RackTyped, Cached
  <1> QED BY <1>1, <1>2, <1>3

\* A frame may record a new tempo.
LEMMA FrameStep ==
  ASSUME HostTyped, NextFrame
  PROVE  HostTyped' /\ HostStep
PROOF
  <1>1. /\ rack' \in Seq(Slots) /\ Len(rack') = Len(rack) /\ Capture(rack') = Capture(rack)
        /\ shown' \in Cached
    BY RefreshStep DEF NextFrame
  <1>2. RackTyped'
    BY <1>1 DEF HostTyped, RackTyped, NextFrame
  <1>3. ActiveTyped'
    <2>1. CASE active.crashed
      <3>1. deactivate_plugin
        BY <2>1 DEF NextFrame
      <3> QED BY <1>1, <3>1, Deactivated DEF HostTyped, ActiveTyped
    <2>2. CASE ~active.crashed
      <3>1. edit' = EditsLeft /\ UNCHANGED <<active, tainted>>
        BY <2>2 DEF NextFrame
      <3> QED BY <1>1, <3>1 DEF HostTyped, ActiveTyped, EditsLeft, Cached
    <2> QED BY <2>1, <2>2
  <1>4. TempoTyped'
    BY DEF NextFrame, sync_transport, HostTyped, TempoTyped
  <1>5. HostStep
    <2>1. PICK is_active : sync_transport(is_active)
      BY DEF NextFrame
    <2>2. CASE is_active /\ tempo # prev_tempo
      <3>1. PICK e \in Actions : e = SetTempo(prev_tempo, tempo) /\ e.kind = "tempo"
        BY TempoEntry DEF HostTyped, TempoTyped
      <3>2. Record(e, Capture(rack'))
        BY <1>1, <2>1, <2>2, <3>1 DEF sync_transport
      <3>3. Edge(Capture(rack), e, Capture(rack'))
        BY <1>1, <3>1, StandingEdge
      <3> QED BY <3>2, <3>3 DEF HostStep, Recorded
    <2>3. CASE ~(is_active /\ tempo # prev_tempo)
      BY <1>1, <2>1, <2>3 DEF sync_transport, HostStep, Kept
    <2> QED BY <2>2, <2>3
  <1> QED BY <1>2, <1>3, <1>4, <1>5 DEF HostTyped

\* A crash is no edit of the rack.
LEMMA CrashStep ==
  ASSUME HostTyped, PluginCrashes
  PROVE  HostTyped' /\ HostStep
PROOF
  <1>1. active' \in ActiveSlots
    BY ActiveSet, HostAppAssumption DEF HostTyped, PluginCrashes
  <1> QED BY <1>1 DEF HostTyped, RackTyped, ActiveTyped, TempoTyped, PluginCrashes, tempoVars,
                      HostStep, Kept, stacks

\* Nor is what the user does in the plugin's editor.
LEMMA EditStep ==
  ASSUME HostTyped, NEW v \in Edits, PluginEdits(v)
  PROVE  HostTyped' /\ HostStep
BY HostAppAssumption DEF HostTyped, RackTyped, ActiveTyped, TempoTyped, PluginEdits, tempoVars,
   HostStep, Kept, Cached, stacks

\* A plugin added to the rack is recorded with its place.
LEMMA AddStep ==
  ASSUME HostTyped, NEW p \in Plugins, add_to_rack(p)
  PROVE  HostTyped' /\ HostStep
PROOF
  <1>1. PICK x \in Slots : x = NewSlot(p)
    BY AddEntry
  <1>2. rack \in Seq(Slots) /\ Len(rack) \in Nat /\ Len(rack) < MaxRack /\ rack' = Append(rack, x)
    BY <1>1 DEF add_to_rack, HostTyped, RackTyped
  <1>3. PICK e \in Actions : /\ e = AddPlugin(Len(rack) + 1, p) /\ e.kind = "add"
                             /\ e.slot = Len(rack) + 1 /\ Snapshot(e) = Snapshot(x)
    BY <1>1, <1>2, AddEntry
  <1>4. PICK c \in Seq(SlotSnapshots) : c = Capture(rack) /\ Len(c) = Len(rack)
    BY <1>2, CaptureIs
  <1>5. Capture(rack') = Append(c, Snapshot(e))
    <2>1. Inserted(rack, Len(rack) + 1, x) = rack'
      BY <1>2, AddTakenBack
    <2>2. PICK y \in SlotSnapshots : y = Snapshot(x)
      BY DEF Slots, SlotSnapshots, Snapshot
    <2>3. Inserted(c, Len(c) + 1, y) = Append(c, y)
      BY AddTakenBack
    <2>4. Capture(Inserted(rack, Len(rack) + 1, x)) = Inserted(c, Len(rack) + 1, Snapshot(x))
      <3>1. Len(rack) + 1 \in Nat \ {0}
        BY <1>2
      <3> QED BY <1>2, <1>4, <3>1, CaptureInserted
    <2> QED BY <1>3, <1>4, <2>1, <2>2, <2>3, <2>4
  <1>6. Edge(c, e, Append(c, Snapshot(e)))
    BY <1>3, <1>4, AddedEdge
  <1>7. Record(e, Capture(rack'))
    BY <1>3 DEF add_to_rack
  <1>8. HostStep
    BY <1>4, <1>5, <1>6, <1>7 DEF HostStep, Recorded
  <1>9. rack' \in Seq(Slots) /\ Len(rack') = Len(rack) + 1
    BY <1>2
  <1>10. RackTyped'
    BY <1>2, <1>9, HostAppAssumption DEF HostTyped, RackTyped, add_to_rack
  <1> QED BY <1>8, <1>10 DEF HostTyped, ActiveTyped, TempoTyped, add_to_rack, tempoVars

\* What a removal does to the host.
LEMMA SlotRemovedStep ==
  ASSUME HostTyped, NEW i \in 1..Len(rack), SlotRemoved(i)
  PROVE  /\ RackTyped' /\ ActiveTyped'
         /\ rack' = RemoveAt(rack, i) /\ Capture(rack') = RemoveAt(Capture(rack), i)
PROOF
  <1>1. rack \in Seq(Slots) /\ Len(rack) \in Nat /\ rack' = RemoveAt(rack, i)
    BY DEF SlotRemoved, HostTyped, RackTyped
  <1>2. rack' \in Seq(Slots) /\ Len(rack') = Len(rack) - 1
    BY <1>1, Removal
  <1>3. selected' \in 0..Len(rack')
    <2>1. selected \in 0..Len(rack)
      BY DEF HostTyped, RackTyped
    <2>2. selected' = IF selected = i THEN 0 ELSE IF selected > i THEN selected - 1 ELSE selected
      BY DEF SlotRemoved
    <2> QED BY <1>1, <1>2, <2>1, <2>2
  <1>4. RackTyped'
    BY <1>1, <1>2, <1>3, HostAppAssumption DEF HostTyped, RackTyped
  <1>5. ActiveTyped'
    <2>1. shown' \in Cached
      BY DEF SlotRemoved, HostTyped, ActiveTyped, Cached
    <2>2. CASE active.slot = i
      <3>1. deactivate_plugin
        BY <2>2 DEF SlotRemoved
      <3> QED BY <2>1, <3>1, Deactivated DEF HostTyped, ActiveTyped
    <2>3. CASE active.slot # i
      BY <2>1, <2>3 DEF SlotRemoved, HostTyped, ActiveTyped
    <2> QED BY <2>2, <2>3
  <1>6. Capture(rack') = RemoveAt(Capture(rack), i)
    BY <1>1, CaptureRemovedAt
  <1> QED BY <1>1, <1>4, <1>5, <1>6

\* A removed slot is recorded with its snapshot.
LEMMA RemoveStep ==
  ASSUME HostTyped, NEW i \in DOMAIN rack, remove_from_rack(i)
  PROVE  HostTyped' /\ HostStep
PROOF
  <1>1. rack \in Seq(Slots) /\ i \in 1..Len(rack)
    BY DEF HostTyped, RackTyped
  <1>2. /\ RackTyped' /\ ActiveTyped' /\ Capture(rack') = RemoveAt(Capture(rack), i)
    BY <1>1, SlotRemovedStep DEF remove_from_rack
  <1>3. PICK c \in Seq(SlotSnapshots) : c = Capture(rack) /\ Len(c) = Len(rack)
    BY <1>1, CaptureIs
  <1>4. PICK e \in Actions : /\ e = RemovePlugin(i) /\ e.kind = "remove" /\ e.slot = i
                             /\ Snapshot(e) = Snapshot(rack[i])
    BY <1>1, RemoveEntry
  <1>5. Snapshot(e) = c[i]
    BY <1>1, <1>3, <1>4, CaptureIs
  <1>6. Edge(c, e, RemoveAt(c, i))
    BY <1>1, <1>3, <1>4, <1>5, RemovedEdge
  <1>7. Record(e, Capture(rack'))
    BY <1>4 DEF remove_from_rack
  <1>8. HostStep
    BY <1>2, <1>3, <1>6, <1>7 DEF HostStep, Recorded
  <1> QED BY <1>2, <1>8 DEF HostTyped, TempoTyped, remove_from_rack, tempoVars

\* A dragged slot is recorded with both places.
LEMMA ReorderStep ==
  ASSUME HostTyped, NEW from \in DOMAIN rack, NEW to \in DOMAIN rack, ReorderRack(from, to)
  PROVE  HostTyped' /\ HostStep
PROOF
  <1>1. /\ rack \in Seq(Slots) /\ from \in 1..Len(rack) /\ to \in 1..Len(rack)
        /\ from \in Nat \ {0} /\ to \in Nat \ {0}
    BY DEF HostTyped, RackTyped
  <1>2. PICK r : r = rack' /\ r = Moved(rack, from, to)
    BY DEF ReorderRack
  <1>3. r \in Seq(Slots) /\ Len(r) = Len(rack)
    BY <1>1, <1>2, MovedIs
  <1>4. RackTyped'
    BY <1>1, <1>2, <1>3 DEF HostTyped, RackTyped, ReorderRack
  <1>5. PICK c \in Seq(SlotSnapshots) : c = Capture(rack) /\ Len(c) = Len(rack)
    BY <1>1, CaptureIs
  <1>6. Capture(rack') = Moved(c, from, to)
    BY <1>1, <1>2, <1>5, CaptureMoved
  <1>7. PICK e \in Actions : /\ e = ReorderPlugin(from, to) /\ e.kind = "move"
                             /\ e.old = from /\ e.new = to
    BY <1>1, MoveEntry
  <1>8. Edge(c, e, Moved(c, from, to))
    BY <1>1, <1>5, <1>7, MovedEdge
  <1>9. Record(e, Capture(rack'))
    BY <1>7 DEF ReorderRack
  <1>10. HostStep
    BY <1>5, <1>6, <1>8, <1>9 DEF HostStep, Recorded
  <1> QED BY <1>4, <1>10 DEF HostTyped, ActiveTyped, TempoTyped, ReorderRack, tempoVars

\* Selecting a slot records nothing.
LEMMA SelectStep ==
  ASSUME HostTyped, NEW i \in {0} \cup DOMAIN rack, SelectSlot(i)
  PROVE  HostTyped' /\ HostStep
PROOF
  <1>1. i \in 0..Len(rack)
    BY DEF HostTyped, RackTyped
  <1>2. RackTyped' /\ ActiveTyped' /\ TempoTyped'
    BY <1>1 DEF HostTyped, RackTyped, ActiveTyped, TempoTyped, SelectSlot, tempoVars
  <1>3. HostStep
    BY DEF SelectSlot, HostStep, Kept, stacks
  <1> QED BY <1>2, <1>3 DEF HostTyped

\* Activating one changes only what is staged and cached in it.
LEMMA ActivateStep ==
  ASSUME HostTyped, NEW i \in DOMAIN rack, ActivateSlot(i)
  PROVE  HostTyped' /\ HostStep
PROOF
  <1>1. rack \in Seq(Slots) /\ i \in 1..Len(rack) /\ rack[i] \in Slots /\ Len(rack) \in Nat
    BY DEF HostTyped, RackTyped
  <1>2. UNCHANGED <<stacks, tempoVars, history>> /\ activate_slot(i)
    BY DEF ActivateSlot
  <1>3. CASE deactivate_plugin /\ UNCHANGED <<rack, selected, shown>>
    <2>1. RackTyped' /\ TempoTyped'
      BY <1>2, <1>3 DEF HostTyped, RackTyped, TempoTyped, tempoVars
    <2>2. ActiveTyped'
      BY <1>3, Deactivated DEF HostTyped, ActiveTyped
    <2>3. HostStep
      BY <1>2, <1>3 DEF HostStep, Kept
    <2> QED BY <2>1, <2>2, <2>3 DEF HostTyped
  <1>4. CASE ~(deactivate_plugin /\ UNCHANGED <<rack, selected, shown>>)
    <2>1. PICK p, v :
            /\ p = rack[i].plugin /\ v = (IF rack[i].staged = None THEN Default ELSE rack[i].staged)
            /\ tainted' \in Taintings /\ edit' = None
            /\ active' = [slot |-> i, plugin |-> p, value |-> v, crashed |-> FALSE]
            /\ rack' = [rack EXCEPT ![i].staged = None, ![i].cache = v]
            /\ selected' = i
            /\ shown' = v
      BY <1>2, <1>4 DEF activate_slot
    <2>2. p \in Plugins /\ v \in Values
      <3>1. PICK slot \in Slots : slot = rack[i]
        BY <1>1
      <3>2. slot.plugin \in Plugins /\ slot.staged \in Cached
        BY DEF Slots
      <3> QED BY <2>1, <3>1, <3>2, HostAppAssumption DEF Cached
    <2>3. v \in Cached /\ None \in Cached
      BY <2>2 DEF Cached
    <2>4. rack' \in Seq(Slots) /\ Len(rack') = Len(rack) /\ Capture(rack') = Capture(rack)
      <3>1. rack' = ValuesPut(rack, i, v, None)
        BY <2>1 DEF ValuesPut
      <3> QED BY <1>1, <2>3, <3>1, ValuesSet
    <2>5. i \in 1..MaxRack
      BY <1>1, HostAppAssumption DEF HostTyped, RackTyped
    <2>6. active' \in ActiveSlots
      BY <2>1, <2>2, <2>5 DEF ActiveSlots
    <2>7. tainted' \subseteq Plugins
      BY <2>1, ActiveIs DEF Taintings, HostTyped, ActiveTyped
    <2>8. ActiveTyped'
      BY <2>1, <2>3, <2>6, <2>7 DEF ActiveTyped
    <2>9. RackTyped'
      BY <1>1, <2>1, <2>4 DEF HostTyped, RackTyped
    <2>10. TempoTyped'
      BY <1>2 DEF HostTyped, TempoTyped, tempoVars
    <2>11. HostStep
      BY <1>2, <2>4 DEF HostStep, Kept
    <2> QED BY <2>8, <2>9, <2>10, <2>11 DEF HostTyped
  <1> QED BY <1>3, <1>4

\* Deactivating one caches the values shown.
LEMMA DeactivateStep ==
  ASSUME HostTyped, deactivate_active
  PROVE  HostTyped' /\ HostStep
PROOF
  <1>1. rack' \in Seq(Slots) /\ Len(rack') = Len(rack) /\ Capture(rack') = Capture(rack)
    BY ActiveCached DEF deactivate_active, HostTyped, ActiveTyped
  <1>2. deactivate_plugin /\ UNCHANGED <<stacks, selected, shown, tempoVars, history>>
    BY DEF deactivate_active
  <1>3. RackTyped' /\ TempoTyped'
    BY <1>1, <1>2 DEF HostTyped, RackTyped, TempoTyped, tempoVars
  <1>4. ActiveTyped'
    BY <1>2, Deactivated DEF HostTyped, ActiveTyped
  <1>5. HostStep
    BY <1>1, <1>2 DEF HostStep, Kept
  <1> QED BY <1>3, <1>4, <1>5 DEF HostTyped

\* A moved slider is recorded, and no edit of the content.
LEMMA ParameterStep ==
  ASSUME HostTyped, NEW v \in Values, ChangeParameter(v)
  PROVE  HostTyped' /\ HostStep
PROOF
  <1>1. /\ rack \in Seq(Slots) /\ selected \in 1..Len(rack) /\ selected \in Nat
        /\ shown \in Values /\ v \in Cached
    BY DEF ChangeParameter, HostTyped, RackTyped, ActiveTyped, Cached
  <1>2. UNCHANGED <<tainted, selected, shown, edit, tempoVars>>
    BY DEF ChangeParameter
  <1>3. PICK e \in Actions : e = SetParameter(selected, shown, v) /\ e.kind = "param"
    BY <1>1, ParamEntry
  <1>4. Record(e, Capture(rack))
    BY <1>3 DEF ChangeParameter
  <1>5. /\ rack' \in Seq(Slots) /\ Len(rack') = Len(rack) /\ Capture(rack') = Capture(rack)
        /\ active' \in {NoActive} \cup ActiveSlots
    <2>1. CASE active.slot = selected
      <3>1. active # NoActive /\ active' = [active EXCEPT !.value = v] /\ UNCHANGED rack
        BY <1>1, <2>1 DEF ChangeParameter, NoActive
      <3> QED BY <1>1, <3>1, ActiveSet DEF HostTyped
    <2>2. CASE active.slot # selected
      <3>1. /\ rack' = [rack EXCEPT ![selected].staged = v, ![selected].cache = v]
            /\ UNCHANGED active
        BY <2>2 DEF ChangeParameter
      <3>2. rack' = ValuesPut(rack, selected, v, v)
        BY <3>1 DEF ValuesPut
      <3>3. rack' \in Seq(Slots) /\ Len(rack') = Len(rack) /\ Capture(rack') = Capture(rack)
        BY <1>1, <3>2, ValuesSet
      <3>4. active' \in {NoActive} \cup ActiveSlots
        BY <3>1 DEF HostTyped, ActiveTyped
      <3> QED BY <3>3, <3>4
    <2> QED BY <2>1, <2>2
  <1>6. RackTyped' /\ ActiveTyped' /\ TempoTyped'
    BY <1>2, <1>5 DEF HostTyped, RackTyped, ActiveTyped, TempoTyped, tempoVars
  <1>7. Edge(Capture(rack), e, Capture(rack'))
    BY <1>3, <1>5, StandingEdge
  <1>8. HostStep
    BY <1>4, <1>5, <1>7 DEF HostStep, Recorded
  <1> QED BY <1>6, <1>8 DEF HostTyped

\* A preset is not recorded, and no edit of the content.
LEMMA PresetStep ==
  ASSUME HostTyped, NEW v \in Values, load_preset(v)
  PROVE  HostTyped' /\ HostStep
PROOF
  <1>1. v \in Cached
    BY DEF Cached
  <1>2. rack' \in Seq(Slots) /\ Len(rack') = Len(rack) /\ Capture(rack') = Capture(rack)
    BY <1>1, ActiveCached DEF load_preset, HostTyped
  <1>3. active' \in ActiveSlots
    BY ActiveSet DEF load_preset, HostTyped
  <1>4. RackTyped' /\ TempoTyped'
    BY <1>2 DEF HostTyped, RackTyped, TempoTyped, tempoVars, load_preset
  <1>5. ActiveTyped'
    BY <1>1, <1>3 DEF HostTyped, ActiveTyped, load_preset
  <1>6. HostStep
    BY <1>2 DEF HostStep, Kept, load_preset
  <1> QED BY <1>4, <1>5, <1>6 DEF HostTyped

\* A new tempo waits for the next frame.
LEMMA TempoStep ==
  ASSUME HostTyped, NEW v \in Tempos, ChangeTempo(v)
  PROVE  HostTyped' /\ HostStep
BY DEF HostTyped, RackTyped, ActiveTyped, TempoTyped, ChangeTempo, hostVars, HostStep, Kept, stacks

\* The window's end makes the entries older.
LEMMA WaitStep ==
  ASSUME HostTyped, Waits
  PROVE  HostTyped' /\ HostStep
BY DEF HostTyped, RackTyped, ActiveTyped, TempoTyped, Waits, hostVars, tempoVars, HostStep, Outdated

\* The session saved is the rack's content.
LEMMA SaveStep ==
  ASSUME HostTyped, SessionTyped, save_session
  PROVE  HostTyped' /\ SessionTyped' /\ HostStep
PROOF
  <1>1. Capture(rack) \in Seq(SlotSnapshots) /\ Len(Capture(rack)) = Len(rack)
    BY CaptureIs DEF HostTyped, RackTyped
  <1>2. SessionTyped'
    BY <1>1 DEF save_session, SessionTyped, HostTyped, RackTyped, TempoTyped
  <1>3. HostTyped'
    BY DEF HostTyped, RackTyped, ActiveTyped, TempoTyped, save_session, hostVars, tempoVars
  <1>4. HostStep
    BY DEF HostStep, Kept, save_session, hostVars
  <1> QED BY <1>2, <1>3, <1>4

\* The rack loaded has the session's content.
LEMMA LoadStep ==
  ASSUME HostTyped, SessionTyped, load_session
  PROVE  HostTyped' /\ SessionTyped' /\ HostStep
PROOF
  <1>1. PICK c : c = session.rack
    OBVIOUS
  <1>2. c \in Seq(SlotSnapshots) /\ Len(c) <= MaxRack /\ session.tempo \in Tempos
    BY <1>1 DEF SessionTyped
  <1>3. rack' = [i \in DOMAIN c |-> Restored(c[i])]
    BY <1>1 DEF load_session
  <1>4. PICK r : r = rack'
    OBVIOUS
  <1>5. \A i \in DOMAIN c : r[i] \in Slots /\ Snapshot(r[i]) = c[i]
    <2>1. ASSUME NEW x \in SlotSnapshots PROVE Restored(x) \in Slots /\ Snapshot(Restored(x)) = x
      BY DEF SlotSnapshots, Restored, Slots, Cached, Snapshot
    <2>2. \A i \in DOMAIN c : c[i] \in SlotSnapshots /\ r[i] = Restored(c[i])
      BY <1>2, <1>3, <1>4
    <2> QED BY <2>1, <2>2
  <1>6. r \in Seq(Slots) /\ Len(r) = Len(c)
    <2>1. DOMAIN c = 1..Len(c) /\ Len(c) \in Nat
      BY <1>2
    <2>2. r = [i \in 1..Len(c) |-> r[i]]
      BY <1>3, <1>4, <2>1
    <2> QED BY <1>5, <2>1, <2>2
  <1>7. Capture(r) = c
    <2>1. PICK d \in Seq(SlotSnapshots) : d = Capture(r)
      BY <1>6, CaptureIs
    <2>2. Len(d) = Len(r) /\ \A i \in 1..Len(r) : d[i] = Snapshot(r[i])
      BY <1>6, <2>1, CaptureIs
    <2>3. \A i \in 1..Len(d) : d[i] = c[i]
      BY <1>2, <1>5, <1>6, <2>2
    <2> QED BY <1>2, <1>6, <2>1, <2>2, <2>3, SeqEqual
  <1>8. selected' = 0 /\ shown' = None /\ tempo' = session.tempo /\ UNCHANGED <<stacks, session, prev_tempo>>
    BY DEF load_session
  <1>9. RackTyped'
    BY <1>2, <1>4, <1>6, <1>8 DEF RackTyped
  <1>10. ActiveTyped'
    <2>1. deactivate_plugin
      BY DEF load_session
    <2> QED BY <1>8, <2>1, Deactivated DEF HostTyped, ActiveTyped, Cached
  <1>11. TempoTyped' /\ SessionTyped'
    BY <1>2, <1>8 DEF HostTyped, TempoTyped, SessionTyped
  <1>12. Reloaded
    BY <1>1, <1>4, <1>7, <1>8 DEF load_session, Reloaded
  <1>13. HostStep
    BY <1>12 DEF HostStep
  <1> QED BY <1>9, <1>10, <1>11, <1>13 DEF HostTyped

\* Undo and redo do to the content what they do to the rack.
LEMMA EditedStep ==
  ASSUME HostTyped, NEW e \in Actions, NEW is_redo \in BOOLEAN,
         PutsIn(e, is_redo) => Len(rack) < MaxRack, apply_undo_action(e, is_redo)
  PROVE  /\ HostTyped'
         /\ Capture(rack') = EditApplied(Capture(rack), e, is_redo, Snapshot(e))
PROOF
  <1>1. rack \in Seq(Slots) /\ Len(rack) \in Nat /\ selected \in 0..Len(rack)
    BY DEF HostTyped, RackTyped
  <1>2. PICK t : t = IF is_redo THEN e.new ELSE e.old
    OBVIOUS
  <1>3. /\ tempo' = (IF e.kind = "tempo" THEN t ELSE tempo)
        /\ UNCHANGED prev_tempo
    BY <1>2 DEF apply_undo_action
  <1>4. (e.kind = "tempo" => t \in Tempos) /\ (e.kind = "param" => t \in Values)
    BY <1>2 DEF Actions
  <1>5. TempoTyped'
    BY <1>3, <1>4 DEF HostTyped, TempoTyped
  <1>6. CASE TakesOut(e, is_redo) /\ rack # <<>>
    <2>1. e.slot \in Nat \ {0}
      BY <1>6 DEF TakesOut, Actions
    <2>2. Len(rack) # 0
      BY <1>1, <1>6, EmptySeq
    <2>3. PICK i \in 1..Len(rack) : i = IF e.slot <= Len(rack) THEN e.slot ELSE Len(rack)
      BY <1>1, <2>1, <2>2
    <2>4. SlotRemoved(i)
      BY <1>6, <2>3 DEF apply_undo_action, TakesOut
    <2>5. RackTyped' /\ ActiveTyped' /\ Capture(rack') = RemoveAt(Capture(rack), i)
      BY <2>4, SlotRemovedStep
    <2>6. PICK c \in Seq(SlotSnapshots) : c = Capture(rack) /\ Len(c) = Len(rack)
      BY <1>1, CaptureIs
    <2>7. Removed(c, e.slot) = RemoveAt(c, i)
      <3>1. c # <<>>
        BY <2>2, <2>6, EmptySeq
      <3>2. PICK k \in 1..Len(c) :
              k = (IF e.slot <= Len(c) THEN e.slot ELSE Len(c)) /\ Removed(c, e.slot) = RemoveAt(c, k)
        BY <2>1, <3>1, RemovedIs
      <3>3. k = i
        BY <2>3, <2>6, <3>2
      <3> QED BY <3>2, <3>3
    <2>8. EditApplied(c, e, is_redo, Snapshot(e)) = Removed(c, e.slot)
      BY <1>6, EditCases
    <2> QED BY <1>5, <2>5, <2>6, <2>7, <2>8 DEF HostTyped
  <1>7. CASE ~(TakesOut(e, is_redo) /\ rack # <<>>)
    <2>1. PICK x : x = PutBack(e)
      OBVIOUS
    <2>2. /\ rack' = EditApplied(rack, e, is_redo, x)
          /\ active' = (IF e.kind = "param" /\ active # NoActive
                        THEN [active EXCEPT !.value = t] ELSE active)
          /\ UNCHANGED <<tainted, selected, shown, edit>>
      BY <1>2, <1>7, <2>1 DEF apply_undo_action, TakesOut
    <2>3. (PutsIn(e, is_redo) => x \in Slots) /\ Snapshot(x) = Snapshot(e)
      BY <2>1, PutBackIs DEF PutsIn
    <2>4. PICK r : r = EditApplied(rack, e, is_redo, x)
      OBVIOUS
    <2>5. /\ r \in Seq(Slots)
          /\ Len(r) <= Len(rack) + (IF PutsIn(e, is_redo) THEN 1 ELSE 0)
          /\ ~TakesOut(e, is_redo) => Len(r) >= Len(rack)
      BY <1>1, <2>3, <2>4, EditTyped
    <2>6. Len(r) <= MaxRack
      BY <1>1, <2>5, HostAppAssumption DEF HostTyped, RackTyped
    <2>7. selected \in 0..Len(r)
      <3>1. CASE TakesOut(e, is_redo)
        <4>1. Len(rack) = 0
          BY <1>7, <3>1
        <4> QED BY <1>1, <2>5, <4>1
      <3>2. CASE ~TakesOut(e, is_redo)
        BY <1>1, <2>5, <3>2
      <3> QED BY <3>1, <3>2
    <2>8. RackTyped'
      BY <2>2, <2>4, <2>5, <2>6, <2>7 DEF RackTyped
    <2>9. active' \in {NoActive} \cup ActiveSlots
      BY <1>4, <2>2, ActiveSet DEF HostTyped, ActiveTyped
    <2>10. ActiveTyped'
      BY <2>2, <2>9 DEF HostTyped, ActiveTyped
    <2>11. Capture(rack') = EditApplied(Capture(rack), e, is_redo, Snapshot(e))
      BY <1>1, <2>2, <2>3, CaptureEdit
    <2> QED BY <1>5, <2>8, <2>10, <2>11 DEF HostTyped
  <1> QED BY <1>6, <1>7

\* Undo takes the last entry back,
LEMMA UndoStep ==
  ASSUME HostTyped, StacksTyped, perform_undo
  PROVE  HostTyped' /\ HostStep
PROOF
  <1>1. undo_stack # <<>> /\ (Last(undo_stack).kind = "remove" => Len(rack) < MaxRack)
        /\ Undo /\ apply_undo_action(Last(undo_stack), FALSE) /\ UNCHANGED history
    BY DEF perform_undo, Undo
  <1>2. PICK e \in Actions : e = Last(undo_stack)
    BY <1>1, FrontIs DEF StacksTyped
  <1>3. PutsIn(e, FALSE) => Len(rack) < MaxRack
    BY <1>1, <1>2 DEF PutsIn
  <1>4. HostTyped' /\ Capture(rack') = EditApplied(Capture(rack), e, FALSE, Snapshot(e))
    BY <1>1, <1>2, <1>3, EditedStep
  <1>5. Undone
    BY <1>1, <1>2, <1>4 DEF Undone, Reverted
  <1> QED BY <1>4, <1>5 DEF HostStep

\* and redo applies it again.
LEMMA RedoStep ==
  ASSUME HostTyped, StacksTyped, perform_redo
  PROVE  HostTyped' /\ HostStep
PROOF
  <1>1. redo_stack # <<>> /\ (Last(redo_stack).kind = "add" => Len(rack) < MaxRack)
        /\ Redo /\ apply_undo_action(Last(redo_stack), TRUE) /\ UNCHANGED history
    BY DEF perform_redo, Redo
  <1>2. PICK e \in Actions : e = Last(redo_stack)
    BY <1>1, FrontIs DEF StacksTyped
  <1>3. PutsIn(e, TRUE) => Len(rack) < MaxRack
    BY <1>1, <1>2 DEF PutsIn
  <1>4. HostTyped' /\ Capture(rack') = EditApplied(Capture(rack), e, TRUE, Snapshot(e))
    BY <1>1, <1>2, <1>3, EditedStep
  <1>5. Redone
    BY <1>1, <1>2, <1>4 DEF Redone, Applied
  <1> QED BY <1>4, <1>5 DEF HostStep

\* Every step is of one of the kinds, and keeps the host's types.
LEMMA NextStep ==
  ASSUME HostTyped, SessionTyped, StacksTyped, Next
  PROVE  HostTyped' /\ SessionTyped' /\ HostStep
PROOF
  <1>1. CASE save_session
    BY <1>1, SaveStep
  <1>2. CASE load_session
    BY <1>2, LoadStep
  <1>3. ASSUME UNCHANGED session PROVE SessionTyped'
    BY <1>3 DEF SessionTyped
  <1>4. CASE RackInput /\ UNCHANGED session
    <2>1. CASE \E p \in Plugins : add_to_rack(p)
      BY <1>3, <1>4, <2>1, AddStep
    <2>2. CASE \E i \in DOMAIN rack : remove_from_rack(i) \/ SelectSlot(i) \/ ActivateSlot(i)
      BY <1>3, <1>4, <2>2, RemoveStep, SelectStep, ActivateStep
    <2>3. CASE SelectSlot(0)
      BY <1>3, <1>4, <2>3, SelectStep
    <2>4. CASE \E from, to \in DOMAIN rack : ReorderRack(from, to)
      BY <1>3, <1>4, <2>4, ReorderStep
    <2>5. CASE deactivate_active
      BY <1>3, <1>4, <2>5, DeactivateStep
    <2>6. CASE \E v \in Values : ChangeParameter(v) \/ load_preset(v)
      BY <1>3, <1>4, <2>6, ParameterStep, PresetStep
    <2>7. CASE \E v \in Tempos : ChangeTempo(v)
      BY <1>3, <1>4, <2>7, TempoStep
    <2> QED BY <1>4, <2>1, <2>2, <2>3, <2>4, <2>5, <2>6, <2>7 DEF RackInput
  <1>5. CASE UNCHANGED <<inputs, session>>
             /\ (NextFrame \/ PluginCrashes \/ Waits \/ perform_undo \/ perform_redo)
    BY <1>3, <1>5, FrameStep, CrashStep, WaitStep, UndoStep, RedoStep
  <1>6. CASE \E v \in Edits : UNCHANGED <<inputs, session>> /\ PluginEdits(v)
    BY <1>3, <1>6, EditStep
  <1> QED BY <1>1, <1>2, <1>4, <1>5, <1>6 DEF Next, SessionInput

-----------------------------------------------------------------------------
(* The stacks *)

\* The window's end changes no entry but its age.
LEMMA AgedIs ==
  ASSUME NEW s \in Seq(Actions)
  PROVE  /\ Aged(s) \in Seq(Actions) /\ Len(Aged(s)) = Len(s)
         /\ \A i \in 1..Len(s) : Aged(s)[i] = [s[i] EXCEPT !.fresh = FALSE]
PROOF
  <1>1. PICK a : a = Aged(s)
    OBVIOUS
  <1>2. DOMAIN s = 1..Len(s) /\ Len(s) \in Nat
    OBVIOUS
  <1>3. \A i \in 1..Len(s) : a[i] = [s[i] EXCEPT !.fresh = FALSE]
    BY <1>1, <1>2 DEF Aged
  <1>4. \A i \in 1..Len(s) : a[i] \in Actions
    <2>1. ASSUME NEW i \in 1..Len(s) PROVE a[i] \in Actions
      <3>1. PICK e \in Actions : e = s[i]
        OBVIOUS
      <3>2. [e EXCEPT !.fresh = FALSE] \in Actions
        BY AgedEdge
      <3> QED BY <1>3, <3>1, <3>2
    <2> QED BY <2>1
  <1>5. a = [i \in 1..Len(s) |-> a[i]]
    BY <1>1, <1>2 DEF Aged
  <1>6. a \in Seq(Actions) /\ Len(a) = Len(s)
    BY <1>2, <1>4, <1>5
  <1> QED BY <1>1, <1>3, <1>6

\* A change merged with the one before is one of the same slot.
LEMMA MergedIs ==
  ASSUME StacksTyped, NEW e \in Actions, Coalesces(e)
  PROVE  /\ [e EXCEPT !.old = Last(undo_stack).old] \in Actions
         /\ [e EXCEPT !.old = Last(undo_stack).old].kind = "param"
         /\ undo_stack # <<>> /\ e.kind = "param" /\ Last(undo_stack).kind = "param"
PROOF
  <1>1. undo_stack # <<>> /\ e.kind = "param" /\ Last(undo_stack).kind = "param"
    BY DEF Coalesces
  <1>2. PICK l \in Actions : l = Last(undo_stack)
    BY <1>1, FrontIs DEF StacksTyped
  <1>3. l.old \in Values
    BY <1>1, <1>2 DEF Actions
  <1>4. PICK v \in Values : v = l.old
    BY <1>3
  <1>5. [e EXCEPT !.old = v] \in Actions /\ [e EXCEPT !.old = v].kind = "param"
    BY <1>1 DEF Actions, Entries
  <1> QED BY <1>1, <1>2, <1>4, <1>5

\* A new entry keeps the stacks within the depth.
LEMMA PushTyped ==
  ASSUME StacksTyped, NEW e \in Actions, Push(e)
  PROVE  StacksTyped'
PROOF
  <1>1. undo_stack \in Seq(Actions) /\ Len(undo_stack) \in Nat /\ Len(redo_stack) \in Nat
        /\ Len(undo_stack) <= MaxDepth
    BY UndoStackAssumption DEF StacksTyped, DepthBound
  <1>2. redo_stack' = <<>> /\ Len(redo_stack') = 0 /\ redo_stack' \in Seq(Actions)
    BY DEF Push
  <1>3. CASE Coalesces(e)
    <2>1. PICK m \in Actions : m = [e EXCEPT !.old = Last(undo_stack).old]
      BY <1>3, MergedIs
    <2>2. PICK f \in Seq(Actions) : f = Front(undo_stack) /\ Len(f) = Len(undo_stack) - 1
      BY <1>1, <1>3, MergedIs, FrontIs
    <2>3. undo_stack' = Append(f, m)
      BY <1>3, <2>1, <2>2 DEF Push, Coalesced
    <2>4. undo_stack' \in Seq(Actions) /\ Len(undo_stack') = Len(f) + 1
      BY <2>3
    <2> QED BY <1>1, <1>2, <2>2, <2>4 DEF StacksTyped, DepthBound
  <1>4. CASE Evicts(e)
    <2>1. undo_stack # <<>> /\ Len(undo_stack) = MaxDepth /\ ~Coalesces(e)
      BY <1>1, <1>4, UndoStackAssumption DEF Evicts
    <2>2. PICK f \in Seq(Actions) : f = Tail(undo_stack) /\ Len(f) = Len(undo_stack) - 1
      BY <1>1, <2>1, TailIs
    <2>3. undo_stack' = Append(f, e)
      BY <1>4, <2>1, <2>2 DEF Push
    <2>4. undo_stack' \in Seq(Actions) /\ Len(undo_stack') = Len(f) + 1
      BY <2>3
    <2> QED BY <1>1, <1>2, <2>2, <2>4 DEF StacksTyped, DepthBound
  <1>5. CASE ~Coalesces(e) /\ ~Evicts(e)
    <2>1. undo_stack' = Append(undo_stack, e) /\ Len(undo_stack) # MaxDepth
      BY <1>5 DEF Push, Evicts
    <2>2. undo_stack' \in Seq(Actions) /\ Len(undo_stack') = Len(undo_stack) + 1
      BY <1>1, <2>1
    <2> QED BY <1>1, <1>2, <2>1, <2>2, UndoStackAssumption DEF StacksTyped, DepthBound
  <1> QED BY <1>3, <1>4, <1>5

\* Every kind of step does: undo and redo only move an entry over.
LEMMA StacksStep ==
  ASSUME StacksTyped, HostStep
  PROVE  StacksTyped'
PROOF
  <1>1. /\ undo_stack \in Seq(Actions) /\ redo_stack \in Seq(Actions)
        /\ Len(undo_stack) \in Nat /\ Len(redo_stack) \in Nat
        /\ Len(undo_stack) + Len(redo_stack) <= MaxDepth
    BY DEF StacksTyped, DepthBound
  <1>2. CASE UNCHANGED stacks
    BY <1>2 DEF StacksTyped, DepthBound, stacks
  <1>3. CASE WindowEnds
    BY <1>1, <1>3, AgedIs DEF WindowEnds, StacksTyped, DepthBound
  <1>4. CASE \E e \in Actions : Push(e)
    BY <1>4, PushTyped
  <1>5. CASE Undo
    <2>1. undo_stack # <<>>
      BY <1>5 DEF Undo
    <2>2. PICK f \in Seq(Actions), e \in Actions :
            f = Front(undo_stack) /\ e = Last(undo_stack) /\ Len(f) = Len(undo_stack) - 1
      BY <1>1, <2>1, FrontIs
    <2>3. undo_stack' = f /\ redo_stack' = Append(redo_stack, e)
      BY <1>5, <2>2 DEF Undo
    <2>4. redo_stack' \in Seq(Actions) /\ Len(redo_stack') = Len(redo_stack) + 1
      BY <1>1, <2>3
    <2> QED BY <1>1, <2>2, <2>3, <2>4, UndoStackAssumption DEF StacksTyped, DepthBound
  <1>6. CASE Redo
    <2>1. redo_stack # <<>>
      BY <1>6 DEF Redo
    <2>2. PICK f \in Seq(Actions), e \in Actions :
            f = Front(redo_stack) /\ e = Last(redo_stack) /\ Len(f) = Len(redo_stack) - 1
      BY <1>1, <2>1, FrontIs
    <2>3. redo_stack' = f /\ undo_stack' = Append(undo_stack, e)
      BY <1>6, <2>2 DEF Redo
    <2>4. undo_stack' \in Seq(Actions) /\ Len(undo_stack') = Len(undo_stack) + 1
      BY <1>1, <2>3
    <2> QED BY <1>1, <2>2, <2>3, <2>4, UndoStackAssumption DEF StacksTyped, DepthBound
  <1> QED BY <1>2, <1>3, <1>4, <1>5, <1>6
        DEF HostStep, Kept, Outdated, Recorded, Record, Undone, Redone, Reloaded

\* An entry applied to content gives content, and undone too.
LEMMA ContentTyped ==
  ASSUME NEW c \in Seq(SlotSnapshots), NEW e \in Actions
  PROVE  Applied(c, e) \in Seq(SlotSnapshots) /\ Reverted(c, e) \in Seq(SlotSnapshots)
PROOF
  <1>1. \A r \in BOOLEAN : PutsIn(e, r) => Snapshot(e) \in SlotSnapshots
    BY PutBackIs DEF PutsIn
  <1>2. EditApplied(c, e, TRUE, Snapshot(e)) \in Seq(SlotSnapshots)
    BY <1>1, EditTyped
  <1>3. EditApplied(c, e, FALSE, Snapshot(e)) \in Seq(SlotSnapshots)
    BY <1>1, EditTyped
  <1> QED BY <1>2, <1>3 DEF Applied, Reverted

\* What the history tells of the content is content.
LEMMA HistoryStep ==
  ASSUME Typed, HostTyped', HostStep
  PROVE  HistoryTyped'
PROOF
  <1>1. history \in Histories /\ session.rack \in Seq(SlotSnapshots)
    BY DEF Typed, HistoryTyped, SessionTyped
  <1>2. Capture(rack') \in Seq(SlotSnapshots)
    BY CaptureIs DEF HostTyped, RackTyped
  <1>3. CASE UNCHANGED history
    BY <1>3 DEF Typed, HistoryTyped
  <1>4. ASSUME NEW e \in Actions, Record(e, Capture(rack')) PROVE HistoryTyped'
    <2>1. PICK t, b : /\ t = Capture(rack')
                      /\ b = IF Evicts(e) THEN Applied(history.base, Head(undo_stack)) ELSE history.base
      OBVIOUS
    <2>2. history' = [history EXCEPT !.tip = t, !.base = b]
      BY <1>4, <2>1 DEF Record
    <2>3. history.base \in Seq(SlotSnapshots)
      BY <1>1 DEF Histories
    <2>4. b \in Seq(SlotSnapshots)
      <3>1. CASE Evicts(e)
        <4>1. undo_stack \in Seq(Actions) /\ undo_stack # <<>>
          BY <3>1, UndoStackAssumption DEF Evicts, Typed, StacksTyped
        <4>2. PICK h \in Actions : h = Head(undo_stack)
          BY <4>1, TailIs
        <4> QED BY <2>1, <2>3, <3>1, <4>2, ContentTyped
      <3>2. CASE ~Evicts(e)
        BY <2>1, <2>3, <3>2
      <3> QED BY <3>1, <3>2
    <2> QED BY <1>1, <1>2, <2>1, <2>2, <2>4 DEF HistoryTyped, Histories
  <1>5. CASE Reloaded
    <2>1. PICK c \in Seq(SlotSnapshots) : c = session.rack
      BY <1>1
    <2>2. history' = [history EXCEPT !.base = c, !.tip = c] \/ history' = [history EXCEPT !.loaded = TRUE]
      BY <1>5, <2>1 DEF Reloaded
    <2> QED BY <1>1, <2>2 DEF HistoryTyped, Histories
  <1> QED BY <1>3, <1>4, <1>5 DEF HostStep, Kept, Outdated, Recorded, Undone, Redone

-----------------------------------------------------------------------------
(* Type correctness *)

\* The types hold at the start.
LEMMA TypedInit == Init => Typed
PROOF
  <1> SUFFICES ASSUME Init PROVE Typed
    OBVIOUS
  <1>1. /\ undo_stack = <<>> /\ redo_stack = <<>> /\ rack = <<>> /\ active = NoActive /\ tainted = {}
        /\ selected = 0 /\ shown = None /\ edit = None /\ tempo \in Tempos /\ prev_tempo = tempo
        /\ history = [base |-> <<>>, tip |-> <<>>, loaded |-> FALSE]
    BY DEF Init
  <1>2. StacksTyped
    BY <1>1, UndoStackAssumption DEF StacksTyped, DepthBound
  <1>3. RackTyped
    BY <1>1, HostAppAssumption DEF RackTyped
  <1>4. ActiveTyped /\ TempoTyped
    BY <1>1 DEF ActiveTyped, TempoTyped, Cached
  <1>5. SessionTyped
    <2>1. PICK p \in Plugins :
            session = [rack |-> <<[plugin |-> p, state |-> TRUE]>>, tempo |-> tempo]
      BY DEF Init
    <2>2. PICK x \in SlotSnapshots : x = [plugin |-> p, state |-> TRUE]
      BY DEF SlotSnapshots
    <2>3. PICK r : r = <<x>>
      OBVIOUS
    <2>4. r \in Seq(SlotSnapshots) /\ Len(r) = 1
      BY <2>3
    <2>5. session = [rack |-> r, tempo |-> tempo]
      BY <2>1, <2>2, <2>3
    <2>6. session.rack = r /\ session \in [rack : Seq(SlotSnapshots), tempo : Tempos]
      BY <1>1, <2>4, <2>5
    <2>7. Len(session.rack) <= MaxRack
      <3>1. 1 <= MaxRack
        BY HostAppAssumption
      <3>2. Len(session.rack) = 1
        BY <2>4, <2>6, Zenon
      <3> QED BY <3>1, <3>2
    <2> QED BY <2>6, <2>7 DEF SessionTyped
  <1>6. HistoryTyped
    BY <1>1 DEF HistoryTyped, Histories
  <1> QED BY <1>2, <1>3, <1>4, <1>5, <1>6 DEF Typed, HostTyped

\* Every step keeps them, and is of one of the kinds.
LEMMA TypedStep == Typed /\ [Next]_vars => Typed' /\ (HostStep \/ UNCHANGED vars)
PROOF
  <1> SUFFICES ASSUME Typed, [Next]_vars PROVE Typed' /\ (HostStep \/ UNCHANGED vars)
    OBVIOUS
  <1>1. CASE Next
    <2>1. HostTyped' /\ SessionTyped' /\ HostStep
      BY <1>1, NextStep DEF Typed
    <2>2. StacksTyped'
      BY <2>1, StacksStep DEF Typed
    <2>3. HistoryTyped'
      BY <2>1, HistoryStep
    <2> QED BY <2>1, <2>2, <2>3 DEF Typed
  <1>2. CASE UNCHANGED vars
    BY <1>2 DEF vars, stacks, hostVars, tempoVars, Typed, HostTyped, RackTyped, ActiveTyped, TempoTyped,
       SessionTyped, StacksTyped, DepthBound, HistoryTyped
  <1> QED BY <1>1, <1>2

\* They are more than TypeOK asks.
LEMMA TypedTypeOK == Typed => TypeOK
PROOF
  <1> SUFFICES ASSUME Typed PROVE TypeOK
    OBVIOUS
  <1>1. undo_stack \in Seq(Entries) /\ redo_stack \in Seq(Entries)
    BY DEF Typed, StacksTyped, Actions
  <1> QED BY <1>1 DEF Typed, HostTyped, RackTyped, ActiveTyped, ActiveSlots, TempoTyped, SessionTyped,
         StacksTyped, TypeOK

\* The rack, the active plugin, the stacks within their depth (DepthBound) and the
\* session always are what the code's types and bounds say.
THEOREM TypeCorrect == Spec => []TypeOK
PROOF
  <1>1. Spec => []Typed
    BY TypedInit, TypedStep, PTL DEF Spec
  <1> QED BY <1>1, TypedTypeOK, PTL

-----------------------------------------------------------------------------
(* The chain of contents the entries lead through *)

\* From base over content to tip: the undo stack leads to the content, the redo
\* stack, the last entry first, further to the tip.
Chained(x, u, r, base, content, tip) ==
  /\ x[0] = base /\ x[Len(u)] = content /\ x[Len(u) + Len(r)] = tip
  /\ \A i \in 1..Len(u) : Edge(x[i - 1], u[i], x[i])
  /\ \A j \in 1..Len(r) : Edge(x[Len(u) + Len(r) - j], r[j], x[Len(u) + Len(r) - j + 1])

\* A new action ends the chain after it.
LEMMA ChainPush ==
  ASSUME NEW u \in Seq(Actions), NEW r \in Seq(Actions), NEW x, NEW base, NEW c, NEW tip,
         Chained(x, u, r, base, c, tip), NEW e \in Actions, NEW c2, Edge(c, e, c2)
  PROVE  \E y : Chained(y, Append(u, e), <<>>, base, c2, c2)
PROOF
  <1>1. PICK v : v = Append(u, e)
    OBVIOUS
  <1>2. Len(u) \in Nat /\ Len(v) = Len(u) + 1 /\ v[Len(u) + 1] = e /\ \A i \in 1..Len(u) : v[i] = u[i]
    BY <1>1
  <1>3. PICK y : y = [i \in Nat |-> IF i <= Len(u) THEN x[i] ELSE c2]
    OBVIOUS
  <1>4. y[0] = base /\ y[Len(u)] = c /\ y[Len(v)] = c2
    BY <1>2, <1>3 DEF Chained
  <1>5. ASSUME NEW i \in 1..Len(v) PROVE Edge(y[i - 1], v[i], y[i])
    <2>1. CASE i = Len(v)
      <3>1. i - 1 = Len(u)
        BY <1>2, <2>1
      <3> QED BY <1>2, <1>4, <2>1, <3>1
    <2>2. CASE i # Len(v)
      <3>1. i \in 1..Len(u) /\ y[i - 1] = x[i - 1] /\ y[i] = x[i]
        BY <1>2, <1>3, <2>2
      <3> QED BY <1>2, <3>1 DEF Chained
    <2> QED BY <2>1, <2>2
  <1>6. Len(<<>>) = 0 /\ Len(v) + Len(<<>>) = Len(v)
    BY <1>2
  <1>7. Chained(y, v, <<>>, base, c2, c2)
    BY <1>4, <1>5, <1>6 DEF Chained
  <1> QED BY <1>1, <1>7

\* Without the redo stack the chain ends at the content.
LEMMA ChainCut ==
  ASSUME NEW u \in Seq(Actions), NEW r \in Seq(Actions), NEW x, NEW base, NEW c, NEW tip,
         Chained(x, u, r, base, c, tip)
  PROVE  Chained(x, u, <<>>, base, c, c)
PROOF
  <1>1. Len(u) \in Nat /\ Len(<<>>) = 0 /\ Len(u) + Len(<<>>) = Len(u)
    OBVIOUS
  <1> QED BY <1>1 DEF Chained

\* A merged change stands for the one before it: neither is an edit of the rack.
LEMMA ChainMerge ==
  ASSUME NEW u \in Seq(Actions), u # <<>>, NEW r \in Seq(Actions), NEW x, NEW base, NEW c, NEW tip,
         Chained(x, u, r, base, c, tip), Last(u).kind = "param",
         NEW m \in Actions, m.kind = "param"
  PROVE  Chained(x, Append(Front(u), m), <<>>, base, c, c)
PROOF
  <1>1. PICK f \in Seq(Actions), l \in Actions :
          f = Front(u) /\ l = Last(u) /\ l = u[Len(u)] /\ Len(f) = Len(u) - 1 /\ Len(u) \in Nat \ {0}
    BY FrontIs
  <1>2. \A i \in 1..(Len(u) - 1) : f[i] = u[i]
    BY <1>1, FrontElements
  <1>3. PICK v : v = Append(f, m)
    OBVIOUS
  <1>4. Len(v) = Len(u) /\ v[Len(u)] = m /\ \A i \in 1..(Len(u) - 1) : v[i] = u[i]
    <2>1. Len(v) = Len(f) + 1 /\ v[Len(f) + 1] = m /\ \A i \in 1..Len(f) : v[i] = f[i]
      BY <1>3
    <2>2. Len(f) + 1 = Len(u)
      BY <1>1
    <2> QED BY <1>1, <1>2, <2>1, <2>2
  <1>5. ASSUME NEW i \in 1..Len(u) PROVE Edge(x[i - 1], v[i], x[i])
    <2>1. CASE i = Len(u)
      <3>1. Edge(x[i - 1], l, x[i])
        BY <1>1, <2>1 DEF Chained
      <3>2. x[i - 1] = x[i]
        BY <1>1, <3>1, StandingEdge
      <3>3. Edge(x[i], m, x[i])
        BY StandingEdge
      <3> QED BY <1>4, <2>1, <3>2, <3>3
    <2>2. CASE i # Len(u)
      <3>1. v[i] = u[i]
        BY <1>1, <1>4, <2>2
      <3> QED BY <3>1 DEF Chained
    <2> QED BY <2>1, <2>2
  <1>6. Len(<<>>) = 0 /\ Len(v) + Len(<<>>) = Len(v)
    BY <1>1, <1>4
  <1>7. Chained(x, v, <<>>, base, c, c)
    BY <1>4, <1>5, <1>6 DEF Chained
  <1> QED BY <1>1, <1>3, <1>7

\* Without its oldest entry the chain begins after it.
LEMMA ChainEvict ==
  ASSUME NEW u \in Seq(Actions), u # <<>>, NEW x, NEW base, NEW c, NEW tip,
         Chained(x, u, <<>>, base, c, tip)
  PROVE  \E y : Chained(y, Tail(u), <<>>, Applied(base, Head(u)), c, tip)
PROOF
  <1>1. PICK t \in Seq(Actions), h \in Actions :
          t = Tail(u) /\ h = Head(u) /\ h = u[1] /\ Len(t) = Len(u) - 1
    BY TailIs
  <1>2. \A i \in 1..(Len(u) - 1) : t[i] = u[i + 1]
    BY <1>1, TailIs
  <1>3. Len(u) \in Nat \ {0} /\ Len(<<>>) = 0 /\ Len(u) + 0 = Len(u) /\ Len(t) + 0 = Len(t)
    BY <1>1, EmptySeq
  <1>4. PICK y : y = [i \in Nat |-> x[i + 1]]
    OBVIOUS
  <1>5. y[0] = Applied(base, h)
    <2>1. 1 \in 1..Len(u) /\ 1 - 1 = 0
      BY <1>3
    <2>2. Edge(x[0], u[1], x[1])
      BY <2>1 DEF Chained
    <2>3. y[0] = x[1]
      BY <1>4
    <2> QED BY <1>1, <2>2, <2>3 DEF Edge, Chained
  <1>6. y[Len(t)] = x[Len(u)]
    BY <1>1, <1>3, <1>4
  <1>7. ASSUME NEW i \in 1..Len(t) PROVE Edge(y[i - 1], t[i], y[i])
    <2>1. i + 1 \in 1..Len(u) /\ t[i] = u[i + 1]
      BY <1>1, <1>2, <1>3
    <2>2. y[i - 1] = x[(i + 1) - 1] /\ y[i] = x[i + 1]
      <3>1. i - 1 \in Nat /\ i \in Nat /\ (i - 1) + 1 = (i + 1) - 1
        BY <1>3
      <3> QED BY <1>4, <3>1
    <2>3. Edge(x[(i + 1) - 1], u[i + 1], x[i + 1])
      BY <2>1 DEF Chained
    <2> QED BY <2>1, <2>2, <2>3
  <1>8. Chained(y, t, <<>>, Applied(base, h), c, tip)
    BY <1>3, <1>5, <1>6, <1>7 DEF Chained
  <1> QED BY <1>1, <1>8

\* The window's end moves nothing.
LEMMA ChainAged ==
  ASSUME NEW u \in Seq(Actions), NEW r \in Seq(Actions), NEW x, NEW base, NEW c, NEW tip,
         Chained(x, u, r, base, c, tip)
  PROVE  Chained(x, Aged(u), Aged(r), base, c, tip)
PROOF
  <1>1. PICK v, w \in Seq(Actions) : v = Aged(u) /\ w = Aged(r) /\ Len(v) = Len(u) /\ Len(w) = Len(r)
    BY AgedIs
  <1>2. ASSUME NEW i \in 1..Len(u), NEW a, NEW b, Edge(a, u[i], b) PROVE Edge(a, v[i], b)
    <2>1. PICK e \in Actions : e = u[i]
      OBVIOUS
    <2>2. v[i] = [e EXCEPT !.fresh = FALSE]
      BY <1>1, <2>1, AgedIs
    <2>3. Edge(a, [e EXCEPT !.fresh = FALSE], b)
      BY <1>2, <2>1, AgedEdge
    <2> QED BY <2>2, <2>3
  <1>3. ASSUME NEW i \in 1..Len(r), NEW a, NEW b, Edge(a, r[i], b) PROVE Edge(a, w[i], b)
    <2>1. PICK e \in Actions : e = r[i]
      OBVIOUS
    <2>2. w[i] = [e EXCEPT !.fresh = FALSE]
      BY <1>1, <2>1, AgedIs
    <2>3. Edge(a, [e EXCEPT !.fresh = FALSE], b)
      BY <1>3, <2>1, AgedEdge
    <2> QED BY <2>2, <2>3
  <1>4. \A i \in 1..Len(v) : Edge(x[i - 1], v[i], x[i])
    BY <1>1, <1>2 DEF Chained
  <1>5. \A j \in 1..Len(w) : Edge(x[Len(v) + Len(w) - j], w[j], x[Len(v) + Len(w) - j + 1])
    BY <1>1, <1>3 DEF Chained
  <1>6. Chained(x, v, w, base, c, tip)
    BY <1>1, <1>4, <1>5 DEF Chained
  <1> QED BY <1>1, <1>6

\* Undo goes one step back on the same chain,
LEMMA ChainUndo ==
  ASSUME NEW u \in Seq(Actions), u # <<>>, NEW r \in Seq(Actions), NEW x, NEW base, NEW c, NEW tip,
         Chained(x, u, r, base, c, tip)
  PROVE  Chained(x, Front(u), Append(r, Last(u)), base, Reverted(c, Last(u)), tip)
PROOF
  <1>1. PICK f \in Seq(Actions), l \in Actions :
          f = Front(u) /\ l = Last(u) /\ l = u[Len(u)] /\ Len(f) = Len(u) - 1 /\ Len(u) \in Nat \ {0}
    BY FrontIs
  <1>2. \A i \in 1..(Len(u) - 1) : f[i] = u[i]
    BY <1>1, FrontElements
  <1>3. PICK w : w = Append(r, l)
    OBVIOUS
  <1>4. Len(r) \in Nat /\ Len(w) = Len(r) + 1 /\ w[Len(r) + 1] = l /\ \A j \in 1..Len(r) : w[j] = r[j]
    BY <1>3
  <1>5. Len(f) + Len(w) = Len(u) + Len(r)
    BY <1>1, <1>4
  <1>6. Edge(x[Len(u) - 1], l, x[Len(u)])
    BY <1>1 DEF Chained
  <1>7. x[Len(f)] = Reverted(c, l)
    BY <1>1, <1>6 DEF Edge, Chained
  <1>8. \A i \in 1..Len(f) : Edge(x[i - 1], f[i], x[i])
    BY <1>1, <1>2 DEF Chained
  <1>9. ASSUME NEW j \in 1..Len(w)
        PROVE  Edge(x[Len(u) + Len(r) - j], w[j], x[Len(u) + Len(r) - j + 1])
    <2>1. CASE j = Len(w)
      <3>1. Len(u) + Len(r) - j = Len(u) - 1 /\ Len(u) + Len(r) - j + 1 = Len(u)
        BY <1>1, <1>4, <2>1
      <3> QED BY <1>4, <1>6, <2>1, <3>1
    <2>2. CASE j # Len(w)
      <3>1. j \in 1..Len(r) /\ w[j] = r[j]
        BY <1>4, <2>2
      <3> QED BY <3>1 DEF Chained
    <2> QED BY <2>1, <2>2
  <1>10. Chained(x, f, w, base, Reverted(c, l), tip)
    <2>1. ASSUME NEW j \in 1..Len(w)
          PROVE  Edge(x[Len(f) + Len(w) - j], w[j], x[Len(f) + Len(w) - j + 1])
      <3>1. Len(f) + Len(w) - j = Len(u) + Len(r) - j
        BY <1>5
      <3>2. Edge(x[Len(u) + Len(r) - j], w[j], x[Len(u) + Len(r) - j + 1])
        BY <1>9
      <3> QED BY <3>1, <3>2
    <2>2. x[0] = base /\ x[Len(f) + Len(w)] = tip
      BY <1>5 DEF Chained
    <2> QED BY <1>7, <1>8, <2>1, <2>2 DEF Chained
  <1> QED BY <1>1, <1>3, <1>10

\* and redo one step forth.
LEMMA ChainRedo ==
  ASSUME NEW u \in Seq(Actions), NEW r \in Seq(Actions), r # <<>>, NEW x, NEW base, NEW c, NEW tip,
         Chained(x, u, r, base, c, tip)
  PROVE  Chained(x, Append(u, Last(r)), Front(r), base, Applied(c, Last(r)), tip)
PROOF
  <1>1. PICK f \in Seq(Actions), l \in Actions :
          f = Front(r) /\ l = Last(r) /\ l = r[Len(r)] /\ Len(f) = Len(r) - 1 /\ Len(r) \in Nat \ {0}
    BY FrontIs
  <1>2. \A i \in 1..(Len(r) - 1) : f[i] = r[i]
    BY <1>1, FrontElements
  <1>3. PICK v : v = Append(u, l)
    OBVIOUS
  <1>4. Len(u) \in Nat /\ Len(v) = Len(u) + 1 /\ v[Len(u) + 1] = l /\ \A i \in 1..Len(u) : v[i] = u[i]
    BY <1>3
  <1>5. Len(v) + Len(f) = Len(u) + Len(r)
    BY <1>1, <1>4
  <1>6. Edge(x[Len(u)], l, x[Len(u) + 1])
    <2>1. Len(r) \in 1..Len(r) /\ Len(u) + Len(r) - Len(r) = Len(u)
      BY <1>1, <1>4
    <2>2. Edge(x[Len(u) + Len(r) - Len(r)], r[Len(r)], x[Len(u) + Len(r) - Len(r) + 1])
      BY <2>1 DEF Chained
    <2> QED BY <1>1, <2>1, <2>2
  <1>7. x[Len(v)] = Applied(c, l)
    BY <1>4, <1>6 DEF Edge, Chained
  <1>8. ASSUME NEW i \in 1..Len(v) PROVE Edge(x[i - 1], v[i], x[i])
    <2>1. CASE i = Len(v)
      <3>1. i - 1 = Len(u) /\ i = Len(u) + 1
        BY <1>4, <2>1
      <3> QED BY <1>4, <1>6, <3>1
    <2>2. CASE i # Len(v)
      <3>1. i \in 1..Len(u) /\ v[i] = u[i]
        BY <1>4, <2>2
      <3> QED BY <3>1 DEF Chained
    <2> QED BY <2>1, <2>2
  <1>9. \A j \in 1..Len(f) : Edge(x[Len(u) + Len(r) - j], f[j], x[Len(u) + Len(r) - j + 1])
    BY <1>1, <1>2 DEF Chained
  <1>10. Chained(x, v, f, base, Applied(c, l), tip)
    <2>1. ASSUME NEW j \in 1..Len(f)
          PROVE  Edge(x[Len(v) + Len(f) - j], f[j], x[Len(v) + Len(f) - j + 1])
      <3>1. Len(v) + Len(f) - j = Len(u) + Len(r) - j
        BY <1>5
      <3>2. Edge(x[Len(u) + Len(r) - j], f[j], x[Len(u) + Len(r) - j + 1])
        BY <1>9
      <3> QED BY <3>1, <3>2
    <2>2. x[0] = base /\ x[Len(v) + Len(f)] = tip
      BY <1>5 DEF Chained
    <2> QED BY <1>7, <1>8, <2>1, <2>2 DEF Chained
  <1> QED BY <1>1, <1>3, <1>10

-----------------------------------------------------------------------------
(* The chain stands *)

Linked ==
  \E x : Chained(x, undo_stack, redo_stack, history.base, Capture(rack), history.tip)
Chain == ~history.loaded => Linked

\* At the start the chain is one empty content.
LEMMA ChainInit == Init => Chain
PROOF
  <1> SUFFICES ASSUME Init PROVE Linked
    BY DEF Chain
  <1>1. /\ undo_stack = <<>> /\ redo_stack = <<>> /\ rack = <<>>
        /\ history.base = <<>> /\ history.tip = <<>>
    BY DEF Init
  <1>2. Capture(rack) = <<>>
    <2>1. PICK c : c = Capture(rack)
      OBVIOUS
    <2>2. rack \in Seq(Slots) /\ Len(rack) = 0
      BY <1>1
    <2>3. c \in Seq(SlotSnapshots) /\ Len(c) = 0
      BY <2>1, <2>2, CaptureIs
    <2> QED BY <2>1, <2>3, EmptySeq
  <1>3. PICK x : x = [i \in Nat |-> <<>>]
    OBVIOUS
  <1>4. PICK e : e = <<>>
    OBVIOUS
  <1>5. Len(e) = 0
    BY <1>4
  <1>6. Chained(x, e, e, e, e, e)
    BY <1>3, <1>4, <1>5 DEF Chained
  <1> QED BY <1>1, <1>2, <1>4, <1>6 DEF Linked

\* A new entry: the chain is cut after the content, loses its oldest link when the
\* entry is one too many, and gets one more unless the entry is merged.
LEMMA RecordedLinked ==
  ASSUME Typed, Linked, NEW e \in Actions, Recorded(e)
  PROVE  Linked'
PROOF
  <1>1. PICK u \in Seq(Actions), r \in Seq(Actions) : u = undo_stack /\ r = redo_stack
    BY DEF Typed, StacksTyped
  <1>2. PICK base, tip, c, c2 : /\ base = history.base /\ tip = history.tip
                                /\ c = Capture(rack) /\ c2 = Capture(rack')
    OBVIOUS
  <1>3. PICK x : Chained(x, u, r, base, c, tip)
    BY <1>1, <1>2 DEF Linked
  <1>4. Chained(x, u, <<>>, base, c, c)
    BY <1>3, ChainCut
  <1>5. Edge(c, e, c2) /\ Push(e)
    BY <1>2 DEF Recorded, Record
  <1>6. /\ redo_stack' = <<>> /\ history'.tip = c2
        /\ history'.base = IF Evicts(e) THEN Applied(base, Head(u)) ELSE base
    <2>1. PICK b : b = IF Evicts(e) THEN Applied(base, Head(u)) ELSE base
      OBVIOUS
    <2>2. history' = [history EXCEPT !.tip = c2, !.base = b]
      BY <1>1, <1>2, <2>1 DEF Recorded, Record
    <2>3. history \in Histories
      BY DEF Typed, HistoryTyped
    <2> QED BY <1>5, <2>1, <2>2, <2>3 DEF Push, Histories
  <1>7. ASSUME \E y : Chained(y, undo_stack', <<>>, history'.base, c2, c2) PROVE Linked'
    BY <1>2, <1>6, <1>7 DEF Linked
  <1>8. <<>> \in Seq(Actions)
    OBVIOUS
  <1>9. CASE Coalesces(e)
    <2>1. /\ u # <<>> /\ e.kind = "param" /\ Last(u).kind = "param"
      BY <1>1, <1>9 DEF Coalesces
    <2>2. PICK m \in Actions : m = [e EXCEPT !.old = Last(u).old] /\ m.kind = "param"
      BY <1>1, <1>9, MergedIs DEF Typed
    <2>3. undo_stack' = Append(Front(u), m)
      BY <1>1, <1>5, <1>9, <2>2 DEF Push, Coalesced
    <2>4. c2 = c
      BY <1>5, <2>1, StandingEdge
    <2>5. history'.base = base
      BY <1>6, <1>9 DEF Evicts
    <2>6. Chained(x, Append(Front(u), m), <<>>, base, c, c)
      BY <1>3, <2>1, <2>2, ChainMerge
    <2> QED BY <1>7, <2>3, <2>4, <2>5, <2>6
  <1>10. CASE Evicts(e)
    <2>1. u # <<>> /\ undo_stack' = Append(Tail(u), e)
      BY <1>1, <1>5, <1>10, UndoStackAssumption DEF Push, Evicts
    <2>2. PICK t \in Seq(Actions) : t = Tail(u)
      BY <2>1, TailIs
    <2>3. PICK y : Chained(y, t, <<>>, Applied(base, Head(u)), c, c)
      BY <1>4, <2>1, <2>2, ChainEvict
    <2>4. \E z : Chained(z, Append(t, e), <<>>, Applied(base, Head(u)), c2, c2)
      BY <1>5, <1>8, <2>3, ChainPush
    <2> QED BY <1>6, <1>7, <1>10, <2>1, <2>2, <2>4
  <1>11. CASE ~Coalesces(e) /\ ~Evicts(e)
    <2>1. undo_stack' = Append(u, e) /\ history'.base = base
      BY <1>1, <1>5, <1>6, <1>11 DEF Push
    <2>2. \E z : Chained(z, Append(u, e), <<>>, base, c2, c2)
      BY <1>4, <1>5, <1>8, ChainPush
    <2> QED BY <1>7, <2>1, <2>2
  <1> QED BY <1>9, <1>10, <1>11

\* Every kind of step leaves a chain.
LEMMA ChainStep ==
  ASSUME Typed, Chain, HostStep
  PROVE  Chain'
PROOF
  <1> SUFFICES ASSUME ~history'.loaded PROVE Linked'
    BY DEF Chain
  <1>1. PICK u \in Seq(Actions), r \in Seq(Actions) : u = undo_stack /\ r = redo_stack
    BY DEF Typed, StacksTyped
  <1>2. PICK base, tip, c : base = history.base /\ tip = history.tip /\ c = Capture(rack)
    OBVIOUS
  <1>3. history \in Histories
    BY DEF Typed, HistoryTyped
  <1>6. CASE Reloaded
    <2>1. PICK d : d = session.rack
      OBVIOUS
    <2>2. /\ undo_stack = <<>> /\ redo_stack = <<>> /\ Capture(rack') = d
          /\ undo_stack' = <<>> /\ redo_stack' = <<>>
          /\ history' = [history EXCEPT !.base = d, !.tip = d]
      BY <1>3, <1>6, <2>1 DEF Reloaded, Histories, stacks
    <2>3. history'.base = d /\ history'.tip = d
      BY <1>3, <2>2 DEF Histories
    <2>4. Chained([i \in Nat |-> d], <<>>, <<>>, d, d, d)
      <3>1. PICK x, e : x = [i \in Nat |-> d] /\ e = <<>>
        OBVIOUS
      <3>2. Len(e) = 0 /\ x[0] = d
        BY <3>1
      <3>3. Chained(x, e, e, d, d, d)
        BY <3>2 DEF Chained
      <3> QED BY <3>1, <3>3
    <2> QED BY <2>2, <2>3, <2>4 DEF Linked
  <1>4. CASE UNCHANGED history
    <2>1. PICK x : Chained(x, u, r, base, c, tip)
      BY <1>1, <1>2, <1>4 DEF Chain, Linked
    <2>2. history'.base = base /\ history'.tip = tip
      BY <1>2, <1>4
    <2>3. CASE Kept
      BY <1>1, <1>2, <2>1, <2>2, <2>3 DEF Kept, stacks, Linked
    <2>4. CASE Outdated
      <3>1. undo_stack' = Aged(u) /\ redo_stack' = Aged(r) /\ Capture(rack') = c
        BY <1>1, <1>2, <2>4 DEF Outdated, WindowEnds
      <3>2. Chained(x, Aged(u), Aged(r), base, c, tip)
        BY <2>1, ChainAged
      <3> QED BY <2>2, <3>1, <3>2 DEF Linked
    <2>5. CASE Undone
      <3>1. u # <<>> /\ undo_stack' = Front(u) /\ redo_stack' = Append(r, Last(u))
            /\ Capture(rack') = Reverted(c, Last(u))
        BY <1>1, <1>2, <2>5 DEF Undone, Undo
      <3>2. Chained(x, Front(u), Append(r, Last(u)), base, Reverted(c, Last(u)), tip)
        BY <2>1, <3>1, ChainUndo
      <3> QED BY <2>2, <3>1, <3>2 DEF Linked
    <2>6. CASE Redone
      <3>1. r # <<>> /\ redo_stack' = Front(r) /\ undo_stack' = Append(u, Last(r))
            /\ Capture(rack') = Applied(c, Last(r))
        BY <1>1, <1>2, <2>6 DEF Redone, Redo
      <3>2. Chained(x, Append(u, Last(r)), Front(r), base, Applied(c, Last(r)), tip)
        BY <2>1, <3>1, ChainRedo
      <3> QED BY <2>2, <3>1, <3>2 DEF Linked
    <2>7. CASE \E e \in Actions : Recorded(e)
      <3>1. Linked
        BY <1>4 DEF Chain
      <3> QED BY <2>7, <3>1, RecordedLinked
    <2> QED BY <1>6, <2>3, <2>4, <2>5, <2>6, <2>7 DEF HostStep
  <1>5. CASE \E e \in Actions : Recorded(e)
    <2>1. PICK e \in Actions : Recorded(e)
      BY <1>5
    <2>2. history'.loaded = history.loaded
      BY <1>3, <2>1 DEF Recorded, Record, Histories
    <2>3. Linked
      BY <2>2 DEF Chain
    <2> QED BY <2>1, <2>3, RecordedLinked
  <1> QED BY <1>4, <1>5, <1>6 DEF HostStep, Kept, Outdated, Undone, Redone

-----------------------------------------------------------------------------
(* What undoing and redoing all leads to *)

\* Of some natural numbers one is the smallest.
LEMMA Smallest ==
  ASSUME NEW T \in SUBSET Nat, T # {}
  PROVE  \E n \in T : \A m \in T : n <= m
PROOF
  <1>1. PICK n \in T : \A m \in T : ~(<<m, n>> \in OpToRel(<, Nat))
    BY NatLessThanWellFounded, WFMin
  <1>2. ASSUME NEW m \in T PROVE n <= m
    <2>1. ~(<<m, n>> \in {ss \in Nat \X Nat : ss[1] < ss[2]})
      BY <1>1 DEF OpToRel
    <2>2. <<m, n>> \in Nat \X Nat
      OBVIOUS
    <2>3. ~(m < n)
      BY <2>1, <2>2
    <2> QED BY <2>3
  <1> QED BY <1>2

\* Undoing entry by entry goes back along the chain to its base,
LEMMA RewoundIs ==
  ASSUME Typed, Linked
  PROVE  Rewound = history.base
PROOF
  <1>1. PICK x : Chained(x, undo_stack, redo_stack, history.base, Capture(rack), history.tip)
    BY DEF Linked
  <1>2. PICK u \in Seq(Actions) : u = undo_stack
    BY DEF Typed, StacksTyped
  <1>0. PICK c : c = Capture(rack)
    OBVIOUS
  <1>3. Len(u) \in Nat
    OBVIOUS
  <1>4. x[0] = history.base /\ x[Len(u)] = c /\ \A i \in 1..Len(u) : x[i - 1] = Reverted(x[i], u[i])
    BY <1>0, <1>1, <1>2 DEF Chained, Edge
  <1>5. ASSUME NEW n \in 1..Len(u)
        PROVE  x[Len(u) - n] = Reverted(x[Len(u) - (n - 1)], u[Len(u) + 1 - n])
    <2>1. PICK i \in 1..Len(u) : i = Len(u) + 1 - n
      BY <1>3
    <2>2. i - 1 = Len(u) - n /\ i = Len(u) - (n - 1)
      BY <1>3, <2>1
    <2> QED BY <1>4, <2>1, <2>2
  <1>6. \E f : f = [n \in 0..Len(u) |-> IF n = 0 THEN c ELSE Reverted(f[n - 1], u[Len(u) + 1 - n])]
    <2>1. PICK f : f = [n \in 0..Len(u) |-> x[Len(u) - n]]
      OBVIOUS
    <2>2. ASSUME NEW n \in 0..Len(u)
          PROVE  x[Len(u) - n] = IF n = 0 THEN c ELSE Reverted(f[n - 1], u[Len(u) + 1 - n])
      <3>1. CASE n = 0
        BY <1>3, <1>4, <3>1
      <3>2. CASE n # 0
        <4>1. n \in 1..Len(u) /\ f[n - 1] = x[Len(u) - (n - 1)]
          BY <1>3, <2>1, <3>2
        <4> QED BY <1>5, <3>2, <4>1
      <3> QED BY <3>1, <3>2
    <2>3. f = [n \in 0..Len(u) |-> IF n = 0 THEN c ELSE Reverted(f[n - 1], u[Len(u) + 1 - n])]
      BY <2>1, <2>2
    <2> QED BY <2>3
  <1>7. \E f : /\ f = [n \in 0..Len(u) |-> IF n = 0 THEN c ELSE Reverted(f[n - 1], u[Len(u) + 1 - n])]
               /\ Rewound = f[Len(u)]
    BY <1>0, <1>2, <1>6, Zenon DEF Rewound
  <1>8. PICK f : /\ f = [n \in 0..Len(u) |-> IF n = 0 THEN c ELSE Reverted(f[n - 1], u[Len(u) + 1 - n])]
                 /\ Rewound = f[Len(u)]
    BY <1>7
  <1>9. f[0] = c /\ \A n \in 1..Len(u) : f[n] = Reverted(f[n - 1], u[Len(u) + 1 - n])
    <2>1. f[0] = c
      BY <1>3, <1>8
    <2>2. ASSUME NEW n \in 1..Len(u) PROVE f[n] = Reverted(f[n - 1], u[Len(u) + 1 - n])
      <3>1. n \in 0..Len(u) /\ n # 0
        BY <1>3
      <3> QED BY <1>8, <3>1
    <2> QED BY <2>1, <2>2
  <1>10. \A n \in 0..Len(u) : f[n] = x[Len(u) - n]
    <2>1. SUFFICES ASSUME NEW k \in 0..Len(u), f[k] # x[Len(u) - k] PROVE FALSE
      OBVIOUS
    <2> DEFINE T == {n \in 0..Len(u) : f[n] # x[Len(u) - n]}
    <2>2. T \in SUBSET Nat /\ T # {}
      BY <1>3, <2>1
    <2>3. PICK n \in T : \A m \in T : n <= m
      BY <2>2, Smallest
    <2>4. n \in 0..Len(u) /\ f[n] # x[Len(u) - n]
      BY <2>3
    <2>5. n # 0
      BY <1>3, <1>4, <1>9, <2>4
    <2>6. n \in 1..Len(u) /\ n - 1 \in 0..Len(u) /\ ~(n <= n - 1)
      BY <1>3, <2>4, <2>5
    <2>7. f[n - 1] = x[Len(u) - (n - 1)]
      BY <2>3, <2>6
    <2>8. f[n] = Reverted(f[n - 1], u[Len(u) + 1 - n])
      BY <1>9, <2>6
    <2> QED BY <1>5, <2>4, <2>6, <2>7, <2>8
  <1>11. Len(u) \in 0..Len(u) /\ Len(u) - Len(u) = 0
    BY <1>3
  <1>12. f[Len(u)] = x[0]
    BY <1>10, <1>11
  <1> QED BY <1>4, <1>8, <1>12

\* and redoing forth to its tip.
LEMMA ReplayedIs ==
  ASSUME Typed, Linked
  PROVE  Replayed = history.tip
PROOF
  <1>1. PICK x : Chained(x, undo_stack, redo_stack, history.base, Capture(rack), history.tip)
    BY DEF Linked
  <1>2. PICK u \in Seq(Actions), r \in Seq(Actions) : u = undo_stack /\ r = redo_stack
    BY DEF Typed, StacksTyped
  <1>0. PICK c : c = Capture(rack)
    OBVIOUS
  <1>3. Len(u) \in Nat /\ Len(r) \in Nat
    OBVIOUS
  <1>4. /\ x[Len(u) + Len(r)] = history.tip /\ x[Len(u)] = c
        /\ \A j \in 1..Len(r) : x[Len(u) + Len(r) - j + 1] = Applied(x[Len(u) + Len(r) - j], r[j])
    BY <1>0, <1>1, <1>2 DEF Chained, Edge
  <1>5. ASSUME NEW n \in 1..Len(r)
        PROVE  x[Len(u) + n] = Applied(x[Len(u) + (n - 1)], r[Len(r) + 1 - n])
    <2>0. Len(r) + 1 - n \in 1..Len(r)
      BY <1>3
    <2>1. PICK j \in 1..Len(r) : j = Len(r) + 1 - n
      BY <2>0
    <2>2. Len(u) + Len(r) - j + 1 = Len(u) + n /\ Len(u) + Len(r) - j = Len(u) + (n - 1)
      BY <1>3, <2>1
    <2>3. x[Len(u) + Len(r) - j + 1] = Applied(x[Len(u) + Len(r) - j], r[j])
      BY <1>4
    <2> QED BY <2>1, <2>2, <2>3
  <1>6. \E f : f = [n \in 0..Len(r) |-> IF n = 0 THEN c ELSE Applied(f[n - 1], r[Len(r) + 1 - n])]
    <2>1. PICK f : f = [n \in 0..Len(r) |-> x[Len(u) + n]]
      OBVIOUS
    <2>2. ASSUME NEW n \in 0..Len(r)
          PROVE  x[Len(u) + n] = IF n = 0 THEN c ELSE Applied(f[n - 1], r[Len(r) + 1 - n])
      <3>1. CASE n = 0
        BY <1>3, <1>4, <3>1
      <3>2. CASE n # 0
        <4>1. n \in 1..Len(r) /\ f[n - 1] = x[Len(u) + (n - 1)]
          BY <1>3, <2>1, <3>2
        <4> QED BY <1>5, <3>2, <4>1
      <3> QED BY <3>1, <3>2
    <2>3. f = [n \in 0..Len(r) |-> IF n = 0 THEN c ELSE Applied(f[n - 1], r[Len(r) + 1 - n])]
      BY <2>1, <2>2
    <2> QED BY <2>3
  <1>7. \E f : /\ f = [n \in 0..Len(r) |-> IF n = 0 THEN c ELSE Applied(f[n - 1], r[Len(r) + 1 - n])]
               /\ Replayed = f[Len(r)]
    BY <1>0, <1>2, <1>6, Zenon DEF Replayed
  <1>8. PICK f : /\ f = [n \in 0..Len(r) |-> IF n = 0 THEN c ELSE Applied(f[n - 1], r[Len(r) + 1 - n])]
                 /\ Replayed = f[Len(r)]
    BY <1>7
  <1>9. f[0] = c /\ \A n \in 1..Len(r) : f[n] = Applied(f[n - 1], r[Len(r) + 1 - n])
    <2>1. f[0] = c
      BY <1>3, <1>8
    <2>2. ASSUME NEW n \in 1..Len(r) PROVE f[n] = Applied(f[n - 1], r[Len(r) + 1 - n])
      <3>1. n \in 0..Len(r) /\ n # 0
        BY <1>3
      <3> QED BY <1>8, <3>1
    <2> QED BY <2>1, <2>2
  <1>10. \A n \in 0..Len(r) : f[n] = x[Len(u) + n]
    <2>1. SUFFICES ASSUME NEW k \in 0..Len(r), f[k] # x[Len(u) + k] PROVE FALSE
      OBVIOUS
    <2> DEFINE T == {n \in 0..Len(r) : f[n] # x[Len(u) + n]}
    <2>2. T \in SUBSET Nat /\ T # {}
      BY <1>3, <2>1
    <2>3. PICK n \in T : \A m \in T : n <= m
      BY <2>2, Smallest
    <2>4. n \in 0..Len(r) /\ f[n] # x[Len(u) + n]
      BY <2>3
    <2>5. n # 0
      BY <1>3, <1>4, <1>9, <2>4
    <2>6. n \in 1..Len(r) /\ n - 1 \in 0..Len(r) /\ ~(n <= n - 1)
      BY <1>3, <2>4, <2>5
    <2>7. f[n - 1] = x[Len(u) + (n - 1)]
      BY <2>3, <2>6
    <2>8. f[n] = Applied(f[n - 1], r[Len(r) + 1 - n])
      BY <1>9, <2>6
    <2> QED BY <1>5, <2>4, <2>6, <2>7, <2>8
  <1>11. Len(r) \in 0..Len(r)
    BY <1>3
  <1>12. f[Len(r)] = x[Len(u) + Len(r)]
    BY <1>10, <1>11
  <1> QED BY <1>4, <1>8, <1>12

\* So does every step.
LEMMA ChainInductive == Typed /\ Chain /\ [Next]_vars => Chain'
PROOF
  <1> SUFFICES ASSUME Typed, Chain, [Next]_vars PROVE Chain'
    OBVIOUS
  <1>1. CASE HostStep
    BY <1>1, ChainStep
  <1>2. CASE UNCHANGED vars
    BY <1>2 DEF vars, stacks, hostVars, Chain, Linked
  <1> QED BY <1>1, <1>2, TypedStep

\* Types and chain hold in every state.
LEMMA ChainStands == Spec => [](Typed /\ Chain)
PROOF
  <1>1. Init => Typed /\ Chain
    BY TypedInit, ChainInit
  <1>2. Typed /\ Chain /\ [Next]_vars => Typed' /\ Chain'
    BY TypedStep, ChainInductive
  <1> QED BY <1>1, <1>2, PTL DEF Spec

\* However the rack was edited, undone, redone, merged and dropped: undoing all
\* there is leads to the content before the oldest entry still kept, unless a
\* session was loaded over entries (apply_undo_action, UndoStack::push).
THEOREM UndoLeads == Spec => []UndoLeadsBack
PROOF
  <1>1. Typed /\ Chain => UndoLeadsBack
    BY RewoundIs DEF Chain, UndoLeadsBack
  <1> QED BY <1>1, ChainStands, PTL

\* And redoing all that was undone leads to what the user had made last
\* (perform_redo, UndoStack::redo).
THEOREM RedoLeads == Spec => []RedoLeadsForth
PROOF
  <1>1. Typed /\ Chain => RedoLeadsForth
    BY ReplayedIs DEF Chain, RedoLeadsForth
  <1> QED BY <1>1, ChainStands, PTL
=============================================================================
