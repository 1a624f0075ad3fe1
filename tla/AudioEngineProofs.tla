-------------------------- MODULE AudioEngineProofs --------------------------
(***************************************************************************)
(* What reaches a plugin in a block, for any number of parameters and      *)
(* keys, any limits of the lists and blocks of any length.                 *)
(*                                                                         *)
(* The lists are read one element after the other by recursive functions.  *)
(* What such a function computes is shown by the smallest place where it   *)
(* would compute something else (Smallest): first that the function that   *)
(* the definition chooses is there, then that the last element about a key *)
(* or a parameter decides.                                                 *)
(*                                                                         *)
(*   Clean        a block that the plugin will be called for is silence    *)
(*   ShellFirst   what the shell has set is what it queues next            *)
(*   Agrees       the halves agree until the first of them is told of a    *)
(*                change, and what the processor was told first is what it *)
(*                will compute with                                        *)
(*   MidiIsNews   the message under way is about the key as it is now      *)
(***************************************************************************)
EXTENDS AudioEngine, FiniteSetTheorems, SequenceTheorems, WellFoundedInduction, TLAPS

-----------------------------------------------------------------------------
(* Induction: a set of numbers with a first and a last *)

\* What would fail somewhere fails somewhere first.
LEMMA Smallest ==
  ASSUME NEW T \in SUBSET Nat, T # {}
  PROVE  \E x \in T : \A y \in T : x <= y
<1>1. PICK x \in T : \A y \in T : ~(<<y, x>> \in OpToRel(<, Nat))
  BY NatLessThanWellFounded, WFMin
<1>2. ASSUME NEW y \in T PROVE x <= y
  <2>1. ~(<<y, x>> \in {ss \in Nat \X Nat : ss[1] < ss[2]})
    BY <1>1 DEF OpToRel
  <2>2. <<y, x>> \in Nat \X Nat
    OBVIOUS
  <2>3. ~(y < x)
    BY <2>1, <2>2
  <2> QED
    BY <2>3
<1> QED
  BY <1>2

\* Of the places in a sequence one is the last.
LEMMA Largest ==
  ASSUME NEW n \in Nat, NEW S \in SUBSET (1..n), S # {}
  PROVE  \E x \in S : \A y \in S : y <= x
<1> DEFINE T == {n - x : x \in S}
<1>1. T \in SUBSET Nat /\ T # {}
  <2>1. \A x \in S : n - x \in Nat
    OBVIOUS
  <2> QED
    BY <2>1
<1>2. PICK t \in T : \A u \in T : t <= u
  <2> HIDE DEF T
  <2> QED
    BY <1>1, Smallest
<1>3. PICK x \in S : t = n - x
  OBVIOUS
<1>4. ASSUME NEW y \in S PROVE y <= x
  <2>1. n - y \in T
    OBVIOUS
  <2>2. n - x <= n - y
    BY <1>2, <1>3, <2>1
  <2> QED
    BY <2>2
<1> QED
  BY <1>4

-----------------------------------------------------------------------------
(* The notes that sound after a list of events *)

\* The function that Sounding is defined with is there.
LEMMA SoundsExist ==
  ASSUME NEW notes \in SUBSET Keys, NEW s \in Seq(Events)
  PROVE  \A m \in 0..Len(s) :
           \E f : f = [n \in 0..m |-> IF n = 0 THEN notes ELSE WithEvent(f[n - 1], s[n])]
<1> DEFINE IsSounds(f, m) == f = [n \in 0..m |-> IF n = 0 THEN notes ELSE WithEvent(f[n - 1], s[n])]
           T == {m \in 0..Len(s) : ~\E f : IsSounds(f, m)}
<1>1. SUFFICES ASSUME T # {} PROVE FALSE
  OBVIOUS
<1>2. T \in SUBSET Nat
  OBVIOUS
<1>3. PICK m \in T : \A y \in T : m <= y
  <2> HIDE DEF T
  <2> QED
    BY <1>1, <1>2, Smallest
<1>4. m \in 0..Len(s) /\ ~\E f : IsSounds(f, m)
  OBVIOUS
<1>5. CASE m = 0
  <2> DEFINE f == [n \in 0..0 |-> notes]
  <2>1. IsSounds(f, 0)
    OBVIOUS
  <2> QED
    BY <1>4, <1>5, <2>1
<1>6. CASE m # 0
  <2>1. m - 1 \in 0..Len(s) /\ m - 1 \notin T
    <3>1. m - 1 \in 0..Len(s) /\ ~(m <= m - 1)
      BY <1>4, <1>6
    <3> HIDE DEF T
    <3> QED
      BY <1>3, <3>1
  <2>2. PICK g : IsSounds(g, m - 1)
    BY <2>1
  <2> DEFINE f == [n \in 0..m |-> IF n = m THEN WithEvent(g[m - 1], s[m]) ELSE g[n]]
  <2>3. \A n \in 0..m : f[n] = IF n = 0 THEN notes ELSE WithEvent(f[n - 1], s[n])
    BY <1>4, <1>6, <2>2
  <2>4. IsSounds(f, m)
    BY <2>3
  <2> QED
    BY <1>4, <2>4
<1> QED
  BY <1>5, <1>6

\* The notes after a list of events are found one event at a time.
LEMMA SoundsStepwise ==
  ASSUME NEW notes \in SUBSET Keys, NEW s \in Seq(Events)
  PROVE  \E f : /\ f[0] = notes /\ Sounding(notes, s) = f[Len(s)]
                /\ \A n \in 1..Len(s) : f[n] = WithEvent(f[n - 1], s[n])
<1>1. Len(s) \in 0..Len(s)
  OBVIOUS
<1>2. \E f : f = [n \in 0..Len(s) |-> IF n = 0 THEN notes ELSE WithEvent(f[n - 1], s[n])]
  BY <1>1, SoundsExist
<1>3. \E f : /\ f = [n \in 0..Len(s) |-> IF n = 0 THEN notes ELSE WithEvent(f[n - 1], s[n])]
             /\ Sounding(notes, s) = f[Len(s)]
  <2> DEFINE sounds ==
        CHOOSE f : f = [n \in 0..Len(s) |-> IF n = 0 THEN notes ELSE WithEvent(f[n - 1], s[n])]
  <2>1. sounds = [n \in 0..Len(s) |-> IF n = 0 THEN notes ELSE WithEvent(sounds[n - 1], s[n])]
    BY <1>2, Zenon
  <2>2. Sounding(notes, s) = sounds[Len(s)]
    BY Zenon DEF Sounding
  <2> HIDE DEF sounds
  <2> QED
    BY <2>1, <2>2
<1>4. PICK f : /\ f = [n \in 0..Len(s) |-> IF n = 0 THEN notes ELSE WithEvent(f[n - 1], s[n])]
               /\ Sounding(notes, s) = f[Len(s)]
  BY <1>3
<1>5. f[0] = notes /\ \A n \in 1..Len(s) : f[n] = WithEvent(f[n - 1], s[n])
  BY <1>1, <1>4
<1> QED
  BY <1>4, <1>5

\* No event is no change.
LEMMA SoundingEmpty ==
  ASSUME NEW notes \in SUBSET Keys
  PROVE  Sounding(notes, <<>>) = notes
<1>1. PICK s : s = <<>>
  OBVIOUS
<1>2. s \in Seq(Events) /\ Len(s) = 0
  BY <1>1
<1>3. PICK f : /\ f[0] = notes /\ Sounding(notes, s) = f[Len(s)]
               /\ \A n \in 1..Len(s) : f[n] = WithEvent(f[n - 1], s[n])
  BY <1>2, SoundsStepwise
<1> QED
  BY <1>1, <1>2, <1>3

\* Of the first n events none is about k; the i-th is the last that is.
Silent(s, n, k) == \A i \in 1..n : s[i].key # k
LastOf(s, n, k, i) == i \in 1..n /\ s[i].key = k /\ \A j \in (i + 1)..n : s[j].key # k

\* A note sounds when the last event about it says so, or when none is about it
\* and it sounded before.
LEMMA SoundingLast ==
  ASSUME NEW notes \in SUBSET Keys, NEW s \in Seq(Events)
  PROVE  /\ Sounding(notes, s) \in SUBSET Keys
         /\ \A k \in Keys :
              /\ Silent(s, Len(s), k) => (k \in Sounding(notes, s) <=> k \in notes)
              /\ \A i : LastOf(s, Len(s), k, i) => (k \in Sounding(notes, s) <=> s[i].on)
<1>1. PICK f : /\ f[0] = notes /\ Sounding(notes, s) = f[Len(s)]
               /\ \A n \in 1..Len(s) : f[n] = WithEvent(f[n - 1], s[n])
  BY SoundsStepwise
<1> DEFINE Right(n) == /\ f[n] \in SUBSET Keys
                       /\ \A k \in Keys :
                            /\ Silent(s, n, k) => (k \in f[n] <=> k \in notes)
                            /\ \A i : LastOf(s, n, k, i) => (k \in f[n] <=> s[i].on)
           T == {n \in 0..Len(s) : ~Right(n)}
<1>2. Len(s) \in Nat
  OBVIOUS
<1>3. ASSUME T # {} PROVE FALSE
  <2>1. T \in SUBSET Nat
    OBVIOUS
  <2>2. PICK m \in T : \A y \in T : m <= y
    <3> HIDE DEF T
    <3> QED
      BY <1>3, <2>1, Smallest
  <2>3. m \in 0..Len(s) /\ ~Right(m)
    OBVIOUS
  <2>4. CASE m = 0
    <3>1. 1..0 = {}
      OBVIOUS
    <3>2. Right(0)
      BY <1>1, <3>1 DEF Silent, LastOf
    <3> QED
      BY <2>3, <2>4, <3>2
  <2>5. CASE m # 0
    <3>1. m - 1 \in 0..Len(s) /\ m - 1 \notin T
      BY <2>2, <2>3, <2>5
    <3>2. Right(m - 1)
      BY <3>1
    <3>3. PICK l \in Nat : l = m - 1 /\ m = l + 1
      BY <3>1
    <3>4. m \in 1..Len(s) /\ f[m] = WithEvent(f[l], s[m]) /\ Right(l)
      BY <1>1, <2>3, <2>5, <3>2, <3>3
    <3>5. s[m] \in Events /\ s[m].on \in BOOLEAN /\ s[m].key \in Keys
      <4>1. s[m] \in Events
        BY <3>4, ElementOfSeq
      <4> QED
        BY <4>1 DEF Events
    <3>6. f[m] \in SUBSET Keys
      BY <3>4, <3>5 DEF WithEvent
    <3>7. ASSUME NEW k \in Keys, Silent(s, m, k) PROVE k \in f[m] <=> k \in notes
      <4>1. Silent(s, l, k) /\ s[m].key # k
        BY <3>3, <3>7 DEF Silent
      <4> QED
        BY <3>4, <4>1 DEF WithEvent
    <3>8. ASSUME NEW k \in Keys, NEW i, LastOf(s, m, k, i) PROVE k \in f[m] <=> s[i].on
      <4>1. CASE i = m
        BY <3>4, <3>5, <3>8, <4>1 DEF WithEvent, LastOf
      <4>2. CASE i # m
        <5>1. LastOf(s, l, k, i) /\ m \in (i + 1)..m
          BY <3>3, <3>8, <4>2 DEF LastOf
        <5>2. s[m].key # k
          BY <3>8, <5>1 DEF LastOf
        <5> QED
          BY <3>4, <5>1, <5>2 DEF WithEvent
      <4> QED
        BY <4>1, <4>2
    <3>9. Right(m)
      BY <3>6, <3>7, <3>8
    <3> QED
      BY <2>3, <3>9
  <2> QED
    BY <2>4, <2>5
<1>4. Right(Len(s))
  <2>1. Len(s) \in 0..Len(s)
    BY <1>2
  <2> QED
    BY <1>3, <2>1
<1> QED
  BY <1>1, <1>4
-----------------------------------------------------------------------------
(* The events of a list of messages *)

\* The function that translate_midi_batch is defined with is there.
LEMMA TranslationExists ==
  ASSUME NEW s \in Seq(Messages)
  PROVE  \A m \in 0..Len(s) :
           \E f : f = [n \in 0..m |-> IF n = 0 THEN <<>> ELSE WithMessage(f[n - 1], s[n])]
<1> DEFINE IsTranslation(f, m) == f = [n \in 0..m |-> IF n = 0 THEN <<>> ELSE WithMessage(f[n - 1], s[n])]
           T == {m \in 0..Len(s) : ~\E f : IsTranslation(f, m)}
<1>1. SUFFICES ASSUME T # {} PROVE FALSE
  OBVIOUS
<1>2. T \in SUBSET Nat
  OBVIOUS
<1>3. PICK m \in T : \A y \in T : m <= y
  <2> HIDE DEF T
  <2> QED
    BY <1>1, <1>2, Smallest
<1>4. m \in 0..Len(s) /\ ~\E f : IsTranslation(f, m)
  OBVIOUS
<1>5. CASE m = 0
  <2> DEFINE f == [n \in 0..0 |-> <<>>]
  <2>1. IsTranslation(f, 0)
    OBVIOUS
  <2> QED
    BY <1>4, <1>5, <2>1
<1>6. CASE m # 0
  <2>1. m - 1 \in 0..Len(s) /\ m - 1 \notin T
    <3>1. m - 1 \in 0..Len(s) /\ ~(m <= m - 1)
      BY <1>4, <1>6
    <3> HIDE DEF T
    <3> QED
      BY <1>3, <3>1
  <2>2. PICK g : IsTranslation(g, m - 1)
    BY <2>1
  <2> DEFINE f == [n \in 0..m |-> IF n = m THEN WithMessage(g[m - 1], s[m]) ELSE g[n]]
  <2>3. \A n \in 0..m : f[n] = IF n = 0 THEN <<>> ELSE WithMessage(f[n - 1], s[n])
    BY <1>4, <1>6, <2>2
  <2>4. IsTranslation(f, m)
    BY <2>3
  <2> QED
    BY <1>4, <2>4
<1> QED
  BY <1>5, <1>6

\* The events of a list of messages are found one message at a time.
LEMMA TranslationStepwise ==
  ASSUME NEW s \in Seq(Messages)
  PROVE  \E f : /\ f[0] = <<>> /\ translate_midi_batch(s) = f[Len(s)]
                /\ \A n \in 1..Len(s) : f[n] = WithMessage(f[n - 1], s[n])
<1>1. Len(s) \in 0..Len(s)
  OBVIOUS
<1>2. \E f : f = [n \in 0..Len(s) |-> IF n = 0 THEN <<>> ELSE WithMessage(f[n - 1], s[n])]
  BY <1>1, TranslationExists
<1>3. \E f : /\ f = [n \in 0..Len(s) |-> IF n = 0 THEN <<>> ELSE WithMessage(f[n - 1], s[n])]
             /\ translate_midi_batch(s) = f[Len(s)]
  BY <1>2, Zenon DEF translate_midi_batch
<1>4. PICK f : /\ f = [n \in 0..Len(s) |-> IF n = 0 THEN <<>> ELSE WithMessage(f[n - 1], s[n])]
               /\ translate_midi_batch(s) = f[Len(s)]
  BY <1>3
<1>5. f[0] = <<>> /\ \A n \in 1..Len(s) : f[n] = WithMessage(f[n - 1], s[n])
  BY <1>1, <1>4
<1> QED
  BY <1>4, <1>5

\* A message that is about a key.
Concerns(m, k) == m.status # "other" /\ m.key = k
NoneConcerns(s, n, k) == \A i \in 1..n : ~Concerns(s[i], k)
LastConcerns(s, n, k, i) ==
  i \in 1..n /\ Concerns(s[i], k) /\ \A j \in (i + 1)..n : ~Concerns(s[j], k)

\* A message about a note has the event of its key.
LEMMA MessageFacts ==
  /\ \A m \in Messages : m.status # "other" =>
       midi_to_vst3_event(m) \in Events /\ midi_to_vst3_event(m).key = m.key /\ m.key \in Keys
  /\ \A e \in Events : e.on \in BOOLEAN /\ e.key \in Keys
<1>1. ASSUME NEW m \in Messages, m.status # "other"
      PROVE  m \in [status : {"on", "off"}, key : Keys, velocity : {0, 1}]
  BY <1>1 DEF Messages
<1>2. ASSUME NEW m \in Messages, m.status # "other"
      PROVE  midi_to_vst3_event(m) \in Events /\ midi_to_vst3_event(m).key = m.key /\ m.key \in Keys
  <2>1. m.key \in Keys
    BY <1>1, <1>2
  <2>2. (m.status = "on" /\ m.velocity # 0) \in BOOLEAN
    OBVIOUS
  <2> QED
    BY <2>1, <2>2 DEF midi_to_vst3_event, Events
<1> QED
  BY <1>2 DEF Events

\* The events are about the keys the messages are about, in their order.
LEMMA TranslationLast ==
  ASSUME NEW s \in Seq(Messages)
  PROVE  LET g == translate_midi_batch(s)
         IN  /\ g \in Seq(Events)
             /\ \A k \in Keys :
                  /\ NoneConcerns(s, Len(s), k) => Silent(g, Len(g), k)
                  /\ \A i : LastConcerns(s, Len(s), k, i) =>
                       \E e : LastOf(g, Len(g), k, e) /\ g[e] = midi_to_vst3_event(s[i])
<1>1. PICK f : /\ f[0] = <<>> /\ translate_midi_batch(s) = f[Len(s)]
               /\ \A n \in 1..Len(s) : f[n] = WithMessage(f[n - 1], s[n])
  BY TranslationStepwise
<1> DEFINE Right(n) ==
             /\ f[n] \in Seq(Events)
             /\ \A k \in Keys :
                  /\ NoneConcerns(s, n, k) => Silent(f[n], Len(f[n]), k)
                  /\ \A i : LastConcerns(s, n, k, i) =>
                       \E e : LastOf(f[n], Len(f[n]), k, e) /\ f[n][e] = midi_to_vst3_event(s[i])
           T == {n \in 0..Len(s) : ~Right(n)}
<1>2. Len(s) \in Nat
  OBVIOUS
<1>3. ASSUME T # {} PROVE FALSE
  <2>1. T \in SUBSET Nat
    OBVIOUS
  <2>2. PICK m \in T : \A y \in T : m <= y
    <3> HIDE DEF T
    <3> QED
      BY <1>3, <2>1, Smallest
  <2>3. m \in 0..Len(s) /\ ~Right(m)
    OBVIOUS
  <2>4. CASE m = 0
    <3>1. 1..0 = {} /\ Len(<<>>) = 0 /\ <<>> \in Seq(Events)
      OBVIOUS
    <3>2. f[0] \in Seq(Events) /\ Len(f[0]) = 0
      BY <1>1, <3>1
    <3>3. ASSUME NEW k \in Keys PROVE Silent(f[0], Len(f[0]), k) /\ \A i : ~LastConcerns(s, 0, k, i)
      BY <3>1, <3>2 DEF Silent, LastConcerns
    <3>4. Right(0)
      BY <3>2, <3>3
    <3> QED
      BY <2>3, <2>4, <3>4
  <2>5. CASE m # 0
    <3>1. m - 1 \in 0..Len(s) /\ m - 1 \notin T
      BY <2>2, <2>3, <2>5
    <3>2. Right(m - 1)
      BY <3>1
    <3>3. PICK l \in Nat : l = m - 1 /\ m = l + 1
      BY <3>1
    <3>4. m \in 1..Len(s) /\ f[m] = WithMessage(f[l], s[m]) /\ Right(l)
      BY <1>1, <2>3, <2>5, <3>2, <3>3
    <3>5. s[m] \in Messages
      BY <3>4, ElementOfSeq
    <3> HIDE DEF T
    <3>6. CASE s[m].status = "other"
      <4>1. f[m] = f[l]
        BY <3>4, <3>6 DEF WithMessage
      <4>2. ASSUME NEW k \in Keys, NoneConcerns(s, m, k) PROVE NoneConcerns(s, l, k)
        BY <3>3, <4>2 DEF NoneConcerns
      <4>3. ASSUME NEW k \in Keys, NEW i, LastConcerns(s, m, k, i) PROVE LastConcerns(s, l, k, i)
        <5>1. i # m
          BY <3>6, <4>3 DEF LastConcerns, Concerns
        <5> QED
          BY <3>3, <4>3, <5>1 DEF LastConcerns
      <4>4. Right(m)
        BY <3>4, <4>1, <4>2, <4>3
      <4> QED
        BY <2>3, <4>4
    <3>7. CASE s[m].status # "other"
      <4> DEFINE e == midi_to_vst3_event(s[m])
      <4>1. e \in Events /\ e.key = s[m].key /\ s[m].key \in Keys
        BY <3>5, <3>7, MessageFacts
      <4> HIDE DEF e
      <4>2. f[m] = Append(f[l], e)
        BY <3>4, <3>7 DEF WithMessage, e
      <4>3. PICK g : g = f[l]
        OBVIOUS
      <4>4. g \in Seq(Events)
        BY <3>4, <4>3
      <4>5. PICK h : h = f[m]
        OBVIOUS
      <4>6. /\ h \in Seq(Events) /\ Len(h) = Len(g) + 1 /\ Len(g) \in Nat /\ h[Len(g) + 1] = e
            /\ \A x \in 1..Len(g) : h[x] = g[x]
        BY <4>1, <4>2, <4>3, <4>4, <4>5
      <4>7. ASSUME NEW k \in Keys, NoneConcerns(s, m, k) PROVE Silent(h, Len(h), k)
        <5>1. NoneConcerns(s, l, k) /\ ~Concerns(s[m], k)
          BY <3>3, <4>7 DEF NoneConcerns
        <5>2. Silent(g, Len(g), k)
          BY <3>4, <4>3, <5>1
        <5>3. e.key # k
          BY <3>7, <4>1, <5>1 DEF Concerns
        <5> QED
          BY <4>6, <5>2, <5>3 DEF Silent
      <4>8. ASSUME NEW k \in Keys, NEW i, LastConcerns(s, m, k, i)
            PROVE  \E x : LastOf(h, Len(h), k, x) /\ h[x] = midi_to_vst3_event(s[i])
        <5>1. CASE i = m
          <6>1. e.key = k
            BY <4>1, <4>8, <5>1 DEF LastConcerns, Concerns
          <6>2. LastOf(h, Len(h), k, Len(g) + 1)
            BY <4>6, <6>1 DEF LastOf
          <6> QED
            BY <4>6, <5>1, <6>2 DEF e
        <5>2. CASE i # m
          <6>1. LastConcerns(s, l, k, i) /\ ~Concerns(s[m], k)
            BY <3>3, <4>8, <5>2 DEF LastConcerns
          <6>2. PICK x : LastOf(g, Len(g), k, x) /\ g[x] = midi_to_vst3_event(s[i])
            BY <3>4, <4>3, <6>1
          <6>3. e.key # k
            BY <3>7, <4>1, <6>1 DEF Concerns
          <6>4. LastOf(h, Len(h), k, x) /\ h[x] = g[x]
            BY <4>6, <6>2, <6>3 DEF LastOf
          <6> QED
            BY <6>2, <6>4
        <5> QED
          BY <5>1, <5>2
      <4>9. Right(m)
        BY <4>5, <4>6, <4>7, <4>8
      <4> QED
        BY <2>3, <4>9
    <3> QED
      BY <3>6, <3>7
  <2> QED
    BY <2>4, <2>5
<1>4. Right(Len(s))
  <2>1. Len(s) \in 0..Len(s)
    BY <1>2
  <2> QED
    BY <1>3, <2>1
<1> QED
  BY <1>1, <1>4

\* What a list of messages makes of a note: the last message about its key
\* decides, and none changes nothing.
LEMMA HeardLast ==
  ASSUME NEW notes \in SUBSET Keys, NEW s \in Seq(Messages), NEW k \in Keys
  PROVE  LET heard == Sounding(notes, translate_midi_batch(s))
         IN  /\ NoneConcerns(s, Len(s), k) => (k \in heard <=> k \in notes)
             /\ \A i : LastConcerns(s, Len(s), k, i) =>
                  (k \in heard <=> midi_to_vst3_event(s[i]).on)
<1>1. PICK g : g = translate_midi_batch(s)
  OBVIOUS
<1>2. /\ g \in Seq(Events)
      /\ NoneConcerns(s, Len(s), k) => Silent(g, Len(g), k)
      /\ \A i : LastConcerns(s, Len(s), k, i) =>
           \E e : LastOf(g, Len(g), k, e) /\ g[e] = midi_to_vst3_event(s[i])
  BY <1>1, TranslationLast
<1>3. /\ Silent(g, Len(g), k) => (k \in Sounding(notes, g) <=> k \in notes)
      /\ \A e : LastOf(g, Len(g), k, e) => (k \in Sounding(notes, g) <=> g[e].on)
  BY <1>2, SoundingLast
<1>4. NoneConcerns(s, Len(s), k) => (k \in Sounding(notes, g) <=> k \in notes)
  BY <1>2, <1>3
<1>5. ASSUME NEW i, LastConcerns(s, Len(s), k, i)
      PROVE  k \in Sounding(notes, g) <=> midi_to_vst3_event(s[i]).on
  <2>1. PICK e : LastOf(g, Len(g), k, e) /\ g[e] = midi_to_vst3_event(s[i])
    BY <1>2, <1>5
  <2> QED
    BY <1>3, <2>1
<1> QED
  BY <1>1, <1>4, <1>5

\* Of the messages about a key one is the last.
LEMMA SomeLastMessage ==
  ASSUME NEW s \in Seq(Messages), NEW k
  PROVE  NoneConcerns(s, Len(s), k) \/ \E i : LastConcerns(s, Len(s), k, i)
<1> DEFINE S == {i \in 1..Len(s) : Concerns(s[i], k)}
<1>1. SUFFICES ASSUME ~NoneConcerns(s, Len(s), k) PROVE \E i : LastConcerns(s, Len(s), k, i)
  OBVIOUS
<1>2. Len(s) \in Nat /\ S \in SUBSET (1..Len(s)) /\ S # {}
  BY <1>1 DEF NoneConcerns
<1>3. PICK i \in S : \A j \in S : j <= i
  <2> PICK n \in Nat : n = Len(s)
    BY <1>2
  <2> HIDE DEF S
  <2> QED
    BY <1>2, Largest
<1>4. LastConcerns(s, Len(s), k, i)
  BY <1>2, <1>3 DEF LastConcerns
<1> QED
  BY <1>4

\* Of the events about a key one is the last.
LEMMA SomeLastEvent ==
  ASSUME NEW s \in Seq(Events), NEW k
  PROVE  Silent(s, Len(s), k) \/ \E i : LastOf(s, Len(s), k, i)
<1> DEFINE S == {i \in 1..Len(s) : s[i].key = k}
<1>1. SUFFICES ASSUME ~Silent(s, Len(s), k) PROVE \E i : LastOf(s, Len(s), k, i)
  OBVIOUS
<1>2. Len(s) \in Nat /\ S \in SUBSET (1..Len(s)) /\ S # {}
  BY <1>1 DEF Silent
<1>3. PICK i \in S : \A j \in S : j <= i
  <2> PICK n \in Nat : n = Len(s)
    BY <1>2
  <2> HIDE DEF S
  <2> QED
    BY <1>2, Largest
<1>4. LastOf(s, Len(s), k, i)
  BY <1>2, <1>3 DEF LastOf
<1> QED
  BY <1>4

\* One message more.
LEMMA HeardNext ==
  ASSUME NEW notes \in SUBSET Keys, NEW s \in Seq(Messages), NEW m \in Messages, NEW k \in Keys
  PROVE  /\ Concerns(m, k) =>
              (k \in Sounding(notes, translate_midi_batch(s \o <<m>>)) <=> midi_to_vst3_event(m).on)
         /\ ~Concerns(m, k) =>
              (k \in Sounding(notes, translate_midi_batch(s \o <<m>>)) <=>
               k \in Sounding(notes, translate_midi_batch(s)))
<1>1. PICK r : r = s \o <<m>>
  OBVIOUS
<1>2. /\ r \in Seq(Messages) /\ Len(s) \in Nat /\ Len(r) = Len(s) + 1 /\ r[Len(s) + 1] = m
      /\ \A i \in 1..Len(s) : r[i] = s[i]
  BY <1>1
<1>3. ASSUME Concerns(m, k)
      PROVE  k \in Sounding(notes, translate_midi_batch(r)) <=> midi_to_vst3_event(m).on
  <2>1. LastConcerns(r, Len(r), k, Len(s) + 1)
    BY <1>2, <1>3 DEF LastConcerns
  <2> QED
    BY <1>2, <2>1, HeardLast
<1>4. ASSUME ~Concerns(m, k)
      PROVE  k \in Sounding(notes, translate_midi_batch(r)) <=>
             k \in Sounding(notes, translate_midi_batch(s))
  <2>1. CASE NoneConcerns(s, Len(s), k)
    <3>1. NoneConcerns(r, Len(r), k)
      BY <1>2, <1>4, <2>1 DEF NoneConcerns
    <3> QED
      BY <1>2, <2>1, <3>1, HeardLast
  <2>2. CASE \E i : LastConcerns(s, Len(s), k, i)
    <3>1. PICK i : LastConcerns(s, Len(s), k, i)
      BY <2>2
    <3>2. LastConcerns(r, Len(r), k, i) /\ r[i] = s[i]
      BY <1>2, <1>4, <3>1 DEF LastConcerns
    <3> QED
      BY <1>2, <3>1, <3>2, HeardLast
  <2> QED
    BY <2>1, <2>2, SomeLastMessage
<1> QED
  BY <1>1, <1>3, <1>4
-----------------------------------------------------------------------------
(* The queues that a list of changes makes *)

Start == [queues |-> NoChanges, refused |-> {}]

\* The function that Added is defined with is there.
LEMMA AdditionExists ==
  ASSUME NEW s \in Seq(Changes)
  PROVE  \A m \in 0..Len(s) :
           \E f : f = [n \in 0..m |-> IF n = 0 THEN Start ELSE WithChange(f[n - 1], s[n])]
<1> DEFINE IsAddition(f, m) == f = [n \in 0..m |-> IF n = 0 THEN Start ELSE WithChange(f[n - 1], s[n])]
           T == {m \in 0..Len(s) : ~\E f : IsAddition(f, m)}
<1>1. SUFFICES ASSUME T # {} PROVE FALSE
  OBVIOUS
<1>2. T \in SUBSET Nat
  OBVIOUS
<1>3. PICK m \in T : \A y \in T : m <= y
  <2> HIDE DEF T
  <2> QED
    BY <1>1, <1>2, Smallest
<1>4. m \in 0..Len(s) /\ ~\E f : IsAddition(f, m)
  OBVIOUS
<1>5. CASE m = 0
  <2> DEFINE f == [n \in 0..0 |-> Start]
  <2>1. IsAddition(f, 0)
    OBVIOUS
  <2> QED
    BY <1>4, <1>5, <2>1
<1>6. CASE m # 0
  <2>1. m - 1 \in 0..Len(s) /\ m - 1 \notin T
    <3>1. m - 1 \in 0..Len(s) /\ ~(m <= m - 1)
      BY <1>4, <1>6
    <3> HIDE DEF T
    <3> QED
      BY <1>3, <3>1
  <2>2. PICK g : IsAddition(g, m - 1)
    BY <2>1
  <2> DEFINE f == [n \in 0..m |-> IF n = m THEN WithChange(g[m - 1], s[m]) ELSE g[n]]
  <2>3. \A n \in 0..m : f[n] = IF n = 0 THEN Start ELSE WithChange(f[n - 1], s[n])
    BY <1>4, <1>6, <2>2
  <2>4. IsAddition(f, m)
    BY <2>3
  <2> QED
    BY <1>4, <2>4
<1> QED
  BY <1>5, <1>6

\* The queues of a list of changes are found one change at a time.
LEMMA AdditionStepwise ==
  ASSUME NEW s \in Seq(Changes)
  PROVE  \E f : /\ f[0] = Start /\ Added(s) = f[Len(s)]
                /\ \A n \in 1..Len(s) : f[n] = WithChange(f[n - 1], s[n])
<1>1. Len(s) \in 0..Len(s)
  OBVIOUS
<1>2. \E f : f = [n \in 0..Len(s) |-> IF n = 0 THEN Start ELSE WithChange(f[n - 1], s[n])]
  BY <1>1, AdditionExists
<1>3. \E f : /\ f = [n \in 0..Len(s) |-> IF n = 0 THEN Start ELSE WithChange(f[n - 1], s[n])]
             /\ Added(s) = f[Len(s)]
  BY <1>2, Zenon DEF Added, Start
<1>4. PICK f : /\ f = [n \in 0..Len(s) |-> IF n = 0 THEN Start ELSE WithChange(f[n - 1], s[n])]
               /\ Added(s) = f[Len(s)]
  BY <1>3
<1>5. f[0] = Start /\ \A n \in 1..Len(s) : f[n] = WithChange(f[n - 1], s[n])
  BY <1>1, <1>4
<1> QED
  BY <1>4, <1>5

\* Queues as the block can hold them.
Fits(queues) ==
  /\ DOMAIN queues \subseteq Params /\ IsFiniteSet(DOMAIN queues)
  /\ Cardinality(DOMAIN queues) <= MaxQueues
  /\ \A p \in DOMAIN queues : queues[p] \in Seq(Values) /\ Len(queues[p]) \in 1..MaxPoints

NoneAbout(s, n, p) == \A i \in 1..n : s[i].param # p
LastAbout(s, n, p, i) == i \in 1..n /\ s[i].param = p /\ \A j \in (i + 1)..n : s[j].param # p

\* An empty list is within the limits.
LEMMA NoChangesFit == Fits(NoChanges)
<1>1. DOMAIN NoChanges = {}
  BY DEF NoChanges
<1>2. IsFiniteSet({}) /\ Cardinality({}) = 0
  BY FS_EmptySet
<1>3. 0 <= MaxQueues
  BY AudioEngineAssumption
<1> QED
  BY <1>1, <1>2, <1>3 DEF Fits

\* One change: the limits hold, and it is the last point of its queue unless it
\* is refused.
LEMMA AddChange ==
  ASSUME NEW queues, Fits(queues), NEW c \in Changes
  PROVE  /\ Fits(add_change(queues, c))
         /\ HasRoom(queues, c.param) =>
              /\ c.param \in DOMAIN add_change(queues, c)
              /\ Last(add_change(queues, c)[c.param]) = c.value
         /\ \A q \in Params \ {c.param} :
              /\ q \in DOMAIN add_change(queues, c) <=> q \in DOMAIN queues
              /\ q \in DOMAIN queues => add_change(queues, c)[q] = queues[q]
<1> DEFINE p == c.param
           points == (IF p \in DOMAIN queues THEN queues[p] ELSE <<>>) \o <<c.value>>
           after == [q \in DOMAIN queues \cup {p} |-> IF q = p THEN points ELSE queues[q]]
<1>1. p \in Params /\ c.value \in Values
  BY DEF Changes
<1>2. MaxPoints \in Nat /\ MaxPoints > 0
  BY AudioEngineAssumption
<1>3. CASE ~HasRoom(queues, p)
  BY <1>3 DEF add_change
<1>4. CASE HasRoom(queues, p)
  <2>1. add_change(queues, c) = after
    BY <1>4 DEF add_change
  <2>2. /\ points \in Seq(Values) /\ Len(points) \in 1..MaxPoints
        /\ points[Len(points)] = c.value
    <3>1. CASE p \in DOMAIN queues
      <4>1. PICK r : r = queues[p]
        OBVIOUS
      <4>2. r \in Seq(Values) /\ Len(r) \in Nat /\ Len(r) < MaxPoints
        BY <1>4, <3>1, <4>1 DEF HasRoom, Fits
      <4>3. points = r \o <<c.value>>
        BY <3>1, <4>1
      <4>4. /\ r \o <<c.value>> \in Seq(Values) /\ Len(r \o <<c.value>>) = Len(r) + 1
            /\ (r \o <<c.value>>)[Len(r) + 1] = c.value
        BY <1>1, <4>2
      <4>5. Len(r) + 1 \in 1..MaxPoints
        BY <1>2, <4>2
      <4> HIDE DEF points
      <4> QED
        BY <4>3, <4>4, <4>5
    <3>2. CASE p \notin DOMAIN queues
      <4>1. points = <<c.value>>
        BY <3>2
      <4>2. /\ <<c.value>> \in Seq(Values) /\ Len(<<c.value>>) = 1
            /\ <<c.value>>[1] = c.value
        BY <1>1
      <4>3. 1 \in 1..MaxPoints
        BY <1>2
      <4> HIDE DEF points
      <4> QED
        BY <4>1, <4>2, <4>3
    <3> QED
      BY <3>1, <3>2
  <2> HIDE DEF points
  <2>3. DOMAIN after = DOMAIN queues \cup {p} /\ after[p] = points
        /\ \A q \in DOMAIN queues : q # p => after[q] = queues[q]
    OBVIOUS
  <2>4. IsFiniteSet(DOMAIN after) /\ Cardinality(DOMAIN after) <= MaxQueues
    <3>1. CASE p \in DOMAIN queues
      <4>1. DOMAIN after = DOMAIN queues
        BY <2>3, <3>1
      <4> QED
        BY <4>1 DEF Fits
    <3>2. CASE p \notin DOMAIN queues
      <4>1. Cardinality(DOMAIN queues) < MaxQueues /\ IsFiniteSet(DOMAIN queues)
        BY <1>4, <3>2 DEF HasRoom, Fits
      <4>2. /\ IsFiniteSet(DOMAIN queues \cup {p})
            /\ Cardinality(DOMAIN queues \cup {p}) = Cardinality(DOMAIN queues) + 1
            /\ Cardinality(DOMAIN queues) \in Nat
        BY <3>2, <4>1, FS_AddElement, FS_CardinalityType
      <4> QED
        BY <2>3, <4>1, <4>2, AudioEngineAssumption
    <3> QED
      BY <3>1, <3>2
  <2>5. \A q \in DOMAIN after : after[q] \in Seq(Values) /\ Len(after[q]) \in 1..MaxPoints
    BY <2>2, <2>3 DEF Fits
  <2>6. DOMAIN after \subseteq Params
    BY <1>1, <2>3 DEF Fits
  <2>7. Fits(after)
    BY <2>4, <2>5, <2>6 DEF Fits
  <2>8. Last(after[p]) = c.value
    BY <2>2, <2>3 DEF Last
  <2> HIDE DEF after
  <2> QED
    BY <2>1, <2>3, <2>7, <2>8
<1> QED
  BY <1>3, <1>4

\* All of them: the limits hold, and of a parameter that no change was refused
\* for, the last change is the last point.
LEMMA AddedLast ==
  ASSUME NEW s \in Seq(Changes)
  PROVE  /\ Fits(Added(s).queues)
         /\ Added(s).refused \in SUBSET Params
         /\ \A p \in Params \ Added(s).refused :
              /\ NoneAbout(s, Len(s), p) => p \notin DOMAIN Added(s).queues
              /\ \A i : LastAbout(s, Len(s), p, i) =>
                   /\ p \in DOMAIN Added(s).queues
                   /\ Last(Added(s).queues[p]) = s[i].value
<1>1. PICK f : /\ f[0] = Start /\ Added(s) = f[Len(s)]
               /\ \A n \in 1..Len(s) : f[n] = WithChange(f[n - 1], s[n])
  BY AdditionStepwise
<1> DEFINE Right(n) ==
             /\ Fits(f[n].queues)
             /\ f[n].refused \in SUBSET Params
             /\ \A p \in Params \ f[n].refused :
                  /\ NoneAbout(s, n, p) => p \notin DOMAIN f[n].queues
                  /\ \A i : LastAbout(s, n, p, i) =>
                       /\ p \in DOMAIN f[n].queues
                       /\ Last(f[n].queues[p]) = s[i].value
           T == {n \in 0..Len(s) : ~Right(n)}
<1>2. Len(s) \in Nat
  OBVIOUS
<1>3. ASSUME T # {} PROVE FALSE
  <2>1. T \in SUBSET Nat
    OBVIOUS
  <2>2. PICK m \in T : \A y \in T : m <= y
    <3> HIDE DEF T
    <3> QED
      BY <1>3, <2>1, Smallest
  <2>3. m \in 0..Len(s) /\ ~Right(m)
    OBVIOUS
  <2>4. CASE m = 0
    <3>1. f[0].queues = NoChanges /\ f[0].refused = {} /\ DOMAIN NoChanges = {}
      BY <1>1 DEF Start, NoChanges
    <3>2. \A p, i : ~LastAbout(s, 0, p, i)
      BY DEF LastAbout
    <3>3. Right(0)
      BY <3>1, <3>2, NoChangesFit
    <3> QED
      BY <2>3, <2>4, <3>3
  <2>5. CASE m # 0
    <3>1. m - 1 \in 0..Len(s) /\ ~(m <= m - 1)
      BY <2>3, <2>5
    <3>2. Right(m - 1)
      <4>1. m - 1 \notin T
        <5> HIDE DEF T
        <5> QED
          BY <2>2, <3>1
      <4> QED
        BY <3>1, <4>1
    <3>3. PICK l \in Nat : l = m - 1 /\ m = l + 1
      BY <3>1
    <3>4. m \in 1..Len(s) /\ f[m] = WithChange(f[l], s[m]) /\ Right(l)
      BY <1>1, <2>3, <2>5, <3>2, <3>3
    <3>5. s[m] \in Changes
      BY <3>4, ElementOfSeq
    <3> HIDE DEF T
    <3>6. PICK c : c = s[m]
      OBVIOUS
    <3>7. PICK q : q = f[l].queues
      OBVIOUS
    <3>8. /\ f[m].queues = add_change(q, c)
          /\ f[m].refused = f[l].refused \cup (IF HasRoom(q, c.param) THEN {} ELSE {c.param})
      BY <3>4, <3>6, <3>7 DEF WithChange
    <3>9. c \in Changes /\ c.param \in Params /\ Fits(q)
      BY <3>4, <3>5, <3>6, <3>7 DEF Changes
    <3>10. PICK r : r = add_change(q, c)
      OBVIOUS
    <3>11. /\ Fits(r)
           /\ HasRoom(q, c.param) => c.param \in DOMAIN r /\ Last(r[c.param]) = c.value
           /\ \A p \in Params \ {c.param} :
                (p \in DOMAIN r <=> p \in DOMAIN q) /\ (p \in DOMAIN q => r[p] = q[p])
      BY <3>9, <3>10, AddChange
    <3>12. f[m].refused \in SUBSET Params /\ f[l].refused \subseteq f[m].refused
      BY <3>4, <3>8, <3>9
    <3>13. ASSUME NEW p \in Params \ f[m].refused, NoneAbout(s, m, p) PROVE p \notin DOMAIN r
      <4>1. NoneAbout(s, l, p) /\ p # c.param
        BY <3>3, <3>4, <3>6, <3>13 DEF NoneAbout
      <4>2. p \notin DOMAIN q
        BY <3>4, <3>7, <3>12, <3>13, <4>1
      <4> QED
        BY <3>11, <4>1, <4>2
    <3>14. ASSUME NEW p \in Params \ f[m].refused, NEW i, LastAbout(s, m, p, i)
           PROVE  p \in DOMAIN r /\ Last(r[p]) = s[i].value
      <4>1. CASE i = m
        <5>1. p = c.param
          BY <3>6, <3>14, <4>1 DEF LastAbout
        <5>2. HasRoom(q, c.param)
          BY <3>8, <3>14, <5>1
        <5> QED
          BY <3>6, <3>11, <4>1, <5>1, <5>2
      <4>2. CASE i # m
        <5>1. LastAbout(s, l, p, i) /\ p # c.param
          BY <3>3, <3>6, <3>14, <4>2 DEF LastAbout
        <5>2. p \in DOMAIN q /\ Last(q[p]) = s[i].value
          BY <3>4, <3>7, <3>12, <3>14, <5>1
        <5> QED
          BY <3>11, <3>14, <5>1, <5>2
      <4> QED
        BY <4>1, <4>2
    <3>15. Right(m)
      BY <3>8, <3>10, <3>11, <3>12, <3>13, <3>14
    <3> QED
      BY <2>3, <3>15
  <2> QED
    BY <2>4, <2>5
<1>4. Right(Len(s))
  <2>1. Len(s) \in 0..Len(s)
    BY <1>2
  <2> QED
    BY <1>3, <2>1
<1> QED
  BY <1>1, <1>4

\* Of the changes to a parameter one is the last.
LEMMA SomeLastChange ==
  ASSUME NEW s \in Seq(Changes), NEW p
  PROVE  NoneAbout(s, Len(s), p) \/ \E i : LastAbout(s, Len(s), p, i)
<1> DEFINE S == {i \in 1..Len(s) : s[i].param = p}
<1>1. SUFFICES ASSUME ~NoneAbout(s, Len(s), p) PROVE \E i : LastAbout(s, Len(s), p, i)
  OBVIOUS
<1>2. Len(s) \in Nat /\ S \in SUBSET (1..Len(s)) /\ S # {}
  BY <1>1 DEF NoneAbout
<1>3. PICK i \in S : \A j \in S : j <= i
  <2> PICK n \in Nat : n = Len(s)
    BY <1>2
  <2> HIDE DEF S
  <2> QED
    BY <1>2, Largest
<1>4. LastAbout(s, Len(s), p, i)
  BY <1>2, <1>3 DEF LastAbout
<1> QED
  BY <1>4
-----------------------------------------------------------------------------
(* The inductive invariant *)

FirstSteps == {<<"lock", "push", "set">>, <<"push", "set">>, <<"set", "lock", "push">>}
Todos == FirstSteps \cup {<<"set">>, <<"lock", "push">>, <<"push">>}
ControlTyped == control = Idle \/ control \in [todo : Todos, change : Changes]

MidiTyped == midi = <<>> \/ \E m \in Messages : midi = <<m>>

\* A block that the plugin will be called for starts from silence.
Clean ==
  block.step \in {"params", "process"} =>
    \A i \in 1..MaxBlock : i <= Samples(block.frames) => ~output[i]

\* What the shell has set is what it queues next, unless an edit in the plugin's
\* window came between.
ShellFirst ==
  control.todo \in {<<"lock", "push">>, <<"push">>} =>
    \/ control.change.param \in apart
    \/ controller[control.change.param] = control.change.value

\* The halves agree until the first of them is told, and what the processor was
\* told first is what it will compute with.
Agrees ==
  block.step # "crashed" =>
    \A p \in Params \ apart :
      /\ control.todo = <<"set">> /\ control.change.param = p =>
           Upcoming(p) = control.change.value
      /\ control = Idle \/ control.change.param # p \/ control.todo \in FirstSteps =>
           Upcoming(p) = controller[p]

\* The message under way is about the key as it is now.
MidiIsNews ==
  \A m \in Messages :
    midi = <<m>> /\ m.status # "other" =>
      (m.key \in pressed <=> midi_to_vst3_event(m).on)

IInv ==
  /\ TypeOK /\ ControlTyped /\ MidiTyped
  /\ Clean /\ ShellFirst /\ Agrees
  /\ MidiIsNews /\ NoNoteHangs

-----------------------------------------------------------------------------
(* What the processor will compute with *)

Newest(changes, p) ==
  LET queued == {i \in DOMAIN changes : changes[i].param = p}
  IN  CHOOSE i \in queued : \A j \in queued : j <= i

\* Upcoming as a function of the state it is read from.
Computed(changes, step, queues, values, p) ==
  IF {i \in DOMAIN changes : changes[i].param = p} # {} THEN changes[Newest(changes, p)].value
  ELSE IF step = "process" /\ p \in DOMAIN queues THEN Last(queues[p])
  ELSE values[p]

\* Before a step, and after it.
LEMMA UpcomingIs ==
  ASSUME NEW p
  PROVE  /\ Upcoming(p) = Computed(pending, block.step, param_changes, processor, p)
         /\ Upcoming(p)' = Computed(pending', block'.step, param_changes', processor', p)
BY Zenon DEF Upcoming, Computed, Newest

\* The last change pending decides; with none, what the block holds or the processor has.
LEMMA ComputedLast ==
  ASSUME NEW s \in Seq(Changes), NEW step, NEW queues, NEW values, NEW p
  PROVE  /\ NoneAbout(s, Len(s), p) =>
              Computed(s, step, queues, values, p) =
                IF step = "process" /\ p \in DOMAIN queues THEN Last(queues[p]) ELSE values[p]
         /\ \A i : LastAbout(s, Len(s), p, i) =>
              Computed(s, step, queues, values, p) = s[i].value
<1>1. DOMAIN s = 1..Len(s) /\ Len(s) \in Nat
  OBVIOUS
<1>2. ASSUME NoneAbout(s, Len(s), p)
      PROVE  {i \in DOMAIN s : s[i].param = p} = {}
  BY <1>1, <1>2 DEF NoneAbout
<1>3. ASSUME NEW i, LastAbout(s, Len(s), p, i)
      PROVE  Computed(s, step, queues, values, p) = s[i].value
  <2> DEFINE Q == {j \in DOMAIN s : s[j].param = p}
  <2>1. Q \in SUBSET Nat /\ i \in Q /\ \A j \in Q : j <= i
    BY <1>1, <1>3 DEF LastAbout
  <2>2. PICK x : x = CHOOSE j \in Q : \A y \in Q : y <= j
    OBVIOUS
  <2>3. Newest(s, p) = x
    BY <2>2 DEF Newest
  <2> HIDE DEF Q
  <2>4. x \in Q /\ \A y \in Q : y <= x
    BY <2>1, <2>2
  <2>5. x = i
    <3>1. x \in Nat /\ i \in Nat /\ x <= i /\ i <= x
      BY <2>1, <2>4
    <3> QED
      BY <3>1
  <2>6. Q # {}
    BY <2>1
  <2> QED
    BY <2>3, <2>5, <2>6 DEF Computed, Q
<1> QED
  BY <1>2, <1>3 DEF Computed

\* A change more.
LEMMA ComputedNext ==
  ASSUME NEW s \in Seq(Changes), NEW c \in Changes, NEW step, NEW queues, NEW values
  PROVE  /\ Append(s, c) \in Seq(Changes)
         /\ Computed(Append(s, c), step, queues, values, c.param) = c.value
         /\ \A p : p # c.param =>
              Computed(Append(s, c), step, queues, values, p) =
              Computed(s, step, queues, values, p)
<1>1. PICK r : r = Append(s, c)
  OBVIOUS
<1>2. /\ r \in Seq(Changes) /\ Len(s) \in Nat /\ Len(r) = Len(s) + 1 /\ r[Len(s) + 1] = c
      /\ \A i \in 1..Len(s) : r[i] = s[i]
  BY <1>1
<1>3. Computed(r, step, queues, values, c.param) = c.value
  <2>1. LastAbout(r, Len(r), c.param, Len(s) + 1)
    BY <1>2 DEF LastAbout
  <2> QED
    BY <1>2, <2>1, ComputedLast
<1>4. ASSUME NEW p, p # c.param
      PROVE  Computed(r, step, queues, values, p) = Computed(s, step, queues, values, p)
  <2>1. CASE NoneAbout(s, Len(s), p)
    <3>1. NoneAbout(r, Len(r), p)
      BY <1>2, <1>4, <2>1 DEF NoneAbout
    <3> QED
      BY <1>2, <2>1, <3>1, ComputedLast
  <2>2. CASE \E i : LastAbout(s, Len(s), p, i)
    <3>1. PICK i : LastAbout(s, Len(s), p, i)
      BY <2>2
    <3>2. LastAbout(r, Len(r), p, i) /\ r[i] = s[i]
      BY <1>2, <1>4, <3>1 DEF LastAbout
    <3> QED
      BY <1>2, <3>1, <3>2, ComputedLast
  <2> QED
    BY <2>1, <2>2, SomeLastChange
<1> QED
  BY <1>1, <1>2, <1>3, <1>4
-----------------------------------------------------------------------------
(* The control thread *)

\* What is left of a change after each of its steps.
LEMMA TodoFacts ==
  /\ \A t \in Todos :
       /\ t # <<>>
       /\ Head(t) = "lock" =>
            \/ t = <<"lock", "push", "set">> /\ Len(t) = 3 /\ Tail(t) = <<"push", "set">>
            \/ t = <<"lock", "push">> /\ Len(t) = 2 /\ Tail(t) = <<"push">>
       /\ Head(t) = "push" =>
            \/ t = <<"push", "set">> /\ Len(t) = 2 /\ Tail(t) = <<"set">>
            \/ t = <<"push">> /\ Len(t) = 1
       /\ Head(t) = "set" =>
            \/ t = <<"set", "lock", "push">> /\ Len(t) = 3 /\ Tail(t) = <<"lock", "push">>
            \/ t = <<"set">> /\ Len(t) = 1
  /\ <<"set">> \notin FirstSteps
  /\ <<"lock", "push">> \notin FirstSteps \cup {<<"set">>}
  /\ <<"push">> \notin FirstSteps \cup {<<"set">>}
  /\ <<>> \notin Todos
<1>1. ASSUME NEW t \in Todos
      PROVE  \/ t = <<"lock", "push", "set">> /\ Head(t) = "lock" /\ Len(t) = 3 /\ Tail(t) = <<"push", "set">>
             \/ t = <<"push", "set">> /\ Head(t) = "push" /\ Len(t) = 2 /\ Tail(t) = <<"set">>
             \/ t = <<"set">> /\ Head(t) = "set" /\ Len(t) = 1
             \/ t = <<"set", "lock", "push">> /\ Head(t) = "set" /\ Len(t) = 3 /\ Tail(t) = <<"lock", "push">>
             \/ t = <<"lock", "push">> /\ Head(t) = "lock" /\ Len(t) = 2 /\ Tail(t) = <<"push">>
             \/ t = <<"push">> /\ Head(t) = "push" /\ Len(t) = 1
  <2>1. \/ t = <<"lock", "push", "set">> \/ t = <<"push", "set">> \/ t = <<"set">>
        \/ t = <<"set", "lock", "push">> \/ t = <<"lock", "push">> \/ t = <<"push">>
    BY DEF Todos, FirstSteps
  <2>2. CASE t = <<"lock", "push", "set">>
    <3>1. Head(t) = "lock" /\ Len(t) = 3 /\ Tail(t) = <<"push", "set">>
      BY <2>2
    <3> QED
      BY <2>2, <3>1
  <2>3. CASE t = <<"push", "set">>
    <3>1. Head(t) = "push" /\ Len(t) = 2 /\ Tail(t) = <<"set">>
      BY <2>3
    <3> QED
      BY <2>3, <3>1
  <2>4. CASE t = <<"set">>
    BY <2>4
  <2>5. CASE t = <<"set", "lock", "push">>
    <3>1. Head(t) = "set" /\ Len(t) = 3 /\ Tail(t) = <<"lock", "push">>
      BY <2>5
    <3> QED
      BY <2>5, <3>1
  <2>6. CASE t = <<"lock", "push">>
    <3>1. Head(t) = "lock" /\ Len(t) = 2 /\ Tail(t) = <<"push">>
      BY <2>6
    <3> QED
      BY <2>6, <3>1
  <2>7. CASE t = <<"push">>
    BY <2>7
  <2> QED
    BY <2>1, <2>2, <2>3, <2>4, <2>5, <2>6, <2>7
<1>2. \A t \in Todos : t # <<>>
  BY DEF Todos, FirstSteps
<1>3. "lock" # "push" /\ "lock" # "set" /\ "push" # "set"
  OBVIOUS
<1>4. /\ <<"set">> \notin FirstSteps
      /\ <<"lock", "push">> \notin FirstSteps \cup {<<"set">>}
      /\ <<"push">> \notin FirstSteps \cup {<<"set">>}
  BY DEF FirstSteps
<1> QED
  BY <1>1, <1>2, <1>3, <1>4

\* What the control thread is at, and what a step leaves it to do.
LEMMA DoesFacts ==
  ASSUME ControlTyped, NEW step, Does(step)
  PROVE  /\ control \in [todo : Todos, change : Changes]
         /\ control.change.param \in Params /\ control.change.value \in Values
         /\ control.todo \in Todos /\ Head(control.todo) = step
         /\ Done => IF Len(control.todo) = 1 THEN control' = Idle
                    ELSE control' = [todo |-> Tail(control.todo), change |-> control.change]
<1>1. control # Idle
  BY DEF Does, Idle
<1>2. control \in [todo : Todos, change : Changes]
  BY <1>1 DEF ControlTyped
<1>3. control.change \in Changes
  BY <1>2
<1> QED
  BY <1>2, <1>3 DEF Does, Done, Changes

\* Nothing about the parameters changes, and the plugin has been called or not.
LEMMA ParametersKept ==
  ASSUME ShellFirst, Agrees, UNCHANGED paramVars,
         block'.step = "process" <=> block.step = "process",
         block'.step # "crashed" => block.step # "crashed"
  PROVE  ShellFirst' /\ Agrees'
<1>1. ASSUME NEW p PROVE Upcoming(p)' = Upcoming(p)
  BY UpcomingIs DEF paramVars, Computed
<1> QED
  BY <1>1 DEF ShellFirst, Agrees, paramVars

\* Nothing about the notes changes.
LEMMA NotesKept ==
  ASSUME MidiIsNews, NoNoteHangs, UNCHANGED noteVars,
         block'.step = "waiting" <=> block.step = "waiting",
         block'.step # "crashed" => block.step # "crashed"
  PROVE  MidiIsNews' /\ NoNoteHangs'
<1>1. UpcomingNotes' = UpcomingNotes
  BY DEF UpcomingNotes, Delivered, noteVars
<1> QED
  BY <1>1 DEF MidiIsNews, NoNoteHangs, noteVars

\* Nothing about the block changes.
LEMMA CleanKept ==
  ASSUME Clean, UNCHANGED blockVars
  PROVE  Clean'
BY DEF Clean, blockVars

\* A step that changes nothing.
LEMMA NothingHappens ==
  ASSUME IInv, UNCHANGED vars
  PROVE  IInv'
<1>1. TypeOK' /\ ControlTyped' /\ MidiTyped'
  BY DEF IInv, TypeOK, ControlTyped, MidiTyped, vars, paramVars, noteVars, blockVars
<1>2. /\ UNCHANGED <<paramVars, noteVars, blockVars>>
      /\ block'.step = block.step
  BY DEF vars, blockVars
<1>3. Clean'
  BY <1>2, CleanKept DEF IInv
<1>4. ShellFirst' /\ Agrees'
  BY <1>2, ParametersKept DEF IInv
<1>5. MidiIsNews' /\ NoNoteHangs'
  BY <1>2, NotesKept DEF IInv
<1> QED
  BY <1>1, <1>3, <1>4, <1>5 DEF IInv

\* A step of the control thread leaves the notes and the block alone.
LEMMA ControlOnly ==
  ASSUME IInv, UNCHANGED <<noteVars, blockVars>>
  PROVE  Clean' /\ MidiIsNews' /\ NoNoteHangs' /\ MidiTyped'
<1>1. block'.step = block.step
  BY DEF blockVars
<1> QED
  BY <1>1, CleanKept, NotesKept DEF IInv, MidiTyped, noteVars, blockVars

\* What the processor will compute with changes with the list, the block and the processor only.
LEMMA UpcomingSame ==
  ASSUME UNCHANGED <<pending, param_changes, processor, block>>, NEW p
  PROVE  Upcoming(p)' = Upcoming(p)
BY UpcomingIs DEF Computed

\* A change begins: neither half has been told.
LEMMA ChangeParameterStep ==
  ASSUME IInv, NEW p \in Params, NEW v \in Values, ChangeParameter(p, v)
  PROVE  IInv'
<1> DEFINE c == [param |-> p, value |-> v]
<1>1. /\ c \in Changes
      /\ \E t \in FirstSteps : control' = [todo |-> t, change |-> c]
      /\ control = Idle
      /\ UNCHANGED <<setup, pending, controller, processor, param_changes, apart, noteVars, blockVars>>
  BY DEF ChangeParameter, Changes, set_parameter, cmd_set, FirstSteps
<1>2. PICK t \in FirstSteps : control' = [todo |-> t, change |-> c]
  BY <1>1
<1> HIDE DEF c
<1>3. t \in Todos /\ control'.todo = t /\ control'.change = c
  BY <1>2 DEF Todos
<1>4. TypeOK' /\ ControlTyped'
  <2>1. ControlTyped' /\ control'.change \in Changes
    BY <1>1, <1>2, <1>3 DEF ControlTyped
  <2> QED
    BY <1>1, <2>1 DEF IInv, TypeOK, noteVars, blockVars
<1>5. Clean' /\ MidiIsNews' /\ NoNoteHangs' /\ MidiTyped'
  BY <1>1, ControlOnly
<1>6. ShellFirst'
  BY <1>3, TodoFacts DEF ShellFirst
<1>7. ASSUME NEW q \in Params \ apart', block'.step # "crashed"
      PROVE  control'.todo # <<"set">> /\ Upcoming(q)' = controller'[q]
  <2>1. Upcoming(q)' = Upcoming(q) /\ block'.step = block.step /\ apart' = apart
    BY <1>1, UpcomingSame DEF blockVars
  <2>2. Upcoming(q) = controller[q]
    BY <1>1, <1>7, <2>1 DEF IInv, Agrees
  <2> QED
    BY <1>1, <1>3, <2>1, <2>2, TodoFacts
<1>8. Agrees'
  BY <1>7 DEF Agrees
<1> QED
  BY <1>4, <1>5, <1>6, <1>8 DEF IInv

\* An edit in the plugin's window sets the halves apart.
LEMMA PerformEditStep ==
  ASSUME IInv, NEW p \in Params, NEW v \in Values, PerformEdit(p, v)
  PROVE  IInv'
<1>1. /\ controller' = [controller EXCEPT ![p] = v]
      /\ apart' = apart \cup {p}
      /\ UNCHANGED <<setup, control, pending, processor, param_changes, noteVars, blockVars>>
  BY DEF PerformEdit
<1>2. TypeOK' /\ ControlTyped'
  BY <1>1 DEF IInv, TypeOK, ControlTyped, noteVars, blockVars
<1>3. Clean' /\ MidiIsNews' /\ NoNoteHangs' /\ MidiTyped'
  BY <1>1, ControlOnly
<1>4. \A q \in Params \ apart' : q \notin apart /\ controller'[q] = controller[q]
  BY <1>1 DEF IInv, TypeOK
<1>5. ShellFirst'
  <2>1. SUFFICES ASSUME control.todo \in {<<"lock", "push">>, <<"push">>}, control.change.param \notin apart'
                 PROVE  controller'[control.change.param] = control.change.value
    BY <1>1 DEF ShellFirst
  <2>2. control.todo # <<>>
    BY <2>1
  <2>3. control.change.param \in Params
    BY <2>2 DEF IInv, ControlTyped, Idle, Changes
  <2>4. controller[control.change.param] = control.change.value
    BY <1>4, <2>1, <2>3 DEF IInv, ShellFirst
  <2> QED
    BY <1>4, <2>1, <2>3, <2>4
<1>6. \A q : Upcoming(q)' = Upcoming(q)
  BY <1>1, UpcomingSame DEF blockVars
<1>7. Agrees'
  BY <1>1, <1>4, <1>6 DEF IInv, Agrees, blockVars
<1> QED
  BY <1>2, <1>3, <1>5, <1>7 DEF IInv

\* The mutex is taken: nothing of the values changes.
LEMMA LockPendingStep ==
  ASSUME IInv, LockPending
  PROVE  IInv'
<1>1. /\ Does("lock") /\ Done
      /\ UNCHANGED <<setup, pending, controller, processor, param_changes, apart, noteVars, blockVars>>
  BY DEF LockPending
<1>2. /\ control \in [todo : Todos, change : Changes] /\ control.todo \in Todos
      /\ \/ /\ control.todo = <<"lock", "push", "set">>
            /\ control' = [todo |-> <<"push", "set">>, change |-> control.change]
         \/ /\ control.todo = <<"lock", "push">>
            /\ control' = [todo |-> <<"push">>, change |-> control.change]
  <2>1. /\ control \in [todo : Todos, change : Changes] /\ control.todo \in Todos
        /\ Head(control.todo) = "lock"
        /\ IF Len(control.todo) = 1 THEN control' = Idle
           ELSE control' = [todo |-> Tail(control.todo), change |-> control.change]
    BY <1>1, DoesFacts DEF IInv
  <2>2. PICK t \in Todos : t = control.todo
    BY <2>1
  <2>3. \/ t = <<"lock", "push", "set">> /\ Len(t) = 3 /\ Tail(t) = <<"push", "set">>
        \/ t = <<"lock", "push">> /\ Len(t) = 2 /\ Tail(t) = <<"push">>
    BY <2>1, <2>2, TodoFacts
  <2>4. Len(t) # 1
    BY <2>3
  <2>5. control' = [todo |-> Tail(t), change |-> control.change]
    BY <2>1, <2>2, <2>4
  <2> QED
    BY <2>1, <2>2, <2>3, <2>5
<1>3. TypeOK' /\ ControlTyped'
  <2>1. control' \in [todo : Todos, change : Changes]
    BY <1>2 DEF Todos, FirstSteps
  <2> QED
    BY <1>1, <2>1 DEF IInv, TypeOK, ControlTyped, noteVars, blockVars
<1>4. Clean' /\ MidiIsNews' /\ NoNoteHangs' /\ MidiTyped'
  BY <1>1, ControlOnly
<1>5. \A q : Upcoming(q)' = Upcoming(q)
  BY <1>1, UpcomingSame DEF blockVars
<1>6. control # Idle /\ control' # Idle
  BY <1>2 DEF Idle
<1>7. CASE control.todo = <<"lock", "push", "set">>
  <2>1. /\ control'.todo = <<"push", "set">> /\ control'.change = control.change
        /\ control.todo \in FirstSteps /\ control'.todo \in FirstSteps
    BY <1>2, <1>7, TodoFacts DEF FirstSteps
  <2>2. ShellFirst'
    BY <2>1, TodoFacts DEF ShellFirst
  <2>3. Agrees'
    BY <1>1, <1>5, <1>6, <2>1, TodoFacts DEF IInv, Agrees, blockVars
  <2> QED
    BY <1>3, <1>4, <2>2, <2>3 DEF IInv
<1>8. CASE control.todo = <<"lock", "push">>
  <2>1. control'.todo = <<"push">> /\ control'.change = control.change
    BY <1>2, <1>8
  <2>2. ShellFirst'
    BY <1>1, <1>8, <2>1 DEF IInv, ShellFirst
  <2>3. Agrees'
    BY <1>1, <1>5, <1>6, <1>8, <2>1, TodoFacts DEF IInv, Agrees, blockVars
  <2> QED
    BY <1>3, <1>4, <2>2, <2>3 DEF IInv
<1> QED
  BY <1>2, <1>7, <1>8

\* The change is the newest now: the GUI sets the controller next, the shell has set it.
LEMMA PushPendingStep ==
  ASSUME IInv, PushPending
  PROVE  IInv'
<1>0. PICK c, p : c = control.change /\ p = control.change.param
  OBVIOUS
<1>1. /\ Does("push") /\ Done
      /\ pending' = Append(pending, c)
      /\ apart' = IF Len(control.todo) = 1 /\ controller[p] # c.value THEN apart ELSE apart \ {p}
      /\ UNCHANGED <<setup, controller, processor, param_changes, noteVars, blockVars>>
  BY <1>0 DEF PushPending
<1>2. /\ c \in Changes /\ p \in Params
      /\ \/ /\ control.todo = <<"push", "set">> /\ Len(control.todo) = 2
            /\ control' = [todo |-> <<"set">>, change |-> c]
         \/ /\ control.todo = <<"push">> /\ Len(control.todo) = 1
            /\ control' = Idle
  <2>1. /\ control \in [todo : Todos, change : Changes] /\ control.todo \in Todos
        /\ Head(control.todo) = "push" /\ c \in Changes /\ p \in Params
        /\ IF Len(control.todo) = 1 THEN control' = Idle
           ELSE control' = [todo |-> Tail(control.todo), change |-> c]
    BY <1>0, <1>1, DoesFacts DEF IInv
  <2>2. PICK t \in Todos : t = control.todo
    BY <2>1
  <2>3. \/ t = <<"push", "set">> /\ Len(t) = 2 /\ Tail(t) = <<"set">>
        \/ t = <<"push">> /\ Len(t) = 1
    BY <2>1, <2>2, TodoFacts
  <2>4. CASE t = <<"push", "set">> /\ Len(t) = 2 /\ Tail(t) = <<"set">>
    <3>1. control' = [todo |-> Tail(t), change |-> c]
      BY <2>1, <2>2, <2>4
    <3> QED
      BY <2>1, <2>2, <2>4, <3>1
  <2>5. CASE t = <<"push">> /\ Len(t) = 1
    BY <2>1, <2>2, <2>5
  <2> QED
    BY <2>3, <2>4, <2>5
<1>3. pending \in Seq(Changes) /\ controller \in [Params -> Values]
  BY DEF IInv, TypeOK
<1>4. /\ pending' \in Seq(Changes)
      /\ Upcoming(p)' = c.value
      /\ \A q : q # p => Upcoming(q)' = Upcoming(q)
  <2>1. PICK x : x = pending'
    OBVIOUS
  <2>2. /\ x \in Seq(Changes)
        /\ Computed(x, block.step, param_changes, processor, p) = c.value
        /\ \A q : q # p => Computed(x, block.step, param_changes, processor, q) =
                           Computed(pending, block.step, param_changes, processor, q)
    BY <1>1, <1>0, <1>2, <1>3, <2>1, ComputedNext
  <2>3. block'.step = block.step
    BY <1>1 DEF blockVars
  <2> QED
    BY <1>1, <2>1, <2>2, <2>3, UpcomingIs
<1>5. TypeOK' /\ ControlTyped'
  <2>1. control' = Idle \/ control' \in [todo : Todos, change : Changes]
    BY <1>2 DEF Todos, FirstSteps
  <2>2. apart' \subseteq Params
    BY <1>1 DEF IInv, TypeOK
  <2> QED
    BY <1>1, <1>4, <2>1, <2>2 DEF IInv, TypeOK, ControlTyped, noteVars, blockVars
<1>6. Clean' /\ MidiIsNews' /\ NoNoteHangs' /\ MidiTyped'
  BY <1>1, ControlOnly
<1>7. block'.step = block.step /\ control # Idle
  BY <1>1 DEF blockVars, Idle, Does
<1>8. CASE control.todo = <<"push", "set">> /\ Len(control.todo) = 2
           /\ control' = [todo |-> <<"set">>, change |-> c]
  <2>1. /\ control'.todo = <<"set">> /\ control'.change = c
        /\ control.todo \in FirstSteps
        /\ apart' = apart \ {p}
        /\ control' # Idle
    BY <1>1, <1>8, TodoFacts DEF FirstSteps, Idle
  <2>2. ShellFirst'
    BY <2>1, TodoFacts DEF ShellFirst
  <2>3. c.param = p
    BY <1>0
  <2>4. ASSUME NEW q \in Params \ apart', block'.step # "crashed"
        PROVE  /\ q = p => Upcoming(q)' = c.value
               /\ q # p => Upcoming(q)' = controller'[q]
    <3>1. q = p => Upcoming(q)' = c.value
      BY <1>4
    <3>2. ASSUME q # p PROVE Upcoming(q)' = controller'[q]
      <4>1. q \notin apart
        BY <2>1, <2>4, <3>2
      <4>2. Upcoming(q) = controller[q]
        BY <1>7, <2>1, <2>4, <4>1 DEF IInv, Agrees
      <4> QED
        BY <1>1, <1>4, <3>2, <4>2
    <3> QED
      BY <3>1, <3>2
  <2>5. Agrees'
    BY <2>1, <2>3, <2>4, TodoFacts DEF Agrees
  <2> QED
    BY <1>5, <1>6, <2>2, <2>5 DEF IInv
<1>9. CASE control.todo = <<"push">> /\ Len(control.todo) = 1 /\ control' = Idle
  <2>1. ShellFirst'
    BY <1>9, TodoFacts DEF ShellFirst, Idle, Todos
  <2>2. controller[p] # c.value => p \in apart /\ apart' = apart
    BY <1>0, <1>1, <1>9 DEF IInv, ShellFirst
  <2>3. ASSUME NEW q \in Params \ apart', block'.step # "crashed"
        PROVE  Upcoming(q)' = controller'[q]
    <3>1. CASE q = p
      BY <1>1, <1>4, <2>2, <2>3, <3>1
    <3>2. CASE q # p
      BY <1>0, <1>1, <1>4, <1>7, <2>3, <3>2 DEF IInv, Agrees
    <3> QED
      BY <3>1, <3>2
  <2>4. control'.todo # <<"set">>
    BY <1>9 DEF Idle
  <2>5. Agrees'
    BY <2>3, <2>4 DEF Agrees
  <2> QED
    BY <1>5, <1>6, <2>1, <2>5 DEF IInv
<1> QED
  BY <1>2, <1>8, <1>9

\* The controller takes the change or refuses it.
LEMMA SetNormalizedStep ==
  ASSUME IInv, SetNormalized
  PROVE  IInv'
<1> DEFINE c == control.change
           p == control.change.param
<1>1. /\ Does("set")
      /\ \/ /\ controller' = [controller EXCEPT ![p] = c.value]
            /\ Done
            /\ UNCHANGED apart
         \/ /\ control' = Idle
            /\ apart' = IF Len(control.todo) = 1 THEN apart \cup {p} ELSE apart
            /\ UNCHANGED controller
      /\ UNCHANGED <<setup, pending, processor, param_changes, noteVars, blockVars>>
  BY DEF SetNormalized
<1>2. /\ control.todo \in Todos /\ c \in Changes /\ p \in Params /\ c.value \in Values
      /\ Head(control.todo) = "set"
      /\ Done => IF Len(control.todo) = 1 THEN control' = Idle
                 ELSE control' = [todo |-> Tail(control.todo), change |-> c]
  BY <1>1, DoesFacts DEF IInv, Changes
<1> HIDE DEF c
<1>3. PICK t \in Todos : t = control.todo
  BY <1>2
<1>4. \/ t = <<"set", "lock", "push">> /\ Len(t) = 3 /\ Tail(t) = <<"lock", "push">>
      \/ t = <<"set">> /\ Len(t) = 1
  BY <1>2, <1>3, TodoFacts
<1>5. Clean' /\ MidiIsNews' /\ NoNoteHangs' /\ MidiTyped'
  BY <1>1, ControlOnly
<1>6. block'.step = block.step /\ control # Idle /\ \A q : Upcoming(q)' = Upcoming(q)
  BY <1>1, <1>2, UpcomingSame DEF blockVars, Idle, Todos, FirstSteps
<1>7. controller \in [Params -> Values] /\ c.param = p
  BY DEF IInv, TypeOK, c
<1>8. CASE control' = Idle
  <2>1. ShellFirst' /\ control'.todo # <<"set">>
    BY <1>8 DEF ShellFirst, Idle
  <2>2. TypeOK' /\ ControlTyped'
    <3>1. controller' \in [Params -> Values] /\ apart' \subseteq Params
      BY <1>1, <1>2, <1>7 DEF IInv, TypeOK
    <3> QED
      BY <1>1, <1>8, <3>1 DEF IInv, TypeOK, ControlTyped, noteVars, blockVars
  <2>3. ASSUME NEW q \in Params \ apart', block'.step # "crashed"
        PROVE  Upcoming(q)' = controller'[q]
    <3>1. CASE q # p
      <4>1. q \notin apart /\ controller'[q] = controller[q]
        BY <1>1, <1>2, <1>7, <2>3, <3>1
      <4> QED
        BY <1>6, <2>3, <3>1, <4>1 DEF IInv, Agrees
    <3>2. CASE q = p /\ t = <<"set", "lock", "push">> /\ Len(t) = 3
      <4>1. q \notin apart /\ controller'[q] = controller[q]
        <5>1. ~Done
          <6>1. Done => control' = [todo |-> Tail(control.todo), change |-> c]
            BY <1>2, <1>3, <3>2
          <6>2. control' # [todo |-> Tail(control.todo), change |-> c]
            BY <1>3, <1>4, <1>8, <3>2 DEF Idle
          <6> QED
            BY <6>1, <6>2
        <5> QED
          BY <1>1, <1>3, <2>3, <3>2, <5>1
      <4>2. control.todo \in FirstSteps
        BY <1>3, <3>2 DEF FirstSteps
      <4> QED
        BY <1>6, <2>3, <4>1, <4>2 DEF IInv, Agrees
    <3>3. CASE q = p /\ t = <<"set">> /\ Len(t) = 1
      <4>1. controller'[q] = c.value /\ q \notin apart
        BY <1>1, <1>3, <1>7, <2>3, <3>3
      <4>2. Upcoming(q) = c.value
        BY <1>3, <1>6, <1>7, <2>3, <3>3, <4>1 DEF IInv, Agrees, c
      <4> QED
        BY <1>6, <4>1, <4>2
    <3> QED
      BY <1>4, <3>1, <3>2, <3>3
  <2>4. Agrees'
    BY <2>1, <2>3 DEF Agrees
  <2> QED
    BY <1>5, <2>1, <2>2, <2>4 DEF IInv
<1>9. CASE control' # Idle
  <2>1. /\ Done /\ controller' = [controller EXCEPT ![p] = c.value] /\ apart' = apart
    BY <1>1, <1>9
  <2>2. t = <<"set", "lock", "push">> /\ control' = [todo |-> <<"lock", "push">>, change |-> c]
    BY <1>2, <1>3, <1>4, <1>9, <2>1
  <2>3. /\ control'.todo = <<"lock", "push">> /\ control'.change = c
        /\ controller' \in [Params -> Values] /\ controller'[p] = c.value
        /\ \A q \in Params : q # p => controller'[q] = controller[q]
    BY <1>2, <1>7, <2>1, <2>2
  <2>4. TypeOK' /\ ControlTyped'
    <3>1. control' \in [todo : Todos, change : Changes]
      BY <1>2, <2>2 DEF Todos
    <3> QED
      BY <1>1, <1>2, <2>1, <2>3, <3>1 DEF IInv, TypeOK, ControlTyped, noteVars, blockVars
  <2>5. ShellFirst'
    BY <1>7, <2>3 DEF ShellFirst
  <2>6. ASSUME NEW q \in Params \ apart', block'.step # "crashed", q # p
        PROVE  Upcoming(q)' = controller'[q]
    BY <1>6, <2>1, <2>3, <2>6 DEF IInv, Agrees
  <2>7. control'.todo # <<"set">> /\ control'.todo \notin FirstSteps /\ control'.change.param = p
    BY <1>7, <2>3, TodoFacts
  <2>8. Agrees'
    BY <1>9, <2>6, <2>7 DEF Agrees
  <2> QED
    BY <1>5, <2>4, <2>5, <2>8 DEF IInv
<1> QED
  BY <1>8, <1>9

\* A preset is in both halves but where a change is pending or the controller refused it.
LEMMA LoadStateStep ==
  ASSUME IInv, NEW state \in [Params -> Values], LoadState(state)
  PROVE  IInv'
<1>1. /\ control = Idle /\ block.step = "waiting"
      /\ processor' = state
      /\ \/ controller' = state /\ apart' = {pending[i].param : i \in DOMAIN pending}
         \/ UNCHANGED controller /\ apart' = Params
      /\ UNCHANGED <<setup, control, pending, param_changes, noteVars, blockVars>>
  BY DEF LoadState
<1>2. pending \in Seq(Changes)
  BY DEF IInv, TypeOK
<1>3. TypeOK' /\ ControlTyped'
  <2>1. \A i \in DOMAIN pending : pending[i].param \in Params
    <3>1. \A i \in DOMAIN pending : pending[i] \in Changes
      BY <1>2
    <3> QED
      BY <3>1 DEF Changes
  <2>2. apart' \subseteq Params
    BY <1>1, <2>1
  <2> QED
    BY <1>1, <2>2 DEF IInv, TypeOK, ControlTyped, noteVars, blockVars
<1>4. Clean' /\ MidiIsNews' /\ NoNoteHangs' /\ MidiTyped'
  BY <1>1, ControlOnly
<1>5. control' = Idle /\ control'.todo = <<>>
  BY <1>1 DEF Idle
<1>6. ShellFirst'
  BY <1>5 DEF ShellFirst
<1>7. ASSUME NEW q \in Params \ apart'
      PROVE  Upcoming(q)' = controller'[q]
  <2>1. controller' = state /\ apart' = {pending[i].param : i \in DOMAIN pending}
    BY <1>1, <1>7
  <2>2. NoneAbout(pending, Len(pending), q)
    BY <1>2, <1>7, <2>1 DEF NoneAbout
  <2>3. Computed(pending, "waiting", param_changes, state, q) = state[q]
    BY <1>2, <2>2, ComputedLast
  <2> QED
    BY <1>1, <2>1, <2>3, UpcomingIs DEF blockVars
<1>8. Agrees'
  BY <1>5, <1>7 DEF Agrees
<1> QED
  BY <1>3, <1>4, <1>6, <1>8 DEF IInv
-----------------------------------------------------------------------------
(* The MIDI thread *)

\* What the plugin has been given and has not played is the block's.
Given == IF Delivered THEN sounding ELSE Sounding(sounding, event_list)

\* They are keys.
LEMMA GivenTyped ==
  ASSUME IInv
  PROVE  Given \in SUBSET Keys
<1>1. sounding \in SUBSET Keys /\ event_list \in Seq(Events)
  BY DEF IInv, TypeOK
<1> QED
  BY <1>1, SoundingLast DEF Given

\* A step of the MIDI thread leaves the parameters and the block alone.
LEMMA MidiOnly ==
  ASSUME IInv, UNCHANGED <<paramVars, event_list, sounding, blockVars>>
  PROVE  Clean' /\ ShellFirst' /\ Agrees' /\ ControlTyped' /\ Given' = Given /\ block' = block
<1>1. block' = block
  BY DEF blockVars
<1> QED
  BY <1>1, CleanKept, ParametersKept DEF IInv, ControlTyped, Given, Delivered, paramVars, blockVars

\* The fields of a message about a note.
LEMMA MessageCases ==
  ASSUME NEW m \in Messages, m.status # "other"
  PROVE  m.status \in {"on", "off"} /\ m.key \in Keys /\ m.velocity \in {0, 1}
<1>1. m \in [status : {"on", "off"}, key : Keys, velocity : {0, 1}]
  BY DEF Messages
<1> QED
  BY <1>1

\* The keyboard and the message under way change together.
LEMMA ArrivesStep ==
  ASSUME IInv, NEW m \in Messages, Arrives(m)
  PROVE  IInv'
<1>1. /\ midi = <<>> /\ midi' = <<m>> /\ Plays(m)
      /\ UNCHANGED <<setup, paramVars, buffer, event_list, sounding, missed, blockVars>>
  BY DEF Arrives
<1>2. m.status # "other" =>
        pressed' = IF midi_to_vst3_event(m).on THEN pressed \cup {m.key} ELSE pressed \ {m.key}
  <2>1. SUFFICES ASSUME m.status # "other"
                 PROVE  pressed' = IF midi_to_vst3_event(m).on THEN pressed \cup {m.key} ELSE pressed \ {m.key}
    OBVIOUS
  <2>2. midi_to_vst3_event(m).on <=> m.status = "on" /\ m.velocity # 0
    BY DEF midi_to_vst3_event
  <2>3. \/ m.status = "on" /\ m.velocity = 1 /\ pressed' = pressed \cup {m.key}
        \/ m.velocity = 0 /\ pressed' = pressed \ {m.key}
    BY <1>1, <2>1 DEF Plays
  <2> QED
    BY <2>2, <2>3
<1>3. m.status = "other" => pressed' = pressed
  BY <1>1 DEF Plays
<1>4. /\ Clean' /\ ShellFirst' /\ Agrees' /\ ControlTyped'
      /\ Given' = Given /\ block' = block
  BY <1>1, MidiOnly
<1>5. TypeOK' /\ MidiTyped'
  <2>1. pressed' \subseteq Keys
    BY <1>2, <1>3, MessageCases DEF IInv, TypeOK
  <2>2. <<m>> \in Seq(Messages)
    OBVIOUS
  <2> QED
    BY <1>1, <2>1, <2>2 DEF IInv, TypeOK, MidiTyped, paramVars, blockVars
<1>6. MidiIsNews'
  <2>1. ASSUME NEW n \in Messages, midi' = <<n>>, n.status # "other"
        PROVE  n.key \in pressed' <=> midi_to_vst3_event(n).on
    <3>1. n = m
      BY <1>1, <2>1
    <3>2. midi_to_vst3_event(m).on \in BOOLEAN
      BY <2>1, <3>1, MessageFacts
    <3> QED
      BY <1>2, <2>1, <3>1, <3>2
  <2> QED
    BY <2>1 DEF MidiIsNews
<1>7. NoNoteHangs'
  <2>1. buffer \in Seq(Messages) /\ Given \in SUBSET Keys
    BY GivenTyped DEF IInv, TypeOK
  <2>2. PICK given \in SUBSET Keys : given = Given
    BY <2>1
  <2>3. /\ UpcomingNotes = Sounding(given, translate_midi_batch(buffer))
        /\ UpcomingNotes' = Sounding(given, translate_midi_batch(buffer \o <<m>>))
    <3>1. buffer \o <<>> = buffer
      BY <2>1
    <3> QED
      BY <1>1, <1>4, <2>2, <3>1 DEF UpcomingNotes, Given
  <2>4. ASSUME NEW k \in Keys \ missed', block'.step # "crashed"
        PROVE  k \in UpcomingNotes' <=> k \in pressed'
    <3>1. k \in UpcomingNotes <=> k \in pressed
      BY <1>1, <1>4, <2>4 DEF IInv, NoNoteHangs
    <3>2. CASE Concerns(m, k)
      <4>1. k \in UpcomingNotes' <=> midi_to_vst3_event(m).on
        BY <2>1, <2>2, <2>3, <3>2, HeardNext
      <4>2. k \in pressed' <=> midi_to_vst3_event(m).on
        <5>1. m.status # "other" /\ m.key = k /\ midi_to_vst3_event(m).on \in BOOLEAN
          BY <3>2, MessageFacts DEF Concerns
        <5> QED
          BY <1>2, <5>1
      <4> QED
        BY <4>1, <4>2
    <3>3. CASE ~Concerns(m, k)
      <4>1. k \in UpcomingNotes' <=> k \in UpcomingNotes
        BY <2>1, <2>2, <2>3, <3>3, HeardNext
      <4>2. k \in pressed' <=> k \in pressed
        BY <1>2, <1>3, <3>3 DEF Concerns
      <4> QED
        BY <3>1, <4>1, <4>2
    <3> QED
      BY <3>2, <3>3
  <2> QED
    BY <2>4 DEF NoNoteHangs
<1> QED
  BY <1>4, <1>5, <1>6, <1>7 DEF IInv

\* The message under way is left in the buffer or dropped.
LEMMA PushMessageStep ==
  ASSUME IInv, PushMessage
  PROVE  IInv'
<1>1. /\ midi # <<>> /\ midi' = <<>>
      /\ UNCHANGED <<setup, paramVars, event_list, pressed, sounding, blockVars>>
  BY DEF PushMessage
<1>2. PICK m \in Messages : midi = <<m>>
  BY <1>1 DEF IInv, MidiTyped
<1> DEFINE about == IF m.status = "other" THEN {} ELSE {m.key}
<1>3. \/ /\ Len(buffer) < MaxBuffered
         /\ buffer' = buffer \o <<m>> /\ missed' = missed \ about
      \/ /\ buffer' = buffer /\ missed' = missed \cup about
  <2>1. midi[1] = m
    BY <1>2
  <2> QED
    BY <1>2, <2>1 DEF PushMessage
<1>4. /\ Clean' /\ ShellFirst' /\ Agrees' /\ ControlTyped'
      /\ Given' = Given /\ block' = block
  BY <1>1, MidiOnly
<1>5. \A k : k \in about <=> Concerns(m, k)
  BY DEF Concerns
<1>6. about \in SUBSET Keys
  BY MessageFacts
<1> HIDE DEF about
<1>7. buffer \in Seq(Messages) /\ Len(buffer) <= MaxBuffered /\ Given \in SUBSET Keys
  BY GivenTyped DEF IInv, TypeOK
<1>8. TypeOK' /\ MidiTyped'
  <2>1. buffer' \in Seq(Messages) /\ Len(buffer') <= MaxBuffered
    <3>1. CASE Len(buffer) < MaxBuffered /\ buffer' = buffer \o <<m>>
      <4>1. /\ buffer \o <<m>> \in Seq(Messages) /\ Len(buffer \o <<m>>) = Len(buffer) + 1
            /\ Len(buffer) \in Nat
        BY <1>7
      <4> QED
        BY <3>1, <4>1, AudioEngineAssumption
    <3>2. CASE buffer' = buffer
      BY <1>7, <3>2
    <3> QED
      BY <1>3, <3>1, <3>2
  <2>2. missed' \subseteq Keys
    BY <1>3, <1>6 DEF IInv, TypeOK
  <2>3. <<>> \in Seq(Messages)
    OBVIOUS
  <2> QED
    BY <1>1, <2>1, <2>2, <2>3 DEF IInv, TypeOK, MidiTyped, paramVars, blockVars
<1>9. MidiIsNews'
  BY <1>1 DEF MidiIsNews
<1>10. NoNoteHangs'
  <2>1. PICK given \in SUBSET Keys : given = Given
    BY <1>7
  <2>2. /\ UpcomingNotes = Sounding(given, translate_midi_batch(buffer \o <<m>>))
        /\ UpcomingNotes' = Sounding(given, translate_midi_batch(buffer' \o <<>>))
    BY <1>1, <1>2, <1>4, <2>1 DEF UpcomingNotes, Given
  <2>3. ASSUME NEW k \in Keys \ missed', block'.step # "crashed"
        PROVE  k \in UpcomingNotes' <=> k \in pressed
    <3>1. k \notin missed => (k \in UpcomingNotes <=> k \in pressed)
      BY <1>4, <2>3 DEF IInv, NoNoteHangs
    <3>2. Concerns(m, k) => (k \in UpcomingNotes <=> k \in pressed)
      <4>1. ASSUME Concerns(m, k) PROVE k \in UpcomingNotes <=> k \in pressed
        <5>1. k \in UpcomingNotes <=> midi_to_vst3_event(m).on
          BY <1>7, <2>1, <2>2, <4>1, HeardNext
        <5>2. k \in pressed <=> midi_to_vst3_event(m).on
          BY <1>2, <4>1 DEF IInv, MidiIsNews, Concerns
        <5> QED
          BY <5>1, <5>2
      <4> QED
        BY <4>1
    <3>3. CASE buffer' = buffer \o <<m>> /\ missed' = missed \ about
      <4>1. UpcomingNotes' = UpcomingNotes
        <5>1. buffer \o <<m>> \in Seq(Messages)
          BY <1>7
        <5>2. PICK r : r = buffer'
          OBVIOUS
        <5>3. r \o <<>> = r
          BY <3>3, <5>1, <5>2
        <5> QED
          BY <2>2, <3>3, <5>2, <5>3
      <4>2. k \notin missed \/ Concerns(m, k)
        BY <1>5, <2>3, <3>3
      <4> QED
        BY <3>1, <3>2, <4>1, <4>2
    <3>4. CASE buffer' = buffer /\ missed' = missed \cup about
      <4>1. ~Concerns(m, k) /\ k \notin missed
        BY <1>5, <2>3, <3>4
      <4>2. UpcomingNotes' = Sounding(given, translate_midi_batch(buffer))
        <5>1. buffer \o <<>> = buffer
          BY <1>7
        <5> QED
          BY <2>2, <3>4, <5>1
      <4>3. k \in UpcomingNotes' <=> k \in UpcomingNotes
        BY <1>7, <2>1, <2>2, <4>1, <4>2, HeardNext
      <4> QED
        BY <3>1, <4>1, <4>3
    <3> QED
      BY <1>3, <3>3, <3>4
  <2> QED
    BY <1>1, <2>3 DEF NoNoteHangs
<1> QED
  BY <1>4, <1>8, <1>9, <1>10 DEF IInv
-----------------------------------------------------------------------------
(* The audio thread *)

\* The list that the plugin is given says of a note what all events say of it,
\* unless the last one was dropped at the limit.
LEMMA CappedLast ==
  ASSUME NEW events \in Seq(Events), NEW notes \in SUBSET Keys, NEW k \in Keys,
         \A i \in (MaxEvents + 1)..Len(events) : events[i].key # k
  PROVE  k \in Sounding(notes, Capped(events)) <=> k \in Sounding(notes, events)
<1> DEFINE n == IF Len(events) < MaxEvents THEN Len(events) ELSE MaxEvents
<1>1. PICK r : r = SubSeq(events, 1, n)
  OBVIOUS
<1>2. Len(events) \in Nat /\ MaxEvents \in Nat
  BY AudioEngineAssumption
<1>3. n \in Nat /\ n <= Len(events) /\ n <= MaxEvents /\ \A i \in (n + 1)..Len(events) : events[i].key # k
  BY <1>2
<1>4. Capped(events) = r
  BY <1>1 DEF Capped
<1> HIDE DEF n
<1>5. r \in Seq(Events) /\ Len(r) = n /\ \A i \in 1..n : r[i] = events[i]
  <2>1. PICK x \in 0..Len(events) : x = n
    BY <1>2, <1>3
  <2> QED
    BY <1>1, <1>2, <2>1
<1>6. CASE Silent(events, Len(events), k)
  <2>1. Silent(r, Len(r), k)
    BY <1>2, <1>3, <1>5, <1>6 DEF Silent
  <2> QED
    BY <1>4, <1>5, <1>6, <2>1, SoundingLast
<1>7. CASE \E i : LastOf(events, Len(events), k, i)
  <2>1. PICK i : LastOf(events, Len(events), k, i)
    BY <1>7
  <2>2. i \in 1..n
    BY <1>2, <1>3, <2>1 DEF LastOf
  <2>3. LastOf(r, Len(r), k, i) /\ r[i] = events[i]
    BY <1>2, <1>3, <1>5, <2>1, <2>2 DEF LastOf
  <2> QED
    BY <1>4, <1>5, <2>1, <2>3, SoundingLast
<1> QED
  BY <1>6, <1>7, SomeLastEvent

\* The list that the plugin is given has its limit.
LEMMA CappedTyped ==
  ASSUME NEW events \in Seq(Events)
  PROVE  Capped(events) \in Seq(Events) /\ Len(Capped(events)) <= MaxEvents
<1> DEFINE n == IF Len(events) < MaxEvents THEN Len(events) ELSE MaxEvents
<1>1. Len(events) \in Nat /\ MaxEvents \in Nat
  BY AudioEngineAssumption
<1>2. PICK x \in 0..Len(events) : x = n /\ x <= MaxEvents
  BY <1>1
<1>3. Capped(events) = SubSeq(events, 1, x)
  BY <1>2 DEF Capped
<1>4. SubSeq(events, 1, x) \in Seq(Events) /\ Len(SubSeq(events, 1, x)) = x
  BY <1>1
<1> QED
  BY <1>2, <1>3, <1>4

\* No message is no event.
LEMMA NothingToTranslate == translate_midi_batch(<<>>) = <<>>
<1>1. <<>> \in Seq(Messages) /\ Len(<<>>) = 0
  OBVIOUS
<1> QED
  BY <1>1, TranslationStepwise

\* The buffered messages become the events of the block.
LEMMA BeginBlockStep ==
  ASSUME IInv, NEW frames \in 1..MaxFrames, BeginBlock(frames)
  PROVE  IInv'
<1>1. /\ block.step = "waiting"
      /\ output' = [i \in 1..MaxBlock |-> output[i] /\ i > Samples(frames)]
      /\ DrainMidi
      /\ block' = [step |-> "params", frames |-> frames]
      /\ played' = {}
      /\ UNCHANGED <<setup, paramVars, midi, pressed, sounding>>
  BY DEF BeginBlock, prepare
<1>2. block'.step = "params" /\ block'.frames = frames
  BY <1>1
<1>3. ShellFirst' /\ Agrees' /\ ControlTyped'
  BY <1>1, <1>2, ParametersKept DEF IInv, ControlTyped, paramVars
<1>4. MidiIsNews' /\ MidiTyped'
  BY <1>1 DEF IInv, MidiIsNews, MidiTyped
<1>5. Clean'
  <2>1. ASSUME NEW i \in 1..MaxBlock, i <= Samples(frames) PROVE ~output'[i]
    <3>1. MaxBlock \in Nat /\ frames \in Nat
      BY AudioEngineAssumption
    <3>2. ~(i > Samples(frames))
      BY <2>1, <3>1 DEF Samples
    <3> QED
      BY <1>1, <3>2
  <2> QED
    BY <1>2, <2>1 DEF Clean, Samples
<1>6. PICK events : events = translate_midi_batch(buffer)
  OBVIOUS
<1>7. buffer \in Seq(Messages) /\ sounding \in SUBSET Keys /\ events \in Seq(Events)
  BY <1>6, TranslationLast DEF IInv, TypeOK
<1>8. \/ /\ midi = <<>> /\ buffer' = <<>> /\ event_list' = Capped(events)
         /\ missed' = missed \cup {events[i].key : i \in (MaxEvents + 1)..Len(events)}
      \/ event_list' = <<>> /\ buffer' = buffer /\ missed' = missed
  BY <1>1, <1>6 DEF DrainMidi
<1>9. TypeOK'
  <2>1. output' \in [1..MaxBlock -> BOOLEAN]
    BY <1>1
  <2>2. event_list' \in Seq(Events) /\ Len(event_list') <= MaxEvents
    <3>1. Len(<<>>) <= MaxEvents /\ <<>> \in Seq(Events)
      BY AudioEngineAssumption
    <3> QED
      BY <1>7, <1>8, <3>1, CappedTyped
  <2>3. buffer' \in Seq(Messages) /\ Len(buffer') <= MaxBuffered
    <3>1. Len(<<>>) <= MaxBuffered /\ <<>> \in Seq(Messages)
      BY AudioEngineAssumption
    <3> QED
      BY <1>8, <3>1 DEF IInv, TypeOK
  <2>4. missed' \subseteq Keys
    <3>1. \A i \in (MaxEvents + 1)..Len(events) : events[i].key \in Keys
      <4>1. \A i \in (MaxEvents + 1)..Len(events) : events[i] \in Events
        BY <1>7, AudioEngineAssumption
      <4> QED
        BY <4>1 DEF Events
    <3>2. missed \subseteq Keys
      BY DEF IInv, TypeOK
    <3> QED
      BY <1>8, <3>1, <3>2
  <2>5. block' \in [step : {"waiting", "params", "process", "crashed"}, frames : 0..MaxFrames]
    BY <1>1, AudioEngineAssumption
  <2> QED
    BY <1>1, <2>1, <2>2, <2>3, <2>4, <2>5 DEF IInv, TypeOK, paramVars
<1>10. NoNoteHangs'
  <2>1. UpcomingNotes = Sounding(sounding, translate_midi_batch(buffer \o midi))
    BY <1>1 DEF UpcomingNotes, Delivered
  <2>2. UpcomingNotes' = Sounding(Sounding(sounding, event_list'), translate_midi_batch(buffer' \o midi))
    BY <1>1, <1>2 DEF UpcomingNotes, Delivered
  <2>3. ASSUME NEW k \in Keys \ missed' PROVE k \in UpcomingNotes' <=> k \in UpcomingNotes
    <3>1. CASE event_list' = <<>> /\ buffer' = buffer
      <4>1. Sounding(sounding, <<>>) = sounding
        BY <1>7, SoundingEmpty
      <4> QED
        BY <2>1, <2>2, <3>1, <4>1
    <3>2. CASE /\ midi = <<>> /\ buffer' = <<>> /\ event_list' = Capped(events)
               /\ missed' = missed \cup {events[i].key : i \in (MaxEvents + 1)..Len(events)}
      <4>1. UpcomingNotes = Sounding(sounding, events)
        <5>1. buffer \o <<>> = buffer
          BY <1>7
        <5> QED
          BY <1>6, <2>1, <3>2, <5>1
      <4>2. UpcomingNotes' = Sounding(sounding, Capped(events))
        <5>1. PICK given \in SUBSET Keys : given = Sounding(sounding, Capped(events))
          BY <1>7, CappedTyped, SoundingLast
        <5>2. <<>> \o <<>> = <<>>
          OBVIOUS
        <5>3. Sounding(given, <<>>) = given
          BY SoundingEmpty
        <5> QED
          BY <2>2, <3>2, <5>1, <5>2, <5>3, NothingToTranslate
      <4>3. \A i \in (MaxEvents + 1)..Len(events) : events[i].key # k
        BY <2>3, <3>2
      <4> QED
        BY <1>7, <4>1, <4>2, <4>3, CappedLast
    <3> QED
      BY <1>8, <3>1, <3>2
  <2>4. ASSUME NEW k \in Keys \ missed' PROVE k \in UpcomingNotes <=> k \in pressed
    <3>1. k \notin missed
      BY <1>8, <2>4
    <3> QED
      BY <1>1, <2>4, <3>1 DEF IInv, NoNoteHangs
  <2> QED
    BY <1>1, <2>3, <2>4 DEF NoNoteHangs
<1> QED
  BY <1>3, <1>4, <1>5, <1>9, <1>10 DEF IInv

\* The pending changes become the queues of the block.
LEMMA TakeParamsStep ==
  ASSUME IInv, TakeParams
  PROVE  IInv'
<1>1. /\ block.step = "params"
      /\ block' = [block EXCEPT !.step = "process"]
      /\ DrainParams
      /\ UNCHANGED <<setup, control, controller, processor, noteVars, output, played>>
  BY DEF TakeParams
<1>2. /\ block \in [step : {"waiting", "params", "process", "crashed"}, frames : 0..MaxFrames]
      /\ pending \in Seq(Changes) /\ apart \subseteq Params
  BY DEF IInv, TypeOK
<1>3. /\ block'.step = "process" /\ block'.frames = block.frames
      /\ block' \in [step : {"waiting", "params", "process", "crashed"}, frames : 0..MaxFrames]
  BY <1>1, <1>2
<1>4. Clean'
  BY <1>1, <1>3 DEF IInv, Clean
<1>5. MidiIsNews' /\ NoNoteHangs' /\ MidiTyped'
  BY <1>1, <1>3, NotesKept DEF IInv, MidiTyped, noteVars
<1>6. \/ /\ param_changes' = NoChanges /\ UNCHANGED <<pending, apart>>
      \/ /\ pending' = <<>>
         /\ param_changes' = Added(pending).queues
         /\ apart' = apart \cup Added(pending).refused
  BY <1>1 DEF DrainParams
<1>7. PICK queues, refused : queues = Added(pending).queues /\ refused = Added(pending).refused
  OBVIOUS
<1>8. /\ Fits(queues) /\ refused \in SUBSET Params
      /\ \A p \in Params \ refused :
           /\ NoneAbout(pending, Len(pending), p) => p \notin DOMAIN queues
           /\ \A i : LastAbout(pending, Len(pending), p, i) =>
                p \in DOMAIN queues /\ Last(queues[p]) = pending[i].value
  BY <1>2, <1>7, AddedLast
<1>9. Fits(param_changes') /\ apart' \subseteq Params /\ pending' \in Seq(Changes)
  <2>1. <<>> \in Seq(Changes)
    OBVIOUS
  <2> QED
    BY <1>2, <1>6, <1>7, <1>8, <2>1, NoChangesFit
<1>10. TypeOK' /\ ControlTyped'
  BY <1>1, <1>3, <1>9 DEF IInv, TypeOK, ControlTyped, Fits, noteVars
<1>11. apart \subseteq apart'
  BY <1>6
<1>12. ShellFirst'
  BY <1>1, <1>11 DEF IInv, ShellFirst
<1>13. ASSUME NEW p \in Params \ apart' PROVE Upcoming(p)' = Upcoming(p)
  <2>1. /\ Upcoming(p) = Computed(pending, "params", param_changes, processor, p)
        /\ Upcoming(p)' = Computed(pending', "process", param_changes', processor, p)
    BY <1>1, <1>3, UpcomingIs
  <2>2. CASE param_changes' = NoChanges /\ pending' = pending
    <3>1. p \notin DOMAIN NoChanges
      BY DEF NoChanges
    <3>2. Computed(pending, "process", NoChanges, processor, p) =
          Computed(pending, "params", param_changes, processor, p)
      BY <3>1 DEF Computed
    <3> QED
      BY <2>1, <2>2, <3>2
  <2>3. CASE pending' = <<>> /\ param_changes' = queues /\ apart' = apart \cup refused
    <3>1. Computed(<<>>, "process", queues, processor, p) =
            IF p \in DOMAIN queues THEN Last(queues[p]) ELSE processor[p]
      BY DEF Computed
    <3>2. p \in Params \ refused
      BY <1>13, <2>3
    <3>3. CASE NoneAbout(pending, Len(pending), p)
      <4>1. Computed(pending, "params", param_changes, processor, p) = processor[p]
        BY <1>2, <3>3, ComputedLast
      <4> QED
        BY <1>8, <2>1, <2>3, <3>1, <3>2, <3>3, <4>1
    <3>4. CASE \E i : LastAbout(pending, Len(pending), p, i)
      <4>1. PICK i : LastAbout(pending, Len(pending), p, i)
        BY <3>4
      <4>2. Computed(pending, "params", param_changes, processor, p) = pending[i].value
        BY <1>2, <4>1, ComputedLast
      <4> QED
        BY <1>8, <2>1, <2>3, <3>1, <3>2, <4>1, <4>2
    <3> QED
      BY <1>2, <3>3, <3>4, SomeLastChange
  <2> QED
    BY <1>6, <1>7, <2>2, <2>3
<1>14. Agrees'
  BY <1>1, <1>11, <1>13 DEF IInv, Agrees
<1> QED
  BY <1>4, <1>5, <1>10, <1>12, <1>14 DEF IInv

\* The plugin plays the events and moves the parameters: nothing is under way less or more.
LEMMA CallPluginStep ==
  ASSUME IInv, NEW written \in 0..MaxBlock, CallPlugin(written)
  PROVE  IInv' /\ NothingStalePlayed'
<1>1. /\ block.step = "process"
      /\ block' = [step |-> "waiting", frames |-> 0]
      /\ sounding' = Sounding(sounding, event_list)
      /\ processor' = Moved(processor, param_changes)
      /\ played' = Played(block.frames, written)
      /\ output' = [i \in 1..MaxBlock |-> output[i] \/ i <= written]
      /\ UNCHANGED <<setup, control, pending, controller, param_changes, apart, midi, buffer, event_list, pressed, missed>>
  BY DEF CallPlugin
<1>2. block'.step = "waiting"
  BY <1>1
<1>3. /\ sounding \in SUBSET Keys /\ event_list \in Seq(Events) /\ pending \in Seq(Changes)
      /\ block \in [step : {"waiting", "params", "process", "crashed"}, frames : 0..MaxFrames]
  BY DEF IInv, TypeOK
<1>4. block.frames \in Nat /\ MaxBlock \in Nat
  BY <1>3, AudioEngineAssumption
<1>5. NothingStalePlayed'
  <2>1. ASSUME NEW i \in 1..block.frames, i <= Samples(block.frames) PROVE ~output[i]
    <3>1. i \in 1..MaxBlock
      BY <1>4, <2>1 DEF Samples
    <3> QED
      BY <1>1, <2>1, <3>1 DEF IInv, Clean
  <2>2. \A i \in 1..block.frames : i <= Samples(block.frames) \/ i > Samples(block.frames)
    BY <1>4 DEF Samples
  <2>3. \A i \in 1..block.frames :
          "stale" # IF i > Samples(block.frames) THEN "silence"
                    ELSE IF i <= written THEN "fresh"
                    ELSE IF output[i] THEN "stale" ELSE "silence"
    BY <2>1, <2>2
  <2> QED
    BY <1>1, <2>3 DEF NothingStalePlayed, Played
<1>6. TypeOK' /\ ControlTyped' /\ MidiTyped'
  <2>1. output' \in [1..MaxBlock -> BOOLEAN]
    BY <1>1
  <2>2. sounding' \subseteq Keys
    BY <1>1, <1>3, SoundingLast
  <2>3. processor' \in [Params -> Values]
    <3>1. ASSUME NEW p \in Params, p \in DOMAIN param_changes PROVE Last(param_changes[p]) \in Values
      <4>1. PICK r : r = param_changes[p]
        OBVIOUS
      <4>2. r \in Seq(Values) /\ Len(r) \in 1..MaxPoints
        BY <3>1, <4>1 DEF IInv, TypeOK
      <4>3. r[Len(r)] \in Values
        BY <4>2
      <4> QED
        BY <4>1, <4>3 DEF Last
    <3>2. processor \in [Params -> Values]
      BY DEF IInv, TypeOK
    <3> QED
      BY <1>1, <3>1, <3>2 DEF Moved
  <2>4. played' \subseteq {"silence", "fresh", "stale"}
    BY <1>1 DEF Played
  <2>5. block' \in [step : {"waiting", "params", "process", "crashed"}, frames : 0..MaxFrames]
    BY <1>1, AudioEngineAssumption
  <2> QED
    BY <1>1, <2>1, <2>2, <2>3, <2>4, <2>5 DEF IInv, TypeOK, ControlTyped, MidiTyped
<1>7. Clean' /\ ShellFirst' /\ MidiIsNews'
  BY <1>1, <1>2 DEF IInv, Clean, ShellFirst, MidiIsNews
<1>8. NoNoteHangs'
  <2>1. UpcomingNotes' = UpcomingNotes
    BY <1>1, <1>2 DEF UpcomingNotes, Delivered
  <2> QED
    BY <1>1, <2>1 DEF IInv, NoNoteHangs
<1>9. ASSUME NEW p \in Params PROVE Upcoming(p)' = Upcoming(p)
  <2>1. /\ Upcoming(p) = Computed(pending, "process", param_changes, processor, p)
        /\ Upcoming(p)' = Computed(pending, "waiting", param_changes, processor', p)
    BY <1>1, <1>2, UpcomingIs
  <2>2. processor'[p] = IF p \in DOMAIN param_changes THEN Last(param_changes[p]) ELSE processor[p]
    BY <1>1 DEF Moved
  <2> QED
    BY <2>1, <2>2 DEF Computed
<1>10. Agrees'
  BY <1>1, <1>9 DEF IInv, Agrees
<1> QED
  BY <1>5, <1>6, <1>7, <1>8, <1>10 DEF IInv

\* The plugin is not called again.
LEMMA PluginCrashesStep ==
  ASSUME IInv, PluginCrashes
  PROVE  IInv' /\ NothingStalePlayed'
<1>1. /\ block' = [step |-> "crashed", frames |-> 0]
      /\ played' = {"silence"}
      /\ UNCHANGED <<setup, paramVars, noteVars, output>>
  BY DEF PluginCrashes
<1>2. block'.step = "crashed"
  BY <1>1
<1>3. TypeOK' /\ ControlTyped' /\ MidiTyped'
  <2>1. block' \in [step : {"waiting", "params", "process", "crashed"}, frames : 0..MaxFrames]
    BY <1>1, AudioEngineAssumption
  <2> QED
    BY <1>1, <2>1 DEF IInv, TypeOK, ControlTyped, MidiTyped, paramVars, noteVars
<1>4. Clean' /\ Agrees' /\ NoNoteHangs'
  BY <1>2 DEF Clean, Agrees, NoNoteHangs
<1>5. ShellFirst' /\ MidiIsNews'
  BY <1>1 DEF IInv, ShellFirst, MidiIsNews, paramVars, noteVars
<1>6. NothingStalePlayed'
  BY <1>1 DEF NothingStalePlayed
<1> QED
  BY <1>3, <1>4, <1>5, <1>6 DEF IInv
-----------------------------------------------------------------------------
(* The theorems *)

\* Nothing is under way at first.
LEMMA InitHolds == Init => IInv /\ NothingStalePlayed
<1> SUFFICES ASSUME Init PROVE IInv /\ NothingStalePlayed
  OBVIOUS
<1> USE DEF Init
<1>1. block.step = "waiting" /\ control = Idle /\ control.todo = <<>> /\ midi = <<>>
  BY DEF Idle
<1>2. TypeOK
  <2>1. Fits(param_changes)
    BY NoChangesFit
  <2>2. <<>> \in Seq(Changes) /\ <<>> \in Seq(Messages) /\ <<>> \in Seq(Events) /\ Len(<<>>) = 0
    OBVIOUS
  <2>3. block \in [step : {"waiting", "params", "process", "crashed"}, frames : 0..MaxFrames]
    BY AudioEngineAssumption
  <2>4. {controller, processor} \subseteq [Params -> Values]
    BY AudioEngineAssumption
  <2>5. output \in [1..MaxBlock -> BOOLEAN]
    OBVIOUS
  <2> QED
    BY <2>1, <2>2, <2>3, <2>4, <2>5, AudioEngineAssumption DEF TypeOK, Fits
<1>3. ControlTyped /\ MidiTyped /\ Clean /\ ShellFirst
  BY <1>1 DEF ControlTyped, MidiTyped, Clean, ShellFirst
<1>4. Agrees
  <2>1. ASSUME NEW p \in Params PROVE Upcoming(p) = controller[p]
    <3>1. Upcoming(p) = Computed(<<>>, "waiting", param_changes, processor, p)
      BY <1>1, UpcomingIs
    <3> QED
      BY <3>1 DEF Computed
  <2> QED
    BY <1>1, <2>1 DEF Agrees
<1>5. MidiIsNews
  BY <1>1 DEF MidiIsNews
<1>6. NoNoteHangs
  <2>1. UpcomingNotes = {}
    <3>1. <<>> \o <<>> = <<>>
      OBVIOUS
    <3>2. Sounding({}, <<>>) = {}
      BY SoundingEmpty
    <3> QED
      BY <1>1, <3>1, <3>2, NothingToTranslate DEF UpcomingNotes, Delivered
  <2> QED
    BY <2>1 DEF NoNoteHangs
<1> QED
  BY <1>2, <1>3, <1>4, <1>5, <1>6 DEF IInv, NothingStalePlayed

\* Every step keeps the invariant.
LEMMA InductiveStep ==
  ASSUME IInv, NothingStalePlayed, [Next]_vars
  PROVE  IInv' /\ NothingStalePlayed'
<1>1. CASE UNCHANGED vars
  <2>1. NothingStalePlayed'
    BY <1>1 DEF NothingStalePlayed, vars, blockVars
  <2> QED
    BY <1>1, <2>1, NothingHappens
<1>2. CASE Control
  <2>1. NothingStalePlayed'
    BY <1>2 DEF NothingStalePlayed, Control, ChangeParameter, PerformEdit, LockPending,
                PushPending, SetNormalized, LoadState, blockVars
  <2>2. IInv'
    BY <1>2, ChangeParameterStep, PerformEditStep, LockPendingStep, PushPendingStep,
       SetNormalizedStep, LoadStateStep DEF Control
  <2> QED
    BY <2>1, <2>2
<1>3. CASE Midi
  <2>1. NothingStalePlayed'
    BY <1>3 DEF NothingStalePlayed, Midi, Arrives, PushMessage, blockVars
  <2>2. IInv'
    BY <1>3, ArrivesStep, PushMessageStep DEF Midi
  <2> QED
    BY <2>1, <2>2
<1>4. CASE Audio
  <2>1. ASSUME NEW frames \in 1..MaxFrames, BeginBlock(frames) PROVE IInv' /\ NothingStalePlayed'
    BY <2>1, BeginBlockStep DEF BeginBlock, NothingStalePlayed
  <2>2. ASSUME TakeParams PROVE IInv' /\ NothingStalePlayed'
    BY <2>2, TakeParamsStep DEF TakeParams, NothingStalePlayed
  <2> QED
    BY <1>4, <2>1, <2>2, CallPluginStep, PluginCrashesStep DEF Audio
<1> QED
  BY <1>1, <1>2, <1>3, <1>4 DEF Next

\* The invariant holds in every state.
LEMMA Inductive == Spec => [](IInv /\ NothingStalePlayed)
<1>1. IInv /\ NothingStalePlayed /\ [Next]_vars => (IInv /\ NothingStalePlayed)'
  BY InductiveStep
<1> QED
  BY InitHolds, <1>1, PTL DEF Spec

\* Every list has its type and its limit: the queues, their points, the events
\* and the buffered messages are never more than the fixed arrays of the code
\* hold (HostParameterChanges, HostParamValueQueue, HostEventList, MidiReceiver).
THEOREM TypeCorrect == Spec => []TypeOK
<1>1. IInv => TypeOK
  BY DEF IInv
<1> QED
  BY Inductive, <1>1, PTL

\* The processor and the controller agree on every parameter once the changes
\* under way are delivered, whichever thread queues first and whichever try of
\* the mutex fails, for any number of parameters and any limits
\* (AudioEngine::process, HostBackend::set_parameter, interactive::cmd_set).
THEOREM HalvesStayTogether == Spec => []HalvesAgree
<1>1. IInv => HalvesAgree
  BY DEF IInv, Agrees, HalvesAgree
<1> QED
  BY Inductive, <1>1, PTL

\* The notes that sound are those of the keys that are down, but for keys whose
\* last message was dropped at a limit, for any keyboard and any limits
\* (MidiReceiver, translate_midi_batch, HostEventList::add).
THEOREM NotesFollowKeys == Spec => []NoNoteHangs
<1>1. IInv => NoNoteHangs
  BY DEF IInv
<1> QED
  BY Inductive, <1>1, PTL

\* The device is never given frames of an earlier block, for blocks of any
\* length (ProcessBuffers::prepare, read_output_interleaved).
THEOREM OutputIsFresh == Spec => []NothingStalePlayed
BY Inductive, PTL
==============================================================================
