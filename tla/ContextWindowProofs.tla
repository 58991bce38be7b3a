------------------------ MODULE ContextWindowProofs ------------------------
(***************************************************************************)
(* Theorems about ContextWindow for every number of turns and closes and   *)
(* every limit of the window: types, that the window tells the dialog in   *)
(* its order whatever overlaps, and that on MAX it is the session.         *)
(***************************************************************************)
EXTENDS ContextWindow, TLAPS

-----------------------------------------------------------------------------
(* The two parts of a window and what they cover.                          *)

LEMMA LastParts ==
  ASSUME NEW E, NEW s \in Seq(E), NEW n \in Nat
  PROVE /\ Last(s, n) \in Seq(E)
        /\ Len(Last(s, n)) = (IF Len(s) <= n THEN Len(s) ELSE n)
        /\ \A i \in 1 .. Len(Last(s, n)) : Last(s, n)[i] = s[Len(s) - Len(Last(s, n)) + i]
<1>1. CASE Len(s) <= n BY <1>1 DEF Last
<1>2. CASE Len(s) > n
  <2>1. Last(s, n) = SubSeq(s, Len(s) - n + 1, Len(s)) BY <1>2 DEF Last
  <2>2. QED BY <1>2, <2>1
<1>3. QED BY <1>1, <1>2

LEMMA ButLastParts ==
  ASSUME NEW E, NEW s \in Seq(E), NEW n \in Nat
  PROVE /\ ButLast(s, n) \in Seq(E)
        /\ Len(ButLast(s, n)) = (IF Len(s) <= n THEN 0 ELSE Len(s) - n)
        /\ \A i \in 1 .. Len(ButLast(s, n)) : ButLast(s, n)[i] = s[i]
<1>1. CASE Len(s) <= n BY <1>1 DEF ButLast
<1>2. CASE Len(s) > n
  <2>1. ButLast(s, n) = SubSeq(s, 1, Len(s) - n) BY <1>2 DEF ButLast
  <2>2. QED BY <1>2, <2>1
<1>3. QED BY <1>1, <1>2

LEMMA InCovered ==
  ASSUME NEW s, NEW x
  PROVE x \in Covered(s) <=> \E k \in 1 .. Len(s) : x \in s[k].covers
BY DEF Covered

\* Cutting a sequence in two loses nothing and adds nothing.
LEMMA CutCovers ==
  ASSUME NEW E, NEW s \in Seq(E), NEW n \in Nat
  PROVE Covered(s) = Covered(ButLast(s, n)) \cup Covered(Last(s, n))
<1> DEFINE B == ButLast(s, n)
<1> DEFINE L == Last(s, n)
<1>1. /\ L \in Seq(E) /\ Len(L) = (IF Len(s) <= n THEN Len(s) ELSE n)
      /\ \A i \in 1 .. Len(L) : L[i] = s[Len(s) - Len(L) + i]
  BY LastParts
<1>2. /\ B \in Seq(E) /\ Len(B) = (IF Len(s) <= n THEN 0 ELSE Len(s) - n)
      /\ \A i \in 1 .. Len(B) : B[i] = s[i]
  BY ButLastParts
<1>3. Len(s) \in Nat /\ Len(L) \in Nat /\ Len(B) \in Nat /\ Len(B) + Len(L) = Len(s)
  BY <1>1, <1>2
<1>4. ASSUME NEW x \in Covered(s) PROVE x \in Covered(B) \cup Covered(L)
  <2>1. PICK k \in 1 .. Len(s) : x \in s[k].covers BY <1>4, InCovered
  <2>2. CASE k <= Len(B)
    <3>1. k \in 1 .. Len(B) /\ B[k] = s[k] BY <1>2, <1>3, <2>2
    <3>2. QED BY <2>1, <3>1, InCovered
  <2>3. CASE k > Len(B)
    <3>1. k - Len(B) \in 1 .. Len(L) BY <1>3, <2>3
    <3>2. L[k - Len(B)] = s[Len(s) - Len(L) + (k - Len(B))] BY <1>1, <3>1
    <3>3. Len(s) - Len(L) + (k - Len(B)) = k BY <1>3
    <3>4. QED BY <2>1, <3>1, <3>2, <3>3, InCovered
  <2>4. QED BY <1>3, <2>2, <2>3
<1>5. ASSUME NEW x \in Covered(B) PROVE x \in Covered(s)
  <2>1. PICK k \in 1 .. Len(B) : x \in B[k].covers BY <1>5, InCovered
  <2>2. k \in 1 .. Len(s) /\ B[k] = s[k] BY <1>2, <1>3
  <2>3. QED BY <2>1, <2>2, InCovered
<1>6. ASSUME NEW x \in Covered(L) PROVE x \in Covered(s)
  <2>1. PICK k \in 1 .. Len(L) : x \in L[k].covers BY <1>6, InCovered
  <2>2. Len(s) - Len(L) + k \in 1 .. Len(s) BY <1>3
  <2>3. L[k] = s[Len(s) - Len(L) + k] BY <1>1
  <2>4. QED BY <2>1, <2>2, <2>3, InCovered
<1>7. QED BY <1>4, <1>5, <1>6

LEMMA AppendCovers ==
  ASSUME NEW E, NEW s \in Seq(E), NEW e \in E
  PROVE Covered(Append(s, e)) = Covered(s) \cup e.covers
<1> DEFINE r == Append(s, e)
<1>1. /\ Len(r) = Len(s) + 1 /\ Len(s) \in Nat /\ r[Len(s) + 1] = e
      /\ \A k \in 1 .. Len(s) : r[k] = s[k]
  OBVIOUS
<1>2. ASSUME NEW x \in Covered(r) PROVE x \in Covered(s) \cup e.covers
  <2>1. PICK k \in 1 .. Len(r) : x \in r[k].covers BY <1>2, InCovered
  <2>2. k \in 1 .. Len(s) \/ k = Len(s) + 1 BY <1>1
  <2>3. QED BY <1>1, <2>1, <2>2, InCovered
<1>3. ASSUME NEW x \in Covered(s) PROVE x \in Covered(r)
  <2>1. PICK k \in 1 .. Len(s) : x \in s[k].covers BY <1>3, InCovered
  <2>2. k \in 1 .. Len(r) /\ r[k] = s[k] BY <1>1
  <2>3. QED BY <2>1, <2>2, InCovered
<1>4. ASSUME NEW x \in e.covers PROVE x \in Covered(r)
  <2>1. Len(s) + 1 \in 1 .. Len(r) BY <1>1
  <2>2. QED BY <1>1, <1>4, <2>1, InCovered
<1>5. QED BY <1>2, <1>3, <1>4

\* What is put before a sequence.
LEMMA Before ==
  ASSUME NEW E, NEW s \in Seq(E), NEW e \in E
  PROVE LET r == <<e>> \o s IN
        /\ r \in Seq(E) /\ Len(r) = Len(s) + 1 /\ r[1] = e
        /\ \A k \in 2 .. Len(r) : r[k] = s[k - 1]
        /\ Covered(r) = e.covers \cup Covered(s)
<1> DEFINE r == <<e>> \o s
<1>1. /\ r \in Seq(E) /\ Len(r) = Len(s) + 1 /\ Len(s) \in Nat /\ r[1] = e
      /\ \A k \in 2 .. Len(r) : r[k] = s[k - 1]
  OBVIOUS
<1>2. ASSUME NEW x \in Covered(r) PROVE x \in e.covers \cup Covered(s)
  <2>1. PICK k \in 1 .. Len(r) : x \in r[k].covers BY <1>2, InCovered
  <2>2. CASE k = 1 BY <1>1, <2>1, <2>2
  <2>3. CASE k # 1
    <3>1. k \in 2 .. Len(r) /\ k - 1 \in 1 .. Len(s) BY <1>1, <2>3
    <3>2. QED BY <1>1, <2>1, <3>1, InCovered
  <2>4. QED BY <2>2, <2>3
<1>3. ASSUME NEW x \in Covered(s) PROVE x \in Covered(r)
  <2>1. PICK k \in 1 .. Len(s) : x \in s[k].covers BY <1>3, InCovered
  <2>2. k + 1 \in 2 .. Len(r) /\ k + 1 \in 1 .. Len(r) /\ (k + 1) - 1 = k BY <1>1
  <2>3. r[k + 1] = s[k] BY <1>1, <2>2
  <2>4. QED BY <2>1, <2>2, <2>3, InCovered
<1>4. ASSUME NEW x \in e.covers PROVE x \in Covered(r)
  <2>1. 1 \in 1 .. Len(r) BY <1>1
  <2>2. QED BY <1>1, <1>4, <2>1, InCovered
<1>5. QED BY <1>1, <1>2, <1>3, <1>4

-----------------------------------------------------------------------------
(* Entries and types.                                                      *)

LEMMA EntryOf ==
  ASSUME NEW e \in Entries
  PROVE /\ e.whole \in BOOLEAN /\ e.covers \subseteq 1 .. said
        /\ e.whole => \E n \in 1 .. said : e.covers = {n}
BY DEF Entries

LEMMA EntriesGrow ==
  ASSUME said \in Nat, said' \in Nat, said <= said'
  PROVE /\ Entries \subseteq Entries' /\ Seq(Entries) \subseteq Seq(Entries')
<1>1. 1 .. said \subseteq 1 .. said' OBVIOUS
<1>2. ASSUME NEW e \in Entries PROVE e \in Entries'
  <2>1. e \in [whole : BOOLEAN, covers : SUBSET (1 .. said')] BY <1>1 DEF Entries
  <2>2. e.whole => \E n \in 1 .. said' : e.covers = {n} BY <1>1 DEF Entries
  <2>3. QED BY <2>1, <2>2 DEF Entries
<1>3. QED BY <1>2

LEMMA MessageEntry ==
  ASSUME said \in Nat, said' = said + 1
  PROVE Message(said + 1) \in Entries' /\ Message(said + 1).whole
        /\ Message(said + 1).covers = {said + 1}
BY DEF Message, Entries

LEMMA SummaryEntry ==
  ASSUME NEW s \in Seq(Entries)
  PROVE /\ Covered(s) \subseteq 1 .. said
        /\ Summary(s) \in Entries /\ ~Summary(s).whole /\ Summary(s).covers = Covered(s)
<1>1. ASSUME NEW x \in Covered(s) PROVE x \in 1 .. said
  <2>1. PICK k \in 1 .. Len(s) : x \in s[k].covers BY <1>1, InCovered
  <2>2. s[k] \in Entries OBVIOUS
  <2>3. QED BY <2>1, <2>2, EntryOf
<1>2. QED BY <1>1 DEF Summary, Entries

\* A window after a message was put behind it.
LEMMA PushParts ==
  ASSUME TypeOK, said' = said + 1, Push(said + 1)
  PROVE /\ window' \in Seq(Entries') /\ Len(window') \in 1 .. MaxMessages
        /\ Len(window') = (IF Len(window) < MaxMessages THEN Len(window) + 1 ELSE MaxMessages)
        /\ window'[Len(window')] = Message(said + 1)
        /\ \A k \in 1 .. Len(window') - 1 :
             /\ Len(window) - Len(window') + 1 + k \in 1 .. Len(window)
             /\ window'[k] = window[Len(window) - Len(window') + 1 + k]
        /\ evicted' \subseteq 1 .. said' /\ evicted \subseteq evicted'
        /\ Covered(window') \cup evicted' = Covered(window) \cup {said + 1} \cup evicted
        /\ Covered(window') \subseteq Covered(window) \cup {said + 1}
<1> DEFINE longer == Append(window, Message(said + 1))
<1>1. said \in Nat /\ window \in Seq(Entries) /\ evicted \subseteq 1 .. said /\ said' \in Nat
  BY DEF TypeOK
<1>2. MaxMessages \in Nat \ {0} BY WindowAssumption
<1>3. Message(said + 1) \in Entries' /\ Message(said + 1).covers = {said + 1}
  BY <1>1, MessageEntry
<1>4. window \in Seq(Entries') BY <1>1, EntriesGrow
<1>5. /\ longer \in Seq(Entries') /\ Len(longer) = Len(window) + 1
      /\ longer[Len(window) + 1] = Message(said + 1)
      /\ \A k \in 1 .. Len(window) : longer[k] = window[k]
  BY <1>3, <1>4
<1>6. Covered(longer) = Covered(window) \cup {said + 1} BY <1>3, <1>4, AppendCovers
<1>7. window' = Last(longer, MaxMessages)
      /\ evicted' = evicted \cup Covered(ButLast(longer, MaxMessages))
  BY DEF Push
<1> HIDE DEF longer
<1>8. Covered(longer) = Covered(ButLast(longer, MaxMessages)) \cup Covered(window')
  BY <1>2, <1>5, <1>7, CutCovers
<1>9. /\ window' \in Seq(Entries')
      /\ Len(window') = (IF Len(longer) <= MaxMessages THEN Len(longer) ELSE MaxMessages)
      /\ \A i \in 1 .. Len(window') : window'[i] = longer[Len(longer) - Len(window') + i]
  <2>1. MaxMessages \in Nat /\ longer \in Seq(Entries') BY <1>2, <1>5
  <2>2. QED BY ONLY <1>7, <2>1, LastParts
<1>10. Covered(window) \subseteq 1 .. said BY <1>1, SummaryEntry
<1>11. Len(window) \in Nat /\ Len(window') \in 1 .. MaxMessages
       /\ Len(window') = (IF Len(window) < MaxMessages THEN Len(window) + 1 ELSE MaxMessages)
  BY <1>1, <1>2, <1>5, <1>9
<1>12. window'[Len(window')] = Message(said + 1)
  <2>1. Len(window') \in 1 .. Len(window') BY <1>11
  <2>2. window'[Len(window')] = longer[Len(longer) - Len(window') + Len(window')]
    BY <1>9, <2>1
  <2>3. Len(longer) - Len(window') + Len(window') = Len(window) + 1 BY <1>5, <1>11
  <2>4. QED BY <1>5, <2>2, <2>3
<1>13. ASSUME NEW k \in 1 .. Len(window') - 1
       PROVE /\ Len(window) - Len(window') + 1 + k \in 1 .. Len(window)
             /\ window'[k] = window[Len(window) - Len(window') + 1 + k]
  <2>1. k \in 1 .. Len(window') BY <1>11
  <2>2. window'[k] = longer[Len(longer) - Len(window') + k] BY <1>9, <2>1
  <2>3. Len(longer) - Len(window') + k = Len(window) - Len(window') + 1 + k
    BY <1>5, <1>11
  <2>4. Len(window) - Len(window') + 1 + k \in 1 .. Len(window) BY <1>11
  <2>5. QED BY <1>5, <2>2, <2>3, <2>4
<1>14. Covered(ButLast(longer, MaxMessages)) \subseteq 1 .. said'
  <2>1. Covered(longer) \subseteq 1 .. said' BY <1>1, <1>6, <1>10
  <2>2. QED BY <1>8, <2>1
<1>15. evicted' \subseteq 1 .. said'
  <2>1. 1 .. said \subseteq 1 .. said' BY <1>1
  <2>2. QED BY <1>1, <1>7, <1>14, <2>1
<1>16. QED BY <1>6, <1>7, <1>8, <1>9, <1>11, <1>12, <1>13, <1>15

\* A window after its compaction.
LEMMA CompactParts ==
  ASSUME TypeOK, NEW m \in Turns, Compact(m)
  PROVE LET old == ButLast(turn[m].history, KeptTail)
            tail == Last(window, KeptTail) IN
        /\ window' \in Seq(Entries) /\ window'[1] = Summary(old) /\ ~window'[1].whole
        /\ window'[1].covers = Covered(old)
        /\ tail \in Seq(Entries)
        /\ Len(tail) = (IF Len(window) <= KeptTail THEN Len(window) ELSE KeptTail)
        /\ Len(window') = Len(tail) + 1
        /\ \A k \in 2 .. Len(window') :
             /\ Len(window) - Len(tail) + (k - 1) \in 1 .. Len(window)
             /\ Len(window) - Len(tail) + (k - 1) > Len(window) - KeptTail
             /\ window'[k] = window[Len(window) - Len(tail) + (k - 1)]
        /\ Covered(window') = Covered(old) \cup Covered(tail)
<1> DEFINE old == ButLast(turn[m].history, KeptTail)
<1> DEFINE tail == Last(window, KeptTail)
<1>1. window \in Seq(Entries) /\ turn[m].history \in Seq(Entries) /\ KeptTail = 2
  BY DEF TypeOK, KeptTail
<1>2. old \in Seq(Entries) BY <1>1, ButLastParts
<1>3. Summary(old) \in Entries /\ ~Summary(old).whole /\ Summary(old).covers = Covered(old)
  BY <1>2, SummaryEntry
<1>4. /\ tail \in Seq(Entries)
      /\ Len(tail) = (IF Len(window) <= KeptTail THEN Len(window) ELSE KeptTail)
      /\ \A i \in 1 .. Len(tail) : tail[i] = window[Len(window) - Len(tail) + i]
  <2>1. KeptTail \in Nat BY <1>1
  <2>2. QED BY ONLY <1>1, <2>1, LastParts
<1>5. window' = <<Summary(old)>> \o tail BY DEF Compact
<1>6. /\ window' \in Seq(Entries) /\ Len(window') = Len(tail) + 1
      /\ window'[1] = Summary(old)
      /\ \A k \in 2 .. Len(window') : window'[k] = tail[k - 1]
      /\ Covered(window') = Summary(old).covers \cup Covered(tail)
  BY <1>3, <1>4, <1>5, Before
<1> HIDE DEF old, tail
<1>7. ASSUME NEW k \in 2 .. Len(window')
      PROVE /\ Len(window) - Len(tail) + (k - 1) \in 1 .. Len(window)
            /\ Len(window) - Len(tail) + (k - 1) > Len(window) - KeptTail
            /\ window'[k] = window[Len(window) - Len(tail) + (k - 1)]
  <2>1. k - 1 \in 1 .. Len(tail) BY <1>1, <1>4, <1>6
  <2>2. tail[k - 1] = window[Len(window) - Len(tail) + (k - 1)] BY <1>4, <2>1
  <2>3. Len(window) \in Nat BY <1>1
  <2>4. Len(tail) \in Nat /\ Len(tail) <= Len(window) /\ Len(tail) <= KeptTail
    BY <1>1, <1>4, <2>3
  <2>5. /\ Len(window) - Len(tail) + (k - 1) \in 1 .. Len(window)
        /\ Len(window) - Len(tail) + (k - 1) > Len(window) - KeptTail
    BY <1>1, <2>1, <2>3, <2>4
  <2>6. QED BY <1>6, <2>2, <2>5
<1>8. QED BY <1>3, <1>4, <1>6, <1>7 DEF old, tail

-----------------------------------------------------------------------------
(* Types.                                                                  *)

LEMMA InitTypes == Init => TypeOK
BY WindowAssumption DEF Init, TypeOK, NoTurn

TurnRecords ==
    [pc : {"idle", "heard", "thinking", "answered", "compacting", "over"},
     boot : BOOLEAN, first : BOOLEAN, history : Seq(Entries)]

LEMMA SameEntries == ASSUME said' = said PROVE Entries' = Entries
BY DEF Entries

LEMMA StepTypes ==
  ASSUME TypeOK, NEW m \in Turns, TurnStep(m)
  PROVE TypeOK'
<1> window \in Seq(Entries) /\ turn \in [Turns -> TurnRecords] /\ said \in Nat
  BY DEF TypeOK, TurnRecords
<1>1. ASSUME Receive(m) \/ Answer(m) PROVE TypeOK'
  <2>1. said' = said + 1 /\ Push(said + 1) /\ said' \in Nat BY <1>1 DEF Receive, Answer
  <2>2. window' \in Seq(Entries') /\ Len(window') <= MaxMessages /\ evicted' \subseteq 1 .. said'
    BY <2>1, PushParts, WindowAssumption
  <2>3. turn' \in [Turns -> TurnRecords]
    <3>1. CASE Receive(m) BY <3>1 DEF Receive, TurnRecords
    <3>2. CASE Answer(m) BY <3>2 DEF Answer, TurnRecords
    <3>3. QED BY <1>1, <3>1, <3>2
  <2>4. Seq(Entries) \subseteq Seq(Entries') BY <2>1, EntriesGrow
  <2>5. ASSUME NEW r \in TurnRecords
        PROVE r \in [pc : {"idle", "heard", "thinking", "answered", "compacting", "over"},
                     boot : BOOLEAN, first : BOOLEAN, history : Seq(Entries')]
    BY <2>4 DEF TurnRecords
  <2>6. turn' \in [Turns ->
          [pc : {"idle", "heard", "thinking", "answered", "compacting", "over"},
           boot : BOOLEAN, first : BOOLEAN, history : Seq(Entries')]]
    BY <2>3, <2>5
  <2>7. channel' = channel /\ start' = start /\ closes' = closes
    BY <1>1 DEF Receive, Answer
  <2>8. start' \in 0 .. said' BY <2>1, <2>7 DEF TypeOK
  <2>9. QED BY <2>1, <2>2, <2>6, <2>7, <2>8 DEF TypeOK
<1>2. ASSUME ReadHistory(m) \/ GiveUp(m) \/ CompactStart(m) \/ CompactFailed(m)
      PROVE TypeOK'
  <2>1. UNCHANGED <<channel, window, said, start, evicted, closes>>
    BY <1>2 DEF ReadHistory, GiveUp, CompactStart, CompactFailed
  <2>2. turn' \in [Turns -> TurnRecords]
    <3>1. <<>> \in Seq(Entries) OBVIOUS
    <3>2. CASE ReadHistory(m) BY <3>2 DEF ReadHistory, TurnRecords
    <3>3. CASE GiveUp(m) BY <3>3 DEF GiveUp, TurnRecords
    <3>4. CASE CompactStart(m) BY <3>4 DEF CompactStart, TurnRecords
    <3>5. CASE CompactFailed(m) BY <3>1, <3>5 DEF CompactFailed, TurnRecords
    <3>6. QED BY <1>2, <3>2, <3>3, <3>4, <3>5
  <2>3. QED BY <2>1, <2>2, SameEntries DEF TypeOK, TurnRecords
<1>3. CASE Compact(m)
  <2>1. /\ window' \in Seq(Entries)
        /\ Len(window') = Len(Last(window, KeptTail)) + 1
        /\ Len(Last(window, KeptTail)) = (IF Len(window) <= KeptTail THEN Len(window) ELSE KeptTail)
    BY <1>3, CompactParts
  <2>2. Len(window') <= KeptTail + 1
    <3>1. Len(window) \in Nat /\ KeptTail \in Nat BY DEF KeptTail
    <3>2. QED BY <2>1, <3>1
  <2>3. turn' \in [Turns -> TurnRecords]
    <3>1. <<>> \in Seq(Entries) OBVIOUS
    <3>2. QED BY <1>3, <3>1 DEF Compact, TurnRecords
  <2>4. UNCHANGED <<channel, said, start, evicted, closes>> BY <1>3 DEF Compact
  <2>5. QED BY <2>1, <2>2, <2>3, <2>4, SameEntries DEF TypeOK, TurnRecords
<1>4. QED BY <1>1, <1>2, <1>3 DEF TurnStep

LEMMA NextTypes == TypeOK /\ [Next]_vars => TypeOK'
<1> SUFFICES ASSUME TypeOK, [Next]_vars PROVE TypeOK'
  OBVIOUS
<1> <<>> \in Seq(Entries) /\ Len(<<>>) = 0 /\ KeptTail = 2 BY DEF KeptTail
<1>1. CASE Clear
  <2>1. said' = said /\ window' = <<>> /\ start' = said BY <1>1 DEF Clear
  <2>2. start' \in 0 .. said' BY <2>1 DEF TypeOK
  <2>3. closes' \in 0 .. ClosesAllowed BY <1>1, WindowAssumption DEF Clear, TypeOK
  <2>4. UNCHANGED <<channel, evicted, turn>> BY <1>1 DEF Clear
  <2>5. QED BY <2>1, <2>2, <2>3, <2>4, SameEntries DEF TypeOK
<1>2. CASE Restart
  <2>1. said' = said /\ window' = <<>> /\ start' = said BY <1>2 DEF Restart
  <2>2. start' \in 0 .. said' BY <2>1 DEF TypeOK
  <2>3. closes' \in 0 .. ClosesAllowed BY <1>2, WindowAssumption DEF Restart, TypeOK
  <2>4. UNCHANGED <<channel, evicted>> BY <1>2 DEF Restart
  <2>5. turn' \in [Turns -> TurnRecords]
    <3>1. [NoTurn EXCEPT !.pc = "over"] \in TurnRecords BY DEF NoTurn, TurnRecords
    <3>2. turn \in [Turns -> TurnRecords] BY DEF TypeOK, TurnRecords
    <3>3. QED BY <1>2, <3>1, <3>2 DEF Restart
  <2>6. QED BY <2>1, <2>2, <2>3, <2>4, <2>5, SameEntries DEF TypeOK, TurnRecords
<1>3. CASE UNCHANGED vars BY <1>3, SameEntries DEF vars, TypeOK
<1>4. QED BY <1>1, <1>2, <1>3, StepTypes DEF Next

\* The state of the window is of the declared types in every reachable state, and it
\* is never longer than its limit or a summary with its tail (ConversationStore).
THEOREM WindowTypes == Spec => []TypeOK
BY InitTypes, NextTypes, PTL DEF Spec

-----------------------------------------------------------------------------
(* The order of the window, whatever overlaps.                             *)

\* What a summary under way will stand for is before all that is said in the last
\* two entries, wherever the window has moved since it was read.
SummaryFits(m) ==
    turn[m].pc = "compacting" =>
        \A n \in Covered(ButLast(turn[m].history, KeptTail)), k \in 1 .. Len(window) :
            k > Len(window) - KeptTail /\ window[k].whole =>
                \A p \in window[k].covers : n < p

OrderInv == TypeOK /\ WindowInOrder /\ \A m \in Turns : SummaryFits(m)

LEMMA PushOrder ==
  ASSUME OrderInv, said' = said + 1, Push(said + 1), start' = start,
         \A m \in Turns : turn'[m].pc = "compacting" =>
             turn[m].pc = "compacting" /\ turn'[m].history = turn[m].history
  PROVE WindowInOrder' /\ \A m \in Turns : SummaryFits(m)'
<1> DEFINE at(k) == Len(window) - Len(window') + 1 + k
<1>1. TypeOK /\ said \in Nat /\ window \in Seq(Entries) BY DEF OrderInv, TypeOK
<1>2. /\ window' \in Seq(Entries') /\ Len(window') \in 1 .. MaxMessages
      /\ Len(window') = (IF Len(window) < MaxMessages THEN Len(window) + 1 ELSE MaxMessages)
      /\ window'[Len(window')] = Message(said + 1)
      /\ \A k \in 1 .. Len(window') - 1 :
           at(k) \in 1 .. Len(window) /\ window'[k] = window[at(k)]
  BY <1>1, PushParts
<1>3. Message(said + 1).covers = {said + 1} BY <1>1, MessageEntry
<1>4. \A k \in 1 .. Len(window) : window[k].covers \subseteq 1 .. said
  BY <1>1, EntryOf
<1>5. Len(window) \in Nat /\ Len(window') \in Nat BY <1>1, <1>2
<1>6. ASSUME NEW j \in 1 .. Len(window'), NEW k \in 1 .. Len(window'),
             j < k, window'[k].whole,
             NEW n \in window'[j].covers, NEW p \in window'[k].covers
      PROVE n < p
  <2>1. j \in 1 .. Len(window') - 1 BY <1>5, <1>6
  <2>2. at(j) \in 1 .. Len(window) /\ window'[j] = window[at(j)] BY <1>2, <2>1
  <2>3. CASE k = Len(window')
    <3>1. p = said + 1 BY <1>2, <1>3, <2>3
    <3>2. n \in 1 .. said BY <1>4, <2>2
    <3>3. QED BY <1>1, <3>1, <3>2
  <2>4. CASE k # Len(window')
    <3>1. k \in 1 .. Len(window') - 1 BY <1>5, <2>4
    <3>2. at(k) \in 1 .. Len(window) /\ window'[k] = window[at(k)] BY <1>2, <3>1
    <3>3. at(j) < at(k) BY <1>5, <1>6
    <3>4. QED BY <1>6, <2>2, <3>2, <3>3 DEF OrderInv, WindowInOrder
  <2>5. QED BY <2>3, <2>4
<1>7. window' # <<>> BY <1>2
<1>8. WindowInOrder'
  <2>1. window'[Len(window')] = Message(said') BY <1>2
  <2>2. QED BY <1>6, <1>7, <2>1 DEF WindowInOrder
<1>9. ASSUME NEW m \in Turns, turn'[m].pc = "compacting",
             NEW n \in Covered(ButLast(turn'[m].history, KeptTail)),
             NEW k \in 1 .. Len(window'), k > Len(window') - KeptTail, window'[k].whole,
             NEW p \in window'[k].covers
      PROVE n < p
  <2>1. turn[m].pc = "compacting" /\ n \in Covered(ButLast(turn[m].history, KeptTail))
    BY <1>9
  <2>2. n \in 1 .. said
    <3>1. turn[m].history \in Seq(Entries) /\ KeptTail \in Nat BY <1>1 DEF TypeOK, KeptTail
    <3>2. ButLast(turn[m].history, KeptTail) \in Seq(Entries) BY <3>1, ButLastParts
    <3>3. QED BY <2>1, <3>2, SummaryEntry
  <2>3. CASE k = Len(window')
    <3>1. p = said + 1 BY <1>2, <1>3, <1>9, <2>3
    <3>2. QED BY <1>1, <2>2, <3>1
  <2>4. CASE k # Len(window')
    <3>1. k \in 1 .. Len(window') - 1 BY <1>5, <2>4
    <3>2. at(k) \in 1 .. Len(window) /\ window'[k] = window[at(k)] BY <1>2, <3>1
    <3>3. at(k) > Len(window) - KeptTail BY <1>5, <1>9 DEF KeptTail
    <3>4. QED BY <1>9, <2>1, <3>2, <3>3 DEF OrderInv, SummaryFits
  <2>5. QED BY <2>3, <2>4
<1>10. QED BY <1>8, <1>9 DEF SummaryFits

LEMMA CompactOrder ==
  ASSUME OrderInv, NEW m \in Turns, Compact(m)
  PROVE WindowInOrder' /\ \A l \in Turns : SummaryFits(l)'
<1> DEFINE old == ButLast(turn[m].history, KeptTail)
<1> DEFINE tail == Last(window, KeptTail)
<1> DEFINE at(k) == Len(window) - Len(tail) + (k - 1)
<1>1. TypeOK /\ said \in Nat /\ window \in Seq(Entries) BY DEF OrderInv, TypeOK
<1>2. /\ window' \in Seq(Entries) /\ ~window'[1].whole /\ window'[1].covers = Covered(old)
      /\ Len(tail) = (IF Len(window) <= KeptTail THEN Len(window) ELSE KeptTail)
      /\ Len(window') = Len(tail) + 1
      /\ \A k \in 2 .. Len(window') :
           at(k) \in 1 .. Len(window) /\ at(k) > Len(window) - KeptTail
           /\ window'[k] = window[at(k)]
  BY <1>1, CompactParts
<1>3. /\ turn[m].pc = "compacting" /\ said' = said /\ start' = start
      /\ \A l \in Turns : turn'[l].pc = "compacting" =>
           turn[l].pc = "compacting" /\ turn'[l].history = turn[l].history
  BY <1>1 DEF Compact, TypeOK
<1>4. Len(window) \in Nat /\ Len(tail) \in Nat /\ Len(window') \in Nat /\ KeptTail = 2
  BY <1>1, <1>2 DEF KeptTail
<1> HIDE DEF tail, old
<1>5. ASSUME NEW j \in 1 .. Len(window'), NEW k \in 1 .. Len(window'),
             j < k, window'[k].whole,
             NEW n \in window'[j].covers, NEW p \in window'[k].covers
      PROVE n < p
  <2>1. k \in 2 .. Len(window') BY <1>4, <1>5
  <2>2. /\ at(k) \in 1 .. Len(window) /\ at(k) > Len(window) - KeptTail
        /\ window'[k] = window[at(k)]
    BY <1>2, <2>1
  <2>3. CASE j = 1
    <3>1. n \in Covered(old) BY <1>2, <1>5, <2>3
    <3>2. QED BY <1>3, <1>5, <2>2, <3>1 DEF OrderInv, SummaryFits, old
  <2>4. CASE j # 1
    <3>1. j \in 2 .. Len(window') BY <1>4, <2>4
    <3>2. at(j) \in 1 .. Len(window) /\ window'[j] = window[at(j)] BY <1>2, <3>1
    <3>3. at(j) < at(k) BY <1>4, <1>5
    <3>4. QED BY <1>5, <2>2, <3>2, <3>3 DEF OrderInv, WindowInOrder
  <2>5. QED BY <2>3, <2>4
<1>6. said' > start' => window' # <<>> /\ window'[Len(window')] = Message(said')
  <2>1. SUFFICES ASSUME said > start
                 PROVE window' # <<>> /\ window'[Len(window')] = Message(said)
    BY <1>3
  <2>2. window # <<>> /\ window[Len(window)] = Message(said)
    BY <2>1 DEF OrderInv, WindowInOrder
  <2>3. Len(window) >= 1 BY <1>1, <2>2
  <2>4. Len(window') \in 2 .. Len(window') /\ at(Len(window')) = Len(window)
    BY <1>2, <1>4, <2>3
  <2>5. window'[Len(window')] = window[at(Len(window'))] BY <1>2, <2>4
  <2>6. QED BY <1>2, <2>2, <2>4, <2>5
<1>7. WindowInOrder' BY <1>5, <1>6 DEF WindowInOrder
<1>8. ASSUME NEW l \in Turns, turn'[l].pc = "compacting",
             NEW n \in Covered(ButLast(turn'[l].history, KeptTail)),
             NEW k \in 1 .. Len(window'), k > Len(window') - KeptTail, window'[k].whole,
             NEW p \in window'[k].covers
      PROVE n < p
  <2>1. turn[l].pc = "compacting" /\ n \in Covered(ButLast(turn[l].history, KeptTail))
    BY <1>3, <1>8
  <2>2. k # 1 BY <1>2, <1>8
  <2>3. k \in 2 .. Len(window') BY <1>4, <2>2
  <2>4. /\ at(k) \in 1 .. Len(window) /\ at(k) > Len(window) - KeptTail
        /\ window'[k] = window[at(k)]
    BY <1>2, <2>3
  <2>5. QED BY <1>8, <2>1, <2>4 DEF OrderInv, SummaryFits
<1>9. QED BY <1>7, <1>8 DEF SummaryFits

LEMMA NextOrder == OrderInv /\ [Next]_vars => OrderInv'
<1> SUFFICES ASSUME OrderInv, [Next]_vars PROVE OrderInv'
  OBVIOUS
<1>1. TypeOK /\ TypeOK' BY NextTypes DEF OrderInv
<1>2. turn \in [Turns -> TurnRecords] /\ said \in Nat /\ window \in Seq(Entries)
  BY <1>1 DEF TypeOK, TurnRecords
<1>3. ASSUME NEW m \in Turns, Receive(m) \/ Answer(m)
      PROVE WindowInOrder' /\ \A l \in Turns : SummaryFits(l)'
  <2>1. said' = said + 1 /\ Push(said + 1) /\ start' = start BY <1>3 DEF Receive, Answer
  <2>2. \A l \in Turns : turn'[l].pc = "compacting" =>
          turn[l].pc = "compacting" /\ turn'[l].history = turn[l].history
    BY <1>2, <1>3 DEF Receive, Answer, TurnRecords
  <2>3. QED BY <2>1, <2>2, PushOrder
<1>4. ASSUME UNCHANGED <<window, said, start>>,
             \A l \in Turns : turn'[l].pc = "compacting" =>
                turn'[l].history = window
                \/ (turn[l].pc = "compacting" /\ turn'[l].history = turn[l].history)
      PROVE WindowInOrder' /\ \A l \in Turns : SummaryFits(l)'
  <2>1. WindowInOrder' BY <1>4 DEF OrderInv, WindowInOrder
  <2>2. ASSUME NEW l \in Turns, turn'[l].pc = "compacting" PROVE SummaryFits(l)'
    <3>1. CASE turn[l].pc = "compacting" /\ turn'[l].history = turn[l].history
      BY <1>4, <3>1 DEF OrderInv, SummaryFits
    <3>2. CASE turn'[l].history = window
      <4>1. SUFFICES ASSUME NEW n \in Covered(ButLast(window, KeptTail)),
                            NEW k \in 1 .. Len(window), k > Len(window) - KeptTail,
                            window[k].whole, NEW p \in window[k].covers
                     PROVE n < p
        BY <1>4, <3>2 DEF SummaryFits
      <4>2. KeptTail \in Nat BY DEF KeptTail
      <4>3. /\ Len(ButLast(window, KeptTail)) =
                 (IF Len(window) <= KeptTail THEN 0 ELSE Len(window) - KeptTail)
            /\ \A i \in 1 .. Len(ButLast(window, KeptTail)) :
                 ButLast(window, KeptTail)[i] = window[i]
        BY ONLY <1>2, <4>2, ButLastParts
      <4>4. PICK j \in 1 .. Len(ButLast(window, KeptTail)) :
              n \in ButLast(window, KeptTail)[j].covers
        BY <4>1, InCovered
      <4>5. Len(window) \in Nat BY <1>2
      <4>6. j \in 1 .. Len(window) /\ j < k BY <4>1, <4>2, <4>3, <4>4, <4>5
      <4>7. n \in window[j].covers BY <4>3, <4>4
      <4>8. QED BY <4>1, <4>6, <4>7 DEF OrderInv, WindowInOrder
    <3>3. QED BY <1>4, <2>2, <3>1, <3>2
  <2>3. QED BY <2>1, <2>2 DEF SummaryFits
<1>5. ASSUME NEW m \in Turns,
             ReadHistory(m) \/ GiveUp(m) \/ CompactStart(m) \/ CompactFailed(m)
      PROVE WindowInOrder' /\ \A l \in Turns : SummaryFits(l)'
  <2>1. UNCHANGED <<window, said, start>>
    BY <1>5 DEF ReadHistory, GiveUp, CompactStart, CompactFailed
  <2>2. \A l \in Turns : turn'[l].pc = "compacting" =>
          turn'[l].history = window
          \/ (turn[l].pc = "compacting" /\ turn'[l].history = turn[l].history)
    <3>1. CASE ReadHistory(m) BY <1>2, <3>1 DEF ReadHistory, TurnRecords
    <3>2. CASE GiveUp(m) BY <1>2, <3>2 DEF GiveUp, TurnRecords
    <3>3. CASE CompactStart(m) BY <1>2, <3>3 DEF CompactStart, TurnRecords
    <3>4. CASE CompactFailed(m) BY <1>2, <3>4 DEF CompactFailed, TurnRecords
    <3>5. QED BY <1>5, <3>1, <3>2, <3>3, <3>4
  <2>3. QED BY <1>4, <2>1, <2>2
<1>6. ASSUME Clear \/ Restart
      PROVE WindowInOrder' /\ \A l \in Turns : SummaryFits(l)'
  <2>1. window' = <<>> /\ said' = said /\ start' = said BY <1>6 DEF Clear, Restart
  <2>2. Len(window') = 0 /\ ~(said' > start') BY <1>2, <2>1
  <2>3. QED BY <2>2 DEF WindowInOrder, SummaryFits
<1>7. ASSUME UNCHANGED vars
      PROVE WindowInOrder' /\ \A l \in Turns : SummaryFits(l)'
  BY <1>4, <1>7 DEF vars
<1>8. WindowInOrder' /\ \A l \in Turns : SummaryFits(l)'
  BY <1>3, <1>5, <1>6, <1>7, CompactOrder DEF Next, TurnStep
<1>9. QED BY <1>1, <1>8 DEF OrderInv

\* Whatever turns, commands and restarts overlap, no entry of the window is later than
\* one behind it, and the newest message is at its end (add_message, replace_with_summary).
THEOREM DialogKeepsOrder == Spec => []WindowInOrder
<1>1. Init => OrderInv
  <2>1. SUFFICES ASSUME Init PROVE OrderInv OBVIOUS
  <2>2. Len(window) = 0 /\ ~(said > start) BY <2>1 DEF Init
  <2>3. QED BY <2>1, <2>2, InitTypes DEF OrderInv, WindowInOrder, SummaryFits
<1>2. OrderInv => WindowInOrder BY DEF OrderInv
<1>3. QED BY <1>1, <1>2, NextOrder, PTL DEF Spec

-----------------------------------------------------------------------------
(* On MAX one thing of the user is under way, and the window is the session. *)

MaxInv ==
    channel = "max" =>
        /\ NothingForgotten /\ OnlyThisSession
        /\ said = start => window = <<>>
        /\ \A l, m \in Turns : Busy(l) /\ Busy(m) => l = m
        /\ \A m \in Turns : turn[m].pc = "compacting" =>
             turn[m].history = window /\ window # <<>>

SessionInv == TypeOK /\ MaxInv

LEMMA PushSession ==
  ASSUME SessionInv, channel = "max", said' = said + 1, Push(said + 1), start' = start
  PROVE NothingForgotten' /\ OnlyThisSession' /\ said' # start' /\ window' # <<>>
<1>1. TypeOK /\ said \in Nat /\ start \in 0 .. said BY DEF SessionInv, TypeOK
<1>2. /\ evicted \subseteq evicted' /\ Len(window') >= 1 /\ window' \in Seq(Entries')
      /\ Covered(window') \cup evicted' = Covered(window) \cup {said + 1} \cup evicted
      /\ Covered(window') \subseteq Covered(window) \cup {said + 1}
  BY <1>1, PushParts
<1>3. NothingForgotten /\ OnlyThisSession BY DEF SessionInv, MaxInv
<1>4. (start + 1) .. (said + 1) = ((start + 1) .. said) \cup {said + 1} BY <1>1
<1>5. NothingForgotten' BY <1>2, <1>3, <1>4 DEF NothingForgotten
<1>6. OnlyThisSession' BY <1>2, <1>3, <1>4 DEF OnlyThisSession
<1>7. said' # start' BY <1>1
<1>8. QED BY <1>2, <1>5, <1>6, <1>7

LEMMA StepSession ==
  ASSUME SessionInv, channel = "max", NEW m \in Turns, TurnStep(m)
  PROVE MaxInv'
<1>1. /\ TypeOK /\ turn \in [Turns -> TurnRecords] /\ window \in Seq(Entries)
      /\ said \in Nat /\ start \in 0 .. said
  BY DEF SessionInv, TypeOK, TurnRecords
<1>2. /\ NothingForgotten /\ OnlyThisSession /\ (said = start => window = <<>>)
      /\ \A l, k \in Turns : Busy(l) /\ Busy(k) => l = k
      /\ \A k \in Turns : turn[k].pc = "compacting" => turn[k].history = window /\ window # <<>>
  BY DEF SessionInv, MaxInv
\* Only m is under way after the step, as the others were not before it.
<1>3. \A l \in Turns : l # m => turn'[l] = turn[l] /\ ~Busy(l)
  <2>1. \A l \in Turns : l # m => turn'[l] = turn[l]
    BY <1>1 DEF TurnStep, Receive, ReadHistory, GiveUp, Answer, CompactStart,
                CompactFailed, Compact, TurnRecords
  <2>2. CASE Receive(m) BY <2>1, <2>2 DEF Receive, MayBegin
  <2>3. CASE ~Receive(m)
    <3>1. Busy(m)
      BY <2>3 DEF TurnStep, ReadHistory, GiveUp, Answer, CompactStart, CompactFailed,
                  Compact, Busy
    <3>2. QED BY <1>2, <2>1, <3>1
  <2>4. QED BY <2>2, <2>3
<1>4. \A l, k \in Turns : Busy(l)' /\ Busy(k)' => l = k BY <1>3 DEF Busy
<1>5. ASSUME NEW l \in Turns, turn'[l].pc = "compacting" PROVE l = m
  BY <1>3, <1>5 DEF Busy
<1>6. CASE Receive(m) \/ Answer(m)
  <2>1. said' = said + 1 /\ Push(said + 1) /\ start' = start BY <1>6 DEF Receive, Answer
  <2>2. turn'[m].pc # "compacting" BY <1>1, <1>6 DEF Receive, Answer, TurnRecords
  <2>3. QED BY <1>4, <1>5, <2>1, <2>2, PushSession DEF MaxInv
<1>7. CASE ReadHistory(m) \/ GiveUp(m) \/ CompactStart(m) \/ CompactFailed(m)
  <2>1. UNCHANGED <<channel, window, said, start, evicted>>
    BY <1>7 DEF ReadHistory, GiveUp, CompactStart, CompactFailed
  <2>2. turn'[m].pc = "compacting" => turn'[m].history = window /\ window # <<>>
    <3>1. CASE CompactStart(m)
      <4>1. Threshold >= 1 /\ Threshold \in Nat BY WindowAssumption
      <4>2. Len(window) >= Threshold => window # <<>> BY <1>1, <4>1
      <4>3. QED BY <1>1, <3>1, <4>1, <4>2 DEF CompactStart, TurnRecords
    <3>2. CASE ReadHistory(m) \/ GiveUp(m) \/ CompactFailed(m)
      BY <1>1, <3>2 DEF ReadHistory, GiveUp, CompactFailed, TurnRecords
    <3>3. QED BY <1>7, <3>1, <3>2
  <2>3. NothingForgotten' /\ OnlyThisSession'
    BY <1>2, <2>1 DEF NothingForgotten, OnlyThisSession, Covered
  <2>4. QED BY <1>2, <1>4, <1>5, <2>1, <2>2, <2>3 DEF MaxInv
<1>8. CASE Compact(m)
  <2>1. UNCHANGED <<channel, said, start, evicted>> BY <1>8 DEF Compact
  <2>2. turn[m].history = window /\ window # <<>> BY <1>2, <1>8 DEF Compact
  <2>3. Covered(window') = Covered(window)
    <3>1. KeptTail \in Nat BY DEF KeptTail
    <3>2. Covered(window') = Covered(ButLast(window, KeptTail)) \cup Covered(Last(window, KeptTail))
      BY <1>1, <1>8, <2>2, CompactParts
    <3>3. Covered(window) = Covered(ButLast(window, KeptTail)) \cup Covered(Last(window, KeptTail))
      BY ONLY <1>1, <3>1, CutCovers
    <3>4. QED BY <3>2, <3>3
  <2>4. NothingForgotten' /\ OnlyThisSession'
    BY <1>2, <2>1, <2>3 DEF NothingForgotten, OnlyThisSession
  <2>5. turn'[m].pc # "compacting" BY <1>1, <1>8 DEF Compact, TurnRecords
  <2>6. QED BY <1>2, <1>4, <1>5, <2>1, <2>2, <2>4, <2>5 DEF MaxInv
<1>9. QED BY <1>6, <1>7, <1>8 DEF TurnStep

LEMMA NextSession == SessionInv /\ [Next]_vars => SessionInv'
<1> SUFFICES ASSUME SessionInv, [Next]_vars PROVE SessionInv'
  OBVIOUS
<1>1. TypeOK /\ TypeOK' BY NextTypes DEF SessionInv
<1>2. channel' = channel
  BY DEF Next, TurnStep, Receive, ReadHistory, GiveUp, Answer, CompactStart,
         CompactFailed, Compact, Clear, Restart, vars
<1>3. MaxInv'
  <2>1. SUFFICES ASSUME channel = "max" PROVE MaxInv'
    BY <1>2 DEF MaxInv
  <2>2. CASE Clear \/ Restart
    <3>1. window' = <<>> /\ start' = said /\ said' = said /\ said \in Nat
      BY <1>1, <2>2 DEF Clear, Restart, TypeOK
    <3>2. (start' + 1) .. said' = {} BY <3>1
    <3>3. Covered(window') = {} BY <3>1 DEF Covered
    <3>4. \A l \in Turns : ~Busy(l)'
      <4>1. CASE Clear BY <2>1, <4>1 DEF Clear, MayBegin, Busy
      <4>2. CASE Restart BY <4>2 DEF Restart, Busy, NoTurn
      <4>3. QED BY <2>2, <4>1, <4>2
    <3>5. QED BY <3>1, <3>2, <3>3, <3>4 DEF MaxInv, NothingForgotten, OnlyThisSession, Busy
  <2>3. CASE UNCHANGED vars
    BY <2>3 DEF SessionInv, MaxInv, vars, NothingForgotten, OnlyThisSession, Covered, Busy
  <2>4. QED BY <2>1, <2>2, <2>3, StepSession DEF Next
<1>4. QED BY <1>1, <1>3 DEF SessionInv

LEMMA InitSession == Init => SessionInv
<1> SUFFICES ASSUME Init PROVE SessionInv
  OBVIOUS
<1>1. said = 0 /\ start = 0 /\ window = <<>> /\ \A m \in Turns : turn[m].pc = "idle"
  BY DEF Init, NoTurn
<1>2. (start + 1) .. said = {} BY <1>1
<1>3. Covered(window) = {} BY <1>1 DEF Covered
<1>4. QED BY <1>1, <1>2, <1>3, InitTypes
          DEF SessionInv, MaxInv, NothingForgotten, OnlyThisSession, Busy

\* On MAX the model is shown the whole session, in its own words or in a summary, but
\* what a full window dropped, and nothing of a session that was closed.
THEOREM MaxShowsSession == Spec => []WindowIsSession
<1>1. SessionInv => WindowIsSession BY DEF SessionInv, MaxInv, WindowIsSession
<1>2. QED BY <1>1, InitSession, NextSession, PTL DEF Spec

-----------------------------------------------------------------------------
(* Which messages the archive is asked about.                              *)

BootInv ==
    channel = "max" => \A m \in Turns :
        /\ turn[m].pc = "heard" => (turn[m].first <=> Len(window) = 1)
        /\ turn[m].pc = "thinking" => (turn[m].boot <=> turn[m].first)

AskedInv == OrderInv /\ SessionInv /\ BootInv

LEMMA NextBoot ==
  ASSUME MaxMessages >= 2, AskedInv, [Next]_vars
  PROVE BootInv'
<1>1. /\ TypeOK /\ turn \in [Turns -> TurnRecords] /\ window \in Seq(Entries)
      /\ said \in Nat /\ start \in 0 .. said /\ MaxMessages \in Nat
  BY WindowAssumption DEF AskedInv, SessionInv, TypeOK, TurnRecords
<1>2. channel' = channel
  BY DEF Next, TurnStep, Receive, ReadHistory, GiveUp, Answer, CompactStart,
         CompactFailed, Compact, Clear, Restart, vars
<1>3. SUFFICES ASSUME channel = "max" PROVE BootInv'
  BY <1>2 DEF BootInv
<1>4. \A l, k \in Turns : Busy(l) /\ Busy(k) => l = k
  BY <1>3 DEF AskedInv, SessionInv, MaxInv
<1>5. ASSUME NEW m \in Turns, TurnStep(m), NEW l \in Turns,
             turn'[l].pc \in {"heard", "thinking"}
      PROVE l = m
  <2>1. l # m => turn'[l] = turn[l]
    BY <1>1, <1>5 DEF TurnStep, Receive, ReadHistory, GiveUp, Answer, CompactStart,
                      CompactFailed, Compact, TurnRecords
  <2>2. CASE Receive(m) BY <1>3, <1>5, <2>1, <2>2 DEF Receive, MayBegin, Busy
  <2>3. CASE ~Receive(m)
    <3>1. Busy(m)
      BY <1>5, <2>3 DEF TurnStep, ReadHistory, GiveUp, Answer, CompactStart, CompactFailed,
                        Compact, Busy
    <3>2. QED BY <1>4, <1>5, <2>1, <3>1 DEF Busy
  <2>4. QED BY <2>2, <2>3
<1>6. ASSUME NEW m \in Turns, TurnStep(m) PROVE BootInv'
  <2>1. CASE Receive(m)
    <3>1. turn'[m].pc = "heard" /\ (turn'[m].first <=> said = start)
      BY <1>1, <2>1 DEF Receive, TurnRecords
    <3>2. Len(window') = (IF Len(window) < MaxMessages THEN Len(window) + 1 ELSE MaxMessages)
      BY <1>1, <2>1, PushParts DEF Receive
    <3>3. said = start <=> window = <<>>
      <4>1. said = start => window = <<>> BY <1>3 DEF AskedInv, SessionInv, MaxInv
      <4>2. said > start => window # <<>> BY DEF AskedInv, OrderInv, WindowInOrder
      <4>3. QED BY <1>1, <4>1, <4>2
    <3>4. window = <<>> <=> Len(window) = 0 BY <1>1
    <3>5. said = start <=> Len(window') = 1
      <4>1. Len(window) \in Nat BY <1>1
      <4>2. QED BY <1>1, <3>2, <3>3, <3>4, <4>1
    <3>6. QED BY <1>5, <1>6, <3>1, <3>5 DEF BootInv
  <2>2. CASE ReadHistory(m)
    <3>1. /\ turn'[m].pc = "thinking" /\ turn'[m].first = turn[m].first
          /\ turn[m].pc = "heard" /\ (turn'[m].boot <=> Len(window) = 1)
      BY <1>1, <2>2 DEF ReadHistory, TurnRecords
    <3>2. turn[m].first <=> Len(window) = 1 BY <1>3, <3>1 DEF AskedInv, BootInv
    <3>3. QED BY <1>5, <1>6, <3>1, <3>2 DEF BootInv
  <2>3. CASE GiveUp(m) \/ Answer(m) \/ CompactStart(m) \/ CompactFailed(m) \/ Compact(m)
    <3>1. turn'[m].pc \notin {"heard", "thinking"}
      BY <1>1, <2>3 DEF GiveUp, Answer, CompactStart, CompactFailed, Compact, TurnRecords
    <3>2. QED BY <1>5, <1>6, <3>1 DEF BootInv
  <2>4. QED BY <1>6, <2>1, <2>2, <2>3 DEF TurnStep
<1>7. CASE Clear BY <1>3, <1>7 DEF Clear, MayBegin, Busy, BootInv
<1>8. CASE Restart BY <1>1, <1>8 DEF Restart, Busy, BootInv, NoTurn
<1>9. CASE UNCHANGED vars BY <1>9 DEF vars, AskedInv, BootInv
<1>10. QED BY <1>6, <1>7, <1>8, <1>9 DEF Next

\* With a window of two or more, a turn on MAX asks the archive if and only if its
\* message is the first of its session; a window of one is always "the first message".
THEOREM ArchiveAskedOnce == MaxMessages >= 2 /\ Spec => []BootstrapsFirstTurn
<1>1. Init => AskedInv
  <2>1. SUFFICES ASSUME Init PROVE AskedInv OBVIOUS
  <2>2. Len(window) = 0 /\ ~(said > start) /\ \A m \in Turns : turn[m].pc = "idle"
    BY <2>1 DEF Init, NoTurn
  <2>3. OrderInv BY <2>1, <2>2, InitTypes DEF OrderInv, WindowInOrder, SummaryFits
  <2>4. QED BY <2>1, <2>2, <2>3, InitSession DEF AskedInv, BootInv
<1>2. MaxMessages >= 2 /\ AskedInv /\ [Next]_vars => AskedInv'
  BY NextOrder, NextSession, NextBoot DEF AskedInv
<1>3. AskedInv => BootstrapsFirstTurn
  <2>1. SUFFICES ASSUME AskedInv, NEW m \in Turns, channel = "max", turn[m].pc = "thinking"
                 PROVE turn[m].boot = turn[m].first
    BY DEF BootstrapsFirstTurn
  <2>2. turn[m].boot \in BOOLEAN /\ turn[m].first \in BOOLEAN
    <3>1. TypeOK BY <2>1 DEF AskedInv, SessionInv
    <3>2. turn \in [Turns -> TurnRecords] BY <3>1 DEF TypeOK, TurnRecords
    <3>3. QED BY <3>2 DEF TurnRecords
  <2>3. turn[m].boot <=> turn[m].first BY <2>1 DEF AskedInv, BootInv
  <2>4. QED BY <2>2, <2>3
<1>4. CASE MaxMessages >= 2
  <2>1. AskedInv /\ [Next]_vars => AskedInv' BY <1>2, <1>4
  <2>2. QED BY <1>1, <1>3, <2>1, PTL DEF Spec
<1>5. QED BY <1>4

=============================================================================
