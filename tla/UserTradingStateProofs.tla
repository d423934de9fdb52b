------------------------ MODULE UserTradingStateProofs ------------------------
(***************************************************************************)
(* Safety of UserTradingState for all values of its constants.             *)
(*                                                                         *)
(* Each copy of the state is good by itself: it was made from a good one   *)
(* by an operator that keeps journal, positions and limit together, or it  *)
(* was handed on whole.  So it does not matter which copy replaces which.  *)
(* The exception is an UPDATE that sets some columns of a row another has  *)
(* changed since the SELECT.  It takes a request without the lock in Redis: *)
(* of those that have it, each finds its own token there until the lock    *)
(* expires, so there is one, and the row is still the one it has loaded.   *)
(***************************************************************************)
EXTENDS UserTradingState, FiniteSetTheorems, SequenceTheorems, TLAPS

Sound(x) == overwritten \/ Coherent(x)
Within(x) == IsFiniteSet(x.held) /\ Cardinality(x.held) <= MaxPositions

GoodStates == {x \in State : Sound(x) /\ Within(x)}
GoodRows == {x \in Row : Sound(x) /\ Within(x)}
GoodPayloads == [row : GoodRows, loaded : Row \cup {None}]

CopiesInv ==
    /\ objs \in [Objects -> GoodStates \cup {None}]
    /\ shared \in GoodStates \cup {None}
    /\ saved \in GoodRows \cup {None}
    /\ got \in [Calls -> GoodStates \cup {None}]
    /\ payload \in [Calls -> GoodPayloads \cup {None}]
    /\ value \in [Calls -> GoodStates \cup {None}]

\* The types of the rest.
ControlOK ==
    /\ today \in Nat
    /\ lock \in Calls \cup {None, Lost}
    /\ lapsed \in BOOLEAN /\ bypassed \in BOOLEAN /\ overwritten \in BOOLEAN
    /\ current \in [Workers -> Objects \cup {None}]
    /\ manager \in [Workers -> Calls \cup {None}]
    /\ busy \in [Objects -> Calls \cup {None}]
    /\ pc \in [Calls -> PCs]
    /\ obj \in [Calls -> Objects \cup {None}]
    /\ op \in [Calls -> Operation \cup {None}]
    /\ acquired \in [Calls -> BOOLEAN]
    /\ ops \in Nat /\ crashes \in Nat

\* What a request holds at each point, and that no object it may use is gone.
Operating == {"lock", "fetch", "apply", "enter", "select", "commit", "put"}
Working == Operating \cup {"fetchState", "applyState", "ready"}

CallOK(c) ==
    /\ obj[c] # None => objs[obj[c]] # None
    /\ pc[c] \in Working => obj[c] # None
    /\ pc[c] \in Operating => op[c] # None
    /\ pc[c] \in {"select", "commit"} => payload[c] # None
    /\ pc[c] = "put" => value[c] # None

ReferencesInv ==
    /\ \A c \in Calls : CallOK(c)
    /\ \A w \in Workers : current[w] # None => objs[current[w]] # None

\* Who works on the state has the lock or has gone on without it, and the lock
\* is held by whoever was given it, as long as it has not expired.
Inside == {"fetch", "apply", "enter", "select", "commit", "put"}

LockInv ==
    /\ \A c \in Calls : pc[c] \in {"release", "delete"} => acquired[c]
    /\ \A c \in Calls : pc[c] \in Inside => acquired[c] \/ bypassed
    /\ \A c \in Calls : acquired[c] => lapsed \/ lock = c

\* The row is still the one the SELECT has loaded, unless the lock has failed.
Unlocked == lapsed \/ bypassed

LoadedOK(c) ==
    pc[c] = "commit" /\ payload[c].loaded # None
       => saved # None /\ (Unlocked \/ saved = payload[c].loaded)

TableInv ==
    /\ \A c \in Calls : LoadedOK(c)
    /\ overwritten => Unlocked

\* What is to be written has the outcome of the operation.
OutcomeInv ==
    \A c \in Calls :
        pc[c] \in {"select", "commit"} /\ op[c].kind # "halt"
           => HasOutcome(op[c], payload[c].row)

IInv == ControlOK /\ CopiesInv /\ ReferencesInv /\ LockInv /\ TableInv

-----------------------------------------------------------------------------
\* A journal that is not too long is kept whole.
LEMMA LatestOfJournal ==
  ASSUME NEW j \in Journal
  PROVE  Latest(j) = j /\ j \in Seq(Event)
BY DEF Latest, Journal

\* What is kept of a longer one are its last entries.
LEMMA LatestIsSuffix ==
  ASSUME NEW j \in Seq(Event)
  PROVE  /\ Latest(j) \in Journal
         /\ \E d \in Nat :
               /\ Len(Latest(j)) = Len(j) - d
               /\ \A i \in 1 .. Len(Latest(j)) : Latest(j)[i] = j[i + d]
         /\ j # <<>> => Latest(j) # <<>>
<1>1. Len(j) \in Nat /\ MaxJournal \in Nat \ {0}
  BY LenProperties, ConstantsAssumption
<1>2. CASE Len(j) <= MaxJournal
  <2>1. Latest(j) = j
    BY <1>2 DEF Latest
  <2>2. Len(j) = Len(j) - 0 /\ \A i \in 1 .. Len(j) : j[i] = j[i + 0]
    BY <1>1
  <2>3. Latest(j) \in Journal
    BY <1>2, <2>1 DEF Journal
  <2>4. \E d \in Nat : /\ Len(Latest(j)) = Len(j) - d
                      /\ \A i \in 1 .. Len(Latest(j)) : Latest(j)[i] = j[i + d]
    <3>1. /\ Len(Latest(j)) = Len(j) - 0
          /\ \A i \in 1 .. Len(Latest(j)) : Latest(j)[i] = j[i + 0]
      BY <2>1, <2>2
    <3> QED BY <3>1
  <2> QED BY <2>1, <2>3, <2>4
<1>3. CASE ~(Len(j) <= MaxJournal)
  <2> DEFINE d == Len(j) - MaxJournal
             l == SubSeq(j, d + 1, Len(j))
  <2>1. d \in Nat /\ d + 1 \in Int /\ Len(j) \in Int /\ d + 1 <= Len(j)
    BY <1>1, <1>3
  <2>2. Latest(j) = l
    BY <1>3 DEF Latest
  <2>3. \A i \in d + 1 .. Len(j) : j[i] \in Event
    BY <2>1, ElementOfSeq
  <2> HIDE DEF d
  <2>4. /\ l \in Seq(Event)
        /\ Len(l) = IF d + 1 <= Len(j) THEN Len(j) - (d + 1) + 1 ELSE 0
        /\ \A i \in 1 .. Len(j) - (d + 1) + 1 : l[i] = j[d + 1 + i - 1]
    BY <2>1, <2>3, SubSeqProperties
  <2>5. d = Len(j) - MaxJournal
    BY DEF d
  <2> HIDE DEF l
  <2>6. Len(l) = Len(j) - d /\ Len(l) = MaxJournal
    BY <1>1, <2>1, <2>4, <2>5
  <2>7. \A i \in 1 .. Len(l) : l[i] = j[i + d]
    BY <1>1, <2>1, <2>4, <2>6
  <2>8. l # <<>>
    BY <1>1, <2>6, EmptySeq
  <2>9. l \in Journal
    BY <1>1, <2>4, <2>6 DEF Journal
  <2>10. \E e \in Nat : /\ Len(l) = Len(j) - e
                       /\ \A i \in 1 .. Len(l) : l[i] = j[i + e]
    BY <2>1, <2>6, <2>7
  <2> QED BY <2>2, <2>8, <2>9, <2>10
<1> QED BY <1>2, <1>3

\* The newest entry is never forgotten.
LEMMA NewestIsKept ==
  ASSUME NEW j \in Journal, NEW e \in Event
  PROVE  LET l == Latest(Append(j, e)) IN
         l \in Journal /\ l # <<>> /\ l[Len(l)] = e
<1> DEFINE a == Append(j, e)
           l == Latest(a)
<1>1. /\ a \in Seq(Event) /\ a # <<>>
      /\ Len(a) = Len(j) + 1 /\ a[Len(j) + 1] = e /\ Len(j) \in Nat
  BY LatestOfJournal, AppendProperties, LenProperties
<1> HIDE DEF a
<1>2. l \in Journal /\ l # <<>>
  BY <1>1, LatestIsSuffix
<1>3. PICK d \in Nat : /\ Len(l) = Len(a) - d
                       /\ \A i \in 1 .. Len(l) : l[i] = a[i + d]
  BY <1>1, LatestIsSuffix
<1>4. Len(l) \in Nat \ {0}
  BY <1>2, EmptySeq, LatestOfJournal
<1> HIDE DEF l
<1>5. l[Len(l)] = a[Len(l) + d] /\ Len(l) + d = Len(j) + 1
  BY <1>1, <1>3, <1>4
<1>6. l \in Journal /\ l # <<>> /\ l[Len(l)] = e
  BY <1>1, <1>2, <1>5
<1> QED BY <1>6 DEF a, l

\* A coherent state stays coherent when the oldest entries are forgotten.
LEMMA SuffixCoherent ==
  ASSUME NEW x, NEW y, x.journal \in Seq(Event), Coherent(x),
         y.held = x.held, y.journal = Latest(x.journal)
  PROVE  Coherent(y)
<1> DEFINE j == x.journal
           l == y.journal
<1>1. PICK d \in Nat : /\ Len(l) = Len(j) - d
                       /\ \A i \in 1 .. Len(l) : l[i] = j[i + d]
  <2>1. l = Latest(j) /\ j \in Seq(Event)
    OBVIOUS
  <2> HIDE DEF l, j
  <2> QED BY <2>1, LatestIsSuffix
<1>2. /\ l \in Seq(Event) /\ Len(l) \in Nat /\ Len(j) \in Nat
      /\ DOMAIN l = 1 .. Len(l) /\ DOMAIN j = 1 .. Len(j)
  <2>1. l \in Seq(Event)
    BY LatestIsSuffix DEF Journal
  <2> QED BY <2>1, LenProperties
<1> HIDE DEF j, l
<1> SUFFICES ASSUME NEW i \in 1 .. Len(l)
             PROVE  /\ LastOf(l, i)
                          => (l[i].event = "OPEN" <=> l[i].symbol \in x.held)
                    /\ \A k \in 1 .. Len(l) :
                          NextOf(l, i, k) => l[i].event # l[k].event
  BY <1>2 DEF Coherent, l
<1>3. i + d \in 1 .. Len(j) /\ l[i] = j[i + d]
  BY <1>1, <1>2
<1>4. ASSUME LastOf(l, i)
      PROVE  l[i].event = "OPEN" <=> l[i].symbol \in x.held
  <2>1. ASSUME NEW m \in (i + d) + 1 .. Len(j)
        PROVE  j[m].symbol # j[i + d].symbol
    <3>1. m - d \in i + 1 .. Len(l) /\ m - d \in 1 .. Len(l) /\ (m - d) + d = m
      BY <1>1, <1>2
    <3>2. l[m - d] = j[m]
      BY <1>1, <3>1
    <3> QED BY <1>3, <1>4, <3>1, <3>2 DEF LastOf
  <2>2. LastOf(j, i + d)
    BY <2>1 DEF LastOf
  <2> QED BY <1>2, <1>3, <2>2 DEF Coherent, j
<1>5. ASSUME NEW k \in 1 .. Len(l), NextOf(l, i, k)
      PROVE  l[i].event # l[k].event
  <2>1. k + d \in 1 .. Len(j) /\ l[k] = j[k + d] /\ i + d < k + d
    BY <1>1, <1>2, <1>5 DEF NextOf
  <2>2. ASSUME NEW m \in (i + d) + 1 .. (k + d) - 1
        PROVE  j[m].symbol # j[i + d].symbol
    <3>1. m - d \in i + 1 .. k - 1 /\ m - d \in 1 .. Len(l) /\ (m - d) + d = m
      <4>1. k \in Nat /\ k <= Len(l) /\ i \in Nat /\ 1 <= i /\ m \in Int
        BY <1>2, <1>5
      <4> QED BY <1>2, <4>1
    <3>2. l[m - d] = j[m]
      BY <1>1, <3>1
    <3> QED BY <1>3, <1>5, <3>1, <3>2 DEF NextOf
  <2>3. NextOf(j, i + d, k + d)
    BY <1>3, <1>5, <2>1, <2>2 DEF NextOf
  <2> QED BY <1>2, <1>3, <2>1, <2>3 DEF Coherent, j
<1> QED BY <1>4, <1>5

\* A new entry takes its turn and explains what has become of its symbol.
LEMMA EntryCoherent ==
  ASSUME NEW x, NEW y, x.journal \in Seq(Event), Coherent(x),
         NEW s \in Symbols, NEW e \in {"OPEN", "CLOSE"},
         y.journal = Append(x.journal, [event |-> e, symbol |-> s]),
         s \in x.held <=> e = "CLOSE", s \in y.held <=> e = "OPEN",
         \A p \in Symbols \ {s} : p \in y.held <=> p \in x.held
  PROVE  Coherent(y)
<1> DEFINE j == x.journal
           a == y.journal
           n == Len(j) + 1
           v == [event |-> e, symbol |-> s]
<1>1. /\ a \in Seq(Event) /\ Len(j) \in Nat /\ Len(a) = n
      /\ a[n] = v /\ \A i \in 1 .. Len(j) : a[i] = j[i]
      /\ DOMAIN a = 1 .. n /\ DOMAIN j = 1 .. Len(j)
  <2>1. v \in Event
    BY DEF Event
  <2>2. /\ a \in Seq(Event) /\ Len(a) = Len(j) + 1
        /\ \A i \in 1 .. Len(j) : a[i] = j[i]
        /\ a[Len(j) + 1] = v
    BY <2>1, AppendProperties
  <2> QED BY <2>2, LenProperties
<1>2. v.event = e /\ v.symbol = s
  OBVIOUS
<1> HIDE DEF j, a, v
<1> SUFFICES ASSUME NEW i \in 1 .. n
             PROVE  /\ LastOf(a, i)
                          => (a[i].event = "OPEN" <=> a[i].symbol \in y.held)
                    /\ \A k \in 1 .. n :
                          NextOf(a, i, k) => a[i].event # a[k].event
  BY <1>1 DEF Coherent, a
<1>3. CASE i = n
  <2>1. a[i].event = "OPEN" <=> a[i].symbol \in y.held
    BY <1>1, <1>2, <1>3
  <2>2. ASSUME NEW k \in 1 .. n PROVE ~NextOf(a, i, k)
    BY <1>1, <1>3 DEF NextOf
  <2> QED BY <2>1, <2>2
<1>4. CASE i # n
  <2>1. i \in 1 .. Len(j) /\ a[i] = j[i] /\ j[i] \in Event
    BY <1>1, <1>4, ElementOfSeq DEF j
  <2>2. j[i].event \in {"OPEN", "CLOSE"} /\ j[i].symbol \in Symbols
    BY <2>1 DEF Event
  <2>3. LastOf(j, i) => (j[i].event = "OPEN" <=> j[i].symbol \in x.held)
    BY <1>1, <2>1 DEF Coherent, j
  <2>4. ASSUME LastOf(a, i)
        PROVE  a[i].event = "OPEN" <=> a[i].symbol \in y.held
    <3>1. a[i].symbol # s
      BY <1>1, <1>2, <2>1, <2>4 DEF LastOf
    <3>2. LastOf(j, i)
      BY <1>1, <2>1, <2>4 DEF LastOf
    <3> QED BY <2>1, <2>2, <2>3, <3>1, <3>2
  <2>5. ASSUME NEW k \in 1 .. n, NextOf(a, i, k)
        PROVE  a[i].event # a[k].event
    <3>1. CASE k = n
      <4>1. a[k] = v /\ j[i].symbol = s
        BY <1>1, <1>2, <2>1, <2>5, <3>1 DEF NextOf
      <4>2. LastOf(j, i)
        BY <1>1, <2>1, <2>5, <3>1 DEF NextOf, LastOf
      <4> QED BY <1>2, <2>1, <2>2, <2>3, <4>1, <4>2
    <3>2. CASE k # n
      <4>1. k \in 1 .. Len(j) /\ a[k] = j[k]
        BY <1>1, <3>2
      <4>2. NextOf(j, i, k)
        BY <1>1, <2>1, <2>5, <4>1 DEF NextOf
      <4> QED BY <1>1, <2>1, <4>1, <4>2 DEF Coherent, j
    <3> QED BY <3>1, <3>2
  <2> QED BY <2>4, <2>5
<1> QED BY <1>3, <1>4

\* Without a journal there is nothing to explain.
LEMMA EmptyCoherent == ASSUME NEW x, x.journal = <<>> PROVE Coherent(x)
BY DEF Coherent

\* No entries are a journal.
LEMMA NoEntries == <<>> \in Journal
BY ConstantsAssumption, EmptySeq DEF Journal

\* A new object is good.
LEMMA FreshGood ==
  ASSUME NEW d \in Nat
  PROVE  Fresh(d) \in GoodStates
<1>1. Fresh(d) \in State
  BY ConstantsAssumption, NoEntries DEF Fresh, State
<1>2. Sound(Fresh(d))
  BY EmptyCoherent DEF Sound, Fresh
<1>3. Within(Fresh(d))
  BY ConstantsAssumption, FS_EmptySet DEF Within, Fresh
<1> QED BY <1>1, <1>2, <1>3 DEF GoodStates

\* So is the baseline row.
LEMMA EmptyRowGood == EmptyRow \in GoodRows
<1>1. EmptyRow \in Row
  BY ConstantsAssumption, NoEntries DEF EmptyRow, Row
<1>2. Sound(EmptyRow)
  BY EmptyCoherent DEF Sound, EmptyRow
<1>3. Within(EmptyRow)
  BY ConstantsAssumption, FS_EmptySet DEF Within, EmptyRow
<1> QED BY <1>1, <1>2, <1>3 DEF GoodRows

\* Whether a state is sound depends on its positions and its journal only.
LEMMA SoundSame ==
  ASSUME NEW x, NEW y, Sound(x), y.held = x.held, y.journal = x.journal
  PROVE  Sound(y)
BY DEF Sound, Coherent

\* An object restored from a good row is good.
LEMMA RestoredGood ==
  ASSUME NEW r \in GoodRows, today \in Nat
  PROVE  Restored(r) \in GoodStates
<1>1. r \in Row /\ Sound(r) /\ Within(r) /\ Latest(r.journal) = r.journal
  BY LatestOfJournal DEF GoodRows, Row
<1>2. Restored(r) \in State
  <2> DEFINE c == IF r.capital > 0 THEN r.capital ELSE 0
  <2>1. /\ r.held \in SUBSET Symbols /\ r.journal \in Journal
        /\ c \in Int
    BY <1>1 DEF Row
  <2>2. Restored(r) =
          [held |-> r.held, journal |-> r.journal, capital |-> c, daily |-> 0,
           trades |-> 0, halted |-> FALSE, day |-> today]
    <3> DEFINE f == Fresh(today)
    <3>1. f = [held |-> {}, journal |-> <<>>, capital |-> Capital,
               daily |-> 0, trades |-> 0, halted |-> FALSE, day |-> today]
      BY DEF Fresh
    <3>2. Restored(r) = [f EXCEPT !.held = r.held, !.journal = r.journal,
                                  !.capital = c]
      BY <1>1 DEF Restored
    <3> HIDE DEF f, c
    <3> QED BY <3>1, <3>2
  <2> HIDE DEF c
  <2> QED BY <2>1, <2>2 DEF State
<1>3. Restored(r).held = r.held /\ Restored(r).journal = r.journal
  BY <1>1 DEF Restored, Fresh
<1>4. Sound(Restored(r)) /\ Within(Restored(r))
  BY <1>1, <1>3, SoundSame DEF Within
<1> QED BY <1>2, <1>4 DEF GoodStates

\* The row of a good object is good.
LEMMA RowOfGood ==
  ASSUME NEW x \in GoodStates
  PROVE  /\ RowOf(x) \in GoodRows
         /\ RowOf(x).held = x.held /\ RowOf(x).journal = x.journal
<1>1. x \in State /\ Sound(x) /\ Within(x) /\ Latest(x.journal) = x.journal
  BY LatestOfJournal DEF GoodStates, State
<1>2. RowOf(x) \in Row /\ RowOf(x).held = x.held /\ RowOf(x).journal = x.journal
  BY <1>1 DEF RowOf, State, Row
<1> QED BY <1>1, <1>2, SoundSame DEF GoodRows, Within

\* can_trade changes neither positions nor journal.
LEMMA CheckedGood ==
  ASSUME NEW x \in GoodStates, today \in Nat
  PROVE  /\ Checked(x) \in GoodStates
         /\ Checked(x).held = x.held /\ Checked(x).journal = x.journal
<1> DEFINE y == NewDay(x)
<1>1. x \in State
  BY DEF GoodStates
<1>2. y \in State /\ y.held = x.held /\ y.journal = x.journal
  <2>1. CASE x.day = today
    BY <1>1, <2>1 DEF NewDay
  <2>2. CASE x.day # today
    <3>1. y = [held |-> x.held, journal |-> x.journal, capital |-> x.capital,
               daily |-> 0, trades |-> 0, halted |-> FALSE, day |-> today]
      BY <1>1, <2>2 DEF NewDay, State
    <3> HIDE DEF y
    <3> QED BY <1>1, <3>1 DEF State
  <2> QED BY <2>1, <2>2
<1>3. /\ Checked(x) \in State
      /\ Checked(x).held = x.held /\ Checked(x).journal = x.journal
  <2> DEFINE h == y.halted \/ (~LimitHit(y) /\ y.capital <= MinBalance)
  <2>1. h \in BOOLEAN
    OBVIOUS
  <2>2. Checked(x) = [y EXCEPT !.halted = h]
    BY DEF Checked
  <2> HIDE DEF y, h
  <2> QED BY <1>2, <2>1, <2>2 DEF State
<1>4. Sound(Checked(x)) /\ Within(Checked(x))
  BY <1>3, SoundSame DEF GoodStates, Within
<1> QED BY <1>3, <1>4 DEF GoodStates

\* An operation that changes one position and says so in the journal keeps
\* states sound.
LEMMA LoggedSound ==
  ASSUME NEW x, NEW z, x.journal \in Journal, Sound(x),
         NEW s \in Symbols, NEW e \in {"OPEN", "CLOSE"},
         z.journal = Logged(x, e, s),
         s \in x.held <=> e = "CLOSE", s \in z.held <=> e = "OPEN",
         \A p \in Symbols \ {s} : p \in z.held <=> p \in x.held
  PROVE  Sound(z)
<1>1. CASE overwritten
  BY <1>1 DEF Sound
<1>2. CASE ~overwritten
  <2> DEFINE v == [event |-> e, symbol |-> s]
             y == [held |-> z.held, journal |-> Append(x.journal, v)]
  <2>1. v \in Event /\ x.journal \in Seq(Event)
    BY LatestOfJournal DEF Event
  <2>2. y.journal = Append(x.journal, v) /\ y.held = z.held
    OBVIOUS
  <2>3. y.journal \in Seq(Event)
    BY <2>1, <2>2, AppendProperties
  <2>4. z.journal = Latest(y.journal)
    BY <2>2 DEF Logged
  <2> HIDE DEF y
  <2>5. Coherent(x)
    BY <1>2 DEF Sound
  <2>6. Coherent(y)
    BY <2>1, <2>2, <2>5, EntryCoherent
  <2>7. Coherent(z)
    BY <2>2, <2>3, <2>4, <2>6, SuffixCoherent
  <2> QED BY <2>7 DEF Sound
<1> QED BY <1>1, <1>2

\* What is logged is a journal with the new entry at its end.
LEMMA LoggedJournal ==
  ASSUME NEW x, x.journal \in Journal,
         NEW s \in Symbols, NEW e \in {"OPEN", "CLOSE"}
  PROVE  LET l == Logged(x, e, s) IN
         /\ l \in Journal /\ l # <<>>
         /\ l[Len(l)] = [event |-> e, symbol |-> s]
<1>1. [event |-> e, symbol |-> s] \in Event
  BY DEF Event
<1> QED BY <1>1, NewestIsKept DEF Logged

\* A position is opened only below the limit, and the journal says so.
LEMMA OpenedGood ==
  ASSUME NEW x \in GoodStates, NEW s \in Symbols, today \in Nat,
         CanTrade(x), s \notin x.held
  PROVE  /\ Opened(x, s) \in GoodStates
         /\ s \in Opened(x, s).held
         /\ Opened(x, s).journal = Logged(x, "OPEN", s)
<1> DEFINE y == Checked(x)
           z == Opened(x, s)
<1>1. y \in GoodStates /\ y.held = x.held /\ y.journal = x.journal
  BY CheckedGood
<1>2. y \in State /\ Sound(y) /\ Within(y)
  BY <1>1 DEF GoodStates
<1>3. z = [y EXCEPT !.held = @ \cup {s}, !.journal = Logged(x, "OPEN", s)]
  BY DEF Opened
<1>4. /\ z \in State
      /\ z.held = y.held \cup {s}
      /\ z.journal = Logged(x, "OPEN", s)
  <2> DEFINE j == Logged(x, "OPEN", s)
  <2>1. y.held \in SUBSET Symbols /\ y.journal \in Journal
    BY <1>2 DEF State
  <2>2. j \in Journal
    BY <1>1, <2>1, LoggedJournal
  <2> HIDE DEF y, z, j
  <2>3. z = [held |-> y.held \cup {s}, journal |-> j, capital |-> y.capital,
             daily |-> y.daily, trades |-> y.trades, halted |-> y.halted,
             day |-> y.day]
    BY <1>2, <1>3 DEF State, j
  <2>4. z \in State
    BY <1>2, <2>1, <2>2, <2>3 DEF State
  <2> QED BY <2>3, <2>4 DEF j
<1>5. Sound(z)
  <2>1. y.journal \in Journal /\ z.journal = Logged(y, "OPEN", s)
    BY <1>1, <1>2, <1>4 DEF State, Logged
  <2> HIDE DEF y, z
  <2> QED BY <1>1, <1>2, <1>4, <2>1, LoggedSound
<1>6. Within(z)
  <2>1. Cardinality(x.held) < MaxPositions
    <3>1. NewDay(x).held = x.held
      BY DEF NewDay, GoodStates, State
    <3>2. IsFiniteSet(x.held)
      BY DEF GoodStates, Within
    <3>3. Cardinality(x.held) \in Nat
      BY <3>2, FS_CardinalityType
    <3>4. ~(Cardinality(x.held) >= MaxPositions)
      BY <3>1 DEF CanTrade, LimitHit
    <3> QED BY <3>3, <3>4, ConstantsAssumption
  <2>2. IsFiniteSet(y.held)
    BY <1>2 DEF Within
  <2>3. /\ IsFiniteSet(y.held \cup {s})
        /\ Cardinality(y.held \cup {s}) = Cardinality(y.held) + 1
    BY <1>1, <2>2, FS_AddElement
  <2>4. Cardinality(y.held) \in Nat
    BY <2>2, FS_CardinalityType
  <2>5. Cardinality(z.held) <= MaxPositions /\ IsFiniteSet(z.held)
    <3> HIDE DEF y, z
    <3> QED BY <1>1, <1>4, <2>1, <2>3, <2>4, ConstantsAssumption
  <2> QED BY <2>5 DEF Within
<1>7. s \in z.held
  <2> HIDE DEF y, z
  <2> QED BY <1>4
<1> QED BY <1>4, <1>5, <1>6, <1>7 DEF GoodStates

\* Closing a position takes it away and says so.
LEMMA ClosedGood ==
  ASSUME NEW x \in GoodStates, NEW s \in x.held, NEW pnl \in Int
  PROVE  /\ Closed(x, s, pnl) \in GoodStates
         /\ s \notin Closed(x, s, pnl).held
         /\ Closed(x, s, pnl).journal = Logged(x, "CLOSE", s)
<1> DEFINE z == Closed(x, s, pnl)
<1>1. x \in State /\ Sound(x) /\ Within(x) /\ s \in Symbols
  BY DEF GoodStates, State
<1>2. /\ z \in State
      /\ z.held = x.held \ {s}
      /\ z.journal = Logged(x, "CLOSE", s)
  <2> DEFINE j == Logged(x, "CLOSE", s)
  <2>1. x.held \in SUBSET Symbols /\ x.journal \in Journal
    BY <1>1 DEF State
  <2>2. j \in Journal
    BY <1>1, <2>1, LoggedJournal
  <2>3. z = [x EXCEPT !.held = @ \ {s}, !.journal = j,
                      !.daily = @ + pnl, !.capital = @ + pnl,
                      !.trades = @ + 1]
    BY DEF Closed
  <2> HIDE DEF z, j
  <2>4. z = [held |-> x.held \ {s}, journal |-> j, capital |-> x.capital + pnl,
             daily |-> x.daily + pnl, trades |-> x.trades + 1,
             halted |-> x.halted, day |-> x.day]
    BY <1>1, <2>3 DEF State
  <2>5. z \in State
    BY <1>1, <2>1, <2>2, <2>4 DEF State
  <2> QED BY <2>4, <2>5 DEF j
<1>3. Sound(z)
  <2>1. x.journal \in Journal
    BY <1>1 DEF State
  <2> HIDE DEF z
  <2> QED BY <1>1, <1>2, <2>1, LoggedSound
<1>4. Within(z)
  <2>1. IsFiniteSet(x.held) /\ Cardinality(x.held) <= MaxPositions
    BY <1>1 DEF Within
  <2>2. IsFiniteSet(z.held) /\ Cardinality(z.held) <= Cardinality(x.held)
    BY <1>2, <2>1, FS_Subset
  <2>3. Cardinality(z.held) \in Nat /\ Cardinality(x.held) \in Nat
    BY <2>1, <2>2, FS_CardinalityType
  <2> HIDE DEF z
  <2> QED BY <2>1, <2>2, <2>3, ConstantsAssumption DEF Within
<1>5. s \notin z.held
  <2> HIDE DEF z
  <2> QED BY <1>2
<1> QED BY <1>2, <1>3, <1>4, <1>5 DEF GoodStates

\* A kill switch sets one flag.
LEMMA HaltedGood ==
  ASSUME NEW x \in GoodStates, NEW on \in BOOLEAN
  PROVE  [x EXCEPT !.halted = on] \in GoodStates
<1> DEFINE z == [x EXCEPT !.halted = on]
<1>1. x \in State /\ Sound(x) /\ Within(x)
  BY DEF GoodStates
<1>2. z \in State /\ z.held = x.held /\ z.journal = x.journal
  BY <1>1 DEF State
<1> HIDE DEF z
<1>3. z \in GoodStates
  BY <1>1, <1>2, SoundSame DEF GoodStates, Within
<1> QED BY <1>3 DEF z

-----------------------------------------------------------------------------
\* What the request finds when it resumes, and what an operation starts from.
LEMMA SyncedGood ==
  ASSUME IInv, NEW c \in Calls, pc[c] \in Working
  PROVE  /\ obj[c] \in Objects /\ objs[obj[c]] \in GoodStates
         /\ Synced(c) \in GoodStates
         /\ Entry(c) \in GoodStates
<1>1. obj[c] \in Objects /\ objs[obj[c]] # None
  BY DEF IInv, ControlOK, ReferencesInv, CallOK
<1>2. objs[obj[c]] \in GoodStates /\ got[c] \in GoodStates \cup {None}
  BY <1>1 DEF IInv, CopiesInv
<1> QED BY <1>1, <1>2 DEF Synced, Entry

\* None is no state.
LEMMA NoneIsNoCopy == None \notin GoodStates /\ None \notin GoodPayloads
BY NoneAssumption DEF GoodStates, GoodPayloads, GoodRows, Payload

\* An object that is written is good, and none that stays in use is given up.
ObjectsOK ==
    /\ objs' \in [Objects -> GoodStates \cup {None}]
    /\ \A o \in Objects :
          objs[o] # None
             => \/ objs'[o] # None
                \/ /\ \A c \in Calls : ~(obj[c] = o /\ obj'[c] = o)
                   /\ \A w \in Workers : ~(current[w] = o /\ current'[w] = o)

LEMMA WriteOK ==
  ASSUME CopiesInv, NEW o \in Objects, NEW x \in GoodStates,
         objs' = [objs EXCEPT ![o] = x]
  PROVE  ObjectsOK
BY NoneIsNoCopy DEF CopiesInv, ObjectsOK

LEMMA CreateOK ==
  ASSUME CopiesInv, NEW c \in Calls, NEW x \in GoodStates, Create(c, x)
  PROVE  ObjectsOK
<1>1. PICK o \in Objects : objs' = [objs EXCEPT ![o] = x]
  BY DEF Create
<1> QED BY <1>1, WriteOK

\* What an operation makes of the object is good.
LEMMA OutcomeGood ==
  ASSUME IInv, NEW c \in Calls
  PROVE  /\ OpenPosition(c)
               => /\ Opened(Entry(c), op[c].symbol) \in GoodStates
                  /\ obj[c] \in Objects
         /\ ClosePosition(c)
               => /\ Closed(Entry(c), op[c].symbol, op[c].pnl) \in GoodStates
                  /\ obj[c] \in Objects
         /\ ToggleKillSwitch(c)
               => /\ [Synced(c) EXCEPT !.halted = op[c].on] \in GoodStates
                  /\ obj[c] \in Objects
<1>1. ASSUME pc[c] \in {"apply", "enter"}
      PROVE  /\ obj[c] \in Objects /\ op[c] \in Operation
             /\ Entry(c) \in GoodStates /\ Synced(c) \in GoodStates
  <2>1. pc[c] \in Working /\ pc[c] \in Operating
    BY <1>1 DEF Working, Operating
  <2> QED BY <2>1, SyncedGood DEF IInv, ControlOK, ReferencesInv, CallOK
<1>2. ASSUME OpenPosition(c)
      PROVE  Opened(Entry(c), op[c].symbol) \in GoodStates /\ obj[c] \in Objects
  <2>1. pc[c] \in {"apply", "enter"} /\ op[c].kind = "open"
    BY <1>2 DEF OpenPosition, CanEnter
  <2>2. op[c].symbol \in Symbols
    BY <1>1, <2>1 DEF Operation
  <2>3. CanTrade(Entry(c)) /\ op[c].symbol \notin Entry(c).held
    BY <1>2 DEF OpenPosition
  <2> QED BY <1>1, <2>1, <2>2, <2>3, OpenedGood DEF IInv, ControlOK
<1>3. ASSUME ClosePosition(c)
      PROVE  /\ Closed(Entry(c), op[c].symbol, op[c].pnl) \in GoodStates
             /\ obj[c] \in Objects
  <2>1. pc[c] \in {"apply", "enter"} /\ op[c].kind = "close"
    BY <1>3 DEF ClosePosition, CanEnter
  <2>2. op[c].pnl \in Int
    BY <1>1, <2>1, ConstantsAssumption DEF Operation
  <2>3. op[c].symbol \in Entry(c).held
    BY <1>3 DEF ClosePosition
  <2> QED BY <1>1, <2>1, <2>2, <2>3, ClosedGood
<1>4. ASSUME ToggleKillSwitch(c)
      PROVE  /\ [Synced(c) EXCEPT !.halted = op[c].on] \in GoodStates
             /\ obj[c] \in Objects
  <2>1. pc[c] \in {"apply", "enter"} /\ op[c].kind = "halt"
    BY <1>4 DEF ToggleKillSwitch
  <2>2. op[c].on \in BOOLEAN
    BY <1>1, <2>1 DEF Operation
  <2> QED BY <1>1, <2>1, <2>2, HaltedGood
<1> QED BY <1>2, <1>3, <1>4

\* Every step that writes an object writes a good one.
LEMMA ObjectsStep ==
  ASSUME IInv, [Next]_vars
  PROVE  ObjectsOK
<1> USE DEF IInv
<1>1. ASSUME NEW c \in Calls, TakeManager(c) PROVE ObjectsOK
  BY <1>1 DEF TakeManager, CopiesInv, ObjectsOK
<1>2. ASSUME NEW c \in Calls, LoadRow(c) PROVE ObjectsOK
  <2>1. Restored(saved) \in GoodStates
    BY <1>2, RestoredGood DEF LoadRow, CopiesInv, ControlOK
  <2> QED BY <1>2, <2>1, CreateOK DEF LoadRow
<1>3. ASSUME NEW c \in Calls, NoRow(c) PROVE ObjectsOK
  BY <1>3 DEF NoRow, CopiesInv, ObjectsOK
<1>4. ASSUME NEW c \in Calls, InsertRow(c) PROVE ObjectsOK
  BY <1>4, CreateOK, FreshGood DEF InsertRow, ControlOK
<1>5. ASSUME NEW c \in Calls, BootstrapFails(c) PROVE ObjectsOK
  BY <1>5, CreateOK, FreshGood DEF BootstrapFails, ControlOK
<1>6. ASSUME NEW c \in Calls, Fetch(c, "fetchState", "applyState")
      PROVE  ObjectsOK
  BY <1>6 DEF Fetch, CopiesInv, ObjectsOK
<1>7. ASSUME NEW c \in Calls, ApplyState(c) PROVE ObjectsOK
  <2>1. pc[c] \in Working
    BY <1>7 DEF ApplyState, Goto, Working, Operating
  <2> QED BY <1>7, <2>1, SyncedGood, WriteOK DEF ApplyState
<1>8. ASSUME NEW c \in Calls, CheckTrade(c) PROVE ObjectsOK
  <2>1. pc[c] \in Working
    BY <1>8 DEF CheckTrade, Working, Operating
  <2>2. obj[c] \in Objects /\ Checked(objs[obj[c]]) \in GoodStates
    BY <2>1, SyncedGood, CheckedGood DEF ControlOK
  <2> QED BY <1>8, <2>2, WriteOK DEF CheckTrade
<1>9. ASSUME NEW c \in Calls, Finish(c) PROVE ObjectsOK
  BY <1>9 DEF Finish, CopiesInv, ObjectsOK
<1>10. ASSUME NEW c \in Calls, Remove(c) PROVE ObjectsOK
  BY <1>10 DEF Remove, CopiesInv, ObjectsOK
<1>11. ASSUME NEW c \in Calls, Forget(c) PROVE ObjectsOK
  BY <1>11 DEF Forget, CopiesInv, ObjectsOK
<1>12. ASSUME NEW c \in Calls, NEW p \in Operation, Begin(c, p)
       PROVE  ObjectsOK
  BY <1>12 DEF Begin, CopiesInv, ObjectsOK
<1>13. ASSUME NEW c \in Calls, AcquireLock(c) PROVE ObjectsOK
  BY <1>13 DEF AcquireLock, CopiesInv, ObjectsOK
<1>14. ASSUME NEW c \in Calls, GiveUp(c) PROVE ObjectsOK
  BY <1>14 DEF GiveUp, CopiesInv, ObjectsOK
<1>15. ASSUME NEW c \in Calls, LockFetch(c) PROVE ObjectsOK
  BY <1>15 DEF LockFetch, Fetch, CopiesInv, ObjectsOK
<1>16. ASSUME NEW c \in Calls, Wait(c) PROVE ObjectsOK
  <2>1. pc[c] \in Working
    BY <1>16 DEF Wait, Goto, Working, Operating
  <2> QED BY <1>16, <2>1, SyncedGood, WriteOK DEF Wait
<1>17. ASSUME NEW c \in Calls, RefuseOpen(c) PROVE ObjectsOK
  <2>1. pc[c] \in Working
    BY <1>17 DEF RefuseOpen, CanEnter, Working, Operating
  <2>2. obj[c] \in Objects /\ Checked(Entry(c)) \in GoodStates
    BY <2>1, SyncedGood, CheckedGood DEF ControlOK
  <2> QED BY <1>17, <2>2, WriteOK DEF RefuseOpen
<1>18. ASSUME NEW c \in Calls, RefuseClose(c) PROVE ObjectsOK
  <2>1. pc[c] \in Working
    BY <1>18 DEF RefuseClose, CanEnter, Working, Operating
  <2> QED BY <1>18, <2>1, SyncedGood, WriteOK DEF RefuseClose
<1>19. ASSUME NEW c \in Calls, OpenPosition(c) PROVE ObjectsOK
  <2>1. Opened(Entry(c), op[c].symbol) \in GoodStates /\ obj[c] \in Objects
    BY <1>19, OutcomeGood
  <2> QED BY <1>19, <2>1, WriteOK DEF OpenPosition, Persist
<1>20. ASSUME NEW c \in Calls, ClosePosition(c) PROVE ObjectsOK
  <2>1. /\ Closed(Entry(c), op[c].symbol, op[c].pnl) \in GoodStates
        /\ obj[c] \in Objects
    BY <1>20, OutcomeGood
  <2> QED BY <1>20, <2>1, WriteOK DEF ClosePosition, Persist
<1>21. ASSUME NEW c \in Calls, ToggleKillSwitch(c) PROVE ObjectsOK
  <2>1. /\ [Synced(c) EXCEPT !.halted = op[c].on] \in GoodStates
        /\ obj[c] \in Objects
    BY <1>21, OutcomeGood
  <2> QED BY <1>21, <2>1, WriteOK DEF ToggleKillSwitch, Persist
<1>22. ASSUME NEW c \in Calls, Select(c) PROVE ObjectsOK
  BY <1>22 DEF Select, CopiesInv, ObjectsOK
<1>23. ASSUME NEW c \in Calls, Commit(c) PROVE ObjectsOK
  BY <1>23 DEF Commit, Serialise, CopiesInv, ObjectsOK
<1>24. ASSUME NEW c \in Calls, CommitFails(c) PROVE ObjectsOK
  BY <1>24 DEF CommitFails, Serialise, CopiesInv, ObjectsOK
<1>25. ASSUME NEW c \in Calls, Put(c) PROVE ObjectsOK
  BY <1>25 DEF Put, CopiesInv, ObjectsOK
<1>26. ASSUME NEW c \in Calls, Release(c) PROVE ObjectsOK
  BY <1>26 DEF Release, CopiesInv, ObjectsOK
<1>27. ASSUME NEW c \in Calls, NotMine(c) PROVE ObjectsOK
  BY <1>27 DEF NotMine, CopiesInv, ObjectsOK
<1>28. ASSUME NEW c \in Calls, Delete(c) PROVE ObjectsOK
  BY <1>28 DEF Delete, CopiesInv, ObjectsOK
<1>29. ASSUME NEW c \in Calls, ReleaseFails(c) PROVE ObjectsOK
  BY <1>29 DEF ReleaseFails, CopiesInv, ObjectsOK
<1>30. ASSUME Expire PROVE ObjectsOK
  BY <1>30 DEF Expire, CopiesInv, ObjectsOK
<1>31. ASSUME Midnight \/ Vanish PROVE ObjectsOK
  BY <1>31 DEF Midnight, Vanish, CopiesInv, ObjectsOK
<1>32. ASSUME NEW w \in Workers, Crash(w) PROVE ObjectsOK
  <2>1. objs' \in [Objects -> GoodStates \cup {None}]
    BY <1>32 DEF Crash, CopiesInv
  <2>2. ASSUME NEW o \in Objects, objs[o] # None, objs'[o] = None
        PROVE  /\ \A c \in Calls : ~(obj[c] = o /\ obj'[c] = o)
               /\ \A v \in Workers : ~(current[v] = o /\ current'[v] = o)
    <3>1. o # None
      BY NoneAssumption
    <3>2. /\ \A c \in Calls : WorkerOf[c] # w => o # obj[c]
          /\ \A v \in Workers \ {w} : o # current[v]
      BY <1>32, <2>2 DEF Crash
    <3>3. /\ \A c \in Calls : WorkerOf[c] = w => obj'[c] = None
          /\ current'[w] = None
      BY <1>32 DEF Crash, ControlOK
    <3> QED BY <3>1, <3>2, <3>3
  <2> QED BY <2>1, <2>2 DEF ObjectsOK
<1>33. CASE UNCHANGED vars
  BY <1>33 DEF vars, CopiesInv, ObjectsOK
<1> QED BY <1>1, <1>2, <1>3, <1>4, <1>5, <1>6, <1>7, <1>8, <1>9, <1>10, <1>11,
   <1>12, <1>13, <1>14, <1>15, <1>16, <1>17, <1>18, <1>19, <1>20, <1>21,
   <1>22, <1>23, <1>24, <1>25, <1>26, <1>27, <1>28, <1>29, <1>30, <1>31,
   <1>32, <1>33 DEF Next, GetState, Locking, Operate, Unlocking

\* The types of control are preserved.
LEMMA ControlStep ==
  ASSUME ControlOK, [Next]_vars
  PROVE  ControlOK'
<1> USE ConstantsAssumption, NoneAssumption DEF table
<1>1. ASSUME NEW c \in Calls, TakeManager(c) PROVE ControlOK'
  BY <1>1 DEF TakeManager, Goto, redis, ControlOK, PCs
<1>2. ASSUME NEW c \in Calls, LoadRow(c) PROVE ControlOK'
  BY <1>2 DEF LoadRow, Goto, Create, redis, ControlOK, PCs
<1>3. ASSUME NEW c \in Calls, NoRow(c) PROVE ControlOK'
  BY <1>3 DEF NoRow, Goto, redis, ControlOK, PCs
<1>4. ASSUME NEW c \in Calls, InsertRow(c) PROVE ControlOK'
  BY <1>4 DEF InsertRow, Goto, Create, redis, ControlOK, PCs
<1>5. ASSUME NEW c \in Calls, BootstrapFails(c) PROVE ControlOK'
  BY <1>5 DEF BootstrapFails, Create, redis, ControlOK, PCs
<1>6. ASSUME NEW c \in Calls, Fetch(c, "fetchState", "applyState")
      PROVE  ControlOK'
  BY <1>6 DEF Fetch, Goto, redis, ControlOK, PCs
<1>7. ASSUME NEW c \in Calls, ApplyState(c) PROVE ControlOK'
  BY <1>7 DEF ApplyState, Goto, redis, ControlOK, PCs
<1>8. ASSUME NEW c \in Calls, CheckTrade(c) PROVE ControlOK'
  BY <1>8 DEF CheckTrade, locals, redis, ControlOK, PCs
<1>9. ASSUME NEW c \in Calls, Finish(c) PROVE ControlOK'
  BY <1>9 DEF Finish, Return, Clear, redis, ControlOK, PCs
<1>10. ASSUME NEW c \in Calls, Remove(c) PROVE ControlOK'
  BY <1>10 DEF Remove, Goto, redis, ControlOK, PCs
<1>11. ASSUME NEW c \in Calls, Forget(c) PROVE ControlOK'
  BY <1>11 DEF Forget, Return, Clear, ControlOK, PCs
<1>12. ASSUME NEW c \in Calls, NEW p \in Operation, Begin(c, p)
       PROVE  ControlOK'
  BY <1>12 DEF Begin, Goto, redis, ControlOK, PCs
<1>13. ASSUME NEW c \in Calls, AcquireLock(c) PROVE ControlOK'
  BY <1>13 DEF AcquireLock, Goto, ControlOK, PCs
<1>14. ASSUME NEW c \in Calls, GiveUp(c) PROVE ControlOK'
  BY <1>14 DEF GiveUp, Goto, ControlOK, PCs
<1>15. ASSUME NEW c \in Calls, LockFetch(c) PROVE ControlOK'
  BY <1>15 DEF LockFetch, Fetch, Goto, redis, ControlOK, PCs
<1>16. ASSUME NEW c \in Calls, Wait(c) PROVE ControlOK'
  BY <1>16 DEF Wait, Goto, redis, ControlOK, PCs
<1>17. ASSUME NEW c \in Calls, RefuseOpen(c) PROVE ControlOK'
  BY <1>17 DEF RefuseOpen, CanEnter, Leave, Clear, redis, ControlOK, PCs
<1>18. ASSUME NEW c \in Calls, RefuseClose(c) PROVE ControlOK'
  BY <1>18 DEF RefuseClose, CanEnter, Leave, Clear, redis, ControlOK, PCs
<1>19. ASSUME NEW c \in Calls, OpenPosition(c) PROVE ControlOK'
  BY <1>19 DEF OpenPosition, CanEnter, Persist, redis, ControlOK, PCs
<1>20. ASSUME NEW c \in Calls, ClosePosition(c) PROVE ControlOK'
  BY <1>20 DEF ClosePosition, CanEnter, Persist, redis, ControlOK, PCs
<1>21. ASSUME NEW c \in Calls, ToggleKillSwitch(c) PROVE ControlOK'
  BY <1>21 DEF ToggleKillSwitch, Persist, redis, ControlOK, PCs
<1>22. ASSUME NEW c \in Calls, Select(c) PROVE ControlOK'
  BY <1>22 DEF Select, Goto, redis, ControlOK, PCs
<1>23. ASSUME NEW c \in Calls, Commit(c) PROVE ControlOK'
  BY <1>23 DEF Commit, Serialise, redis, ControlOK, PCs
<1>24. ASSUME NEW c \in Calls, CommitFails(c) PROVE ControlOK'
  BY <1>24 DEF CommitFails, Serialise, redis, ControlOK, PCs
<1>25. ASSUME NEW c \in Calls, Put(c) PROVE ControlOK'
  BY <1>25 DEF Put, Leave, Clear, ControlOK, PCs
<1>26. ASSUME NEW c \in Calls, Release(c) PROVE ControlOK'
  BY <1>26 DEF Release, Goto, redis, ControlOK, PCs
<1>27. ASSUME NEW c \in Calls, NotMine(c) PROVE ControlOK'
  BY <1>27 DEF NotMine, Return, Clear, redis, ControlOK, PCs
<1>28. ASSUME NEW c \in Calls, Delete(c) PROVE ControlOK'
  BY <1>28 DEF Delete, Return, Clear, ControlOK, PCs
<1>29. ASSUME NEW c \in Calls, ReleaseFails(c) PROVE ControlOK'
  BY <1>29 DEF ReleaseFails, Return, Clear, ControlOK, PCs
<1>30. ASSUME Expire PROVE ControlOK'
  BY <1>30 DEF Expire, locals, redis, ControlOK, PCs
<1>31. ASSUME Midnight \/ Vanish PROVE ControlOK'
  BY <1>31 DEF Midnight, Vanish, locals, redis, ControlOK, PCs
<1>32. ASSUME NEW w \in Workers, Crash(w) PROVE ControlOK'
  <2>1. /\ lock' \in Calls \cup {None, Lost} /\ today' \in Nat
        /\ lapsed' \in BOOLEAN /\ bypassed' \in BOOLEAN
        /\ overwritten' \in BOOLEAN
    BY <1>32 DEF Crash, ControlOK
  <2>2. /\ current' \in [Workers -> Objects \cup {None}]
        /\ manager' \in [Workers -> Calls \cup {None}]
    BY <1>32 DEF Crash, ControlOK
  <2>3. busy' \in [Objects -> Calls \cup {None}]
    BY <1>32 DEF Crash, ControlOK
  <2>4. pc' \in [Calls -> PCs]
    BY <1>32 DEF Crash, ControlOK, PCs
  <2>5. acquired' \in [Calls -> BOOLEAN]
    BY <1>32 DEF Crash, ControlOK
  <2>6. /\ obj' \in [Calls -> Objects \cup {None}]
        /\ op' \in [Calls -> Operation \cup {None}]
    BY <1>32 DEF Crash, ControlOK
  <2>7. ops' \in Nat /\ crashes' \in Nat
    BY <1>32 DEF Crash, ControlOK
  <2> QED BY <2>1, <2>2, <2>3, <2>4, <2>5, <2>6, <2>7 DEF ControlOK
<1>33. CASE UNCHANGED vars
  BY <1>33 DEF vars, redis, locals, ControlOK
<1> QED BY <1>1, <1>2, <1>3, <1>4, <1>5, <1>6, <1>7, <1>8, <1>9, <1>10, <1>11,
   <1>12, <1>13, <1>14, <1>15, <1>16, <1>17, <1>18, <1>19, <1>20, <1>21,
   <1>22, <1>23, <1>24, <1>25, <1>26, <1>27, <1>28, <1>29, <1>30, <1>31,
   <1>32, <1>33 DEF Next, GetState, Locking, Operate, Unlocking

\* The other copies are good; an UPDATE that overwrites breaks the row only.
RowWithin == {r \in Row : Within(r)}

OthersOK ==
    /\ overwritten => overwritten'
    /\ shared' \in GoodStates \cup {None}
    /\ \/ saved' \in GoodRows \cup {None}
       \/ overwritten' /\ saved' \in RowWithin
    /\ got' \in [Calls -> GoodStates \cup {None}]
    /\ payload' \in [Calls -> GoodPayloads \cup {None}]
    /\ value' \in [Calls -> GoodStates \cup {None}]

\* When the SELECT has returned, what persist is to write is still good.
LEMMA SelectedGood ==
  ASSUME IInv, NEW c \in Calls, Select(c)
  PROVE  \E q \in GoodPayloads :
            /\ payload' = [payload EXCEPT ![c] = q]
            /\ q.loaded = saved
            /\ q.row.held = payload[c].row.held
            /\ q.row.journal = payload[c].row.journal
<1> USE DEF IInv
<1> DEFINE p == payload[c]
           capital == objs[obj[c]].capital
           r == [p.row EXCEPT !.capital = capital]
           q == [p EXCEPT !.row.capital = capital, !.loaded = saved]
<1>1. pc[c] \in Working /\ p \in GoodPayloads
  BY DEF Select, Goto, Working, Operating, ReferencesInv, CallOK, CopiesInv
<1>2. capital \in Int
  BY <1>1, SyncedGood DEF GoodStates, State
<1>3. p.row \in GoodRows /\ p = [row |-> p.row, loaded |-> p.loaded]
  BY <1>1 DEF GoodPayloads
<1>4. r \in GoodRows /\ r.held = p.row.held /\ r.journal = p.row.journal
  <2> HIDE DEF p, capital, r
  <2>1. /\ p.row \in Row /\ Sound(p.row) /\ Within(p.row)
        /\ r = [p.row EXCEPT !.capital = capital]
    BY <1>3 DEF GoodRows, r
  <2>2. r \in Row /\ r.held = p.row.held /\ r.journal = p.row.journal
    BY <1>2, <2>1 DEF Row
  <2> QED BY <2>1, <2>2, SoundSame DEF GoodRows, Within
<1>5. q = [row |-> r, loaded |-> saved]
  <2>1. q = [p EXCEPT !.row = r, !.loaded = saved]
    OBVIOUS
  <2> HIDE DEF p, r, q
  <2> QED BY <1>3, <2>1
<1>6. q \in GoodPayloads
  <2>1. saved \in Row \cup {None}
    BY DEF CopiesInv, GoodRows
  <2> HIDE DEF r, q
  <2> QED BY <1>4, <1>5, <2>1 DEF GoodPayloads
<1>7. payload' = [payload EXCEPT ![c] = q]
  BY DEF Select
<1>8. q.loaded = saved /\ q.row = r
  <2> HIDE DEF r, q
  <2> QED BY <1>5
<1> HIDE DEF r, q
<1> QED BY <1>4, <1>6, <1>7, <1>8

\* An UPDATE takes each column from the new row or from the one it meets, and
\* all of them from the new one when it meets what the SELECT had loaded.
LEMMA UpdatedRow ==
  ASSUME NEW r \in GoodRows, NEW l \in Row, saved \in GoodRows,
         NEW z \in Update(r, l)
  PROVE  z \in RowWithin /\ (l = saved => z = r)
<1>1. /\ z = [held |-> z.held, journal |-> z.journal, capital |-> z.capital]
      /\ z.held \in Column(r.held, l.held, saved.held, {})
      /\ z.journal \in Column(r.journal, l.journal, saved.journal, <<>>)
      /\ z.capital \in Column(r.capital, l.capital, saved.capital, r.capital)
  BY DEF Update
<1>2. r \in Row /\ saved \in Row /\ Within(r) /\ Within(saved)
  BY DEF GoodRows
<1>3. /\ z.held \in {r.held, saved.held}
      /\ z.journal \in {r.journal, saved.journal}
      /\ z.capital \in {r.capital, saved.capital}
  BY <1>1 DEF Column
<1>4. /\ z.held \in SUBSET Symbols /\ z.journal \in Journal
      /\ z.capital \in Int
  BY <1>2, <1>3 DEF Row
<1>5. z \in Row
  BY <1>1, <1>4 DEF Row
<1>6. Within(z)
  BY <1>2, <1>3 DEF Within
<1>7. ASSUME l = saved PROVE z = r
  <2>1. z.held = r.held /\ z.journal = r.journal /\ z.capital = r.capital
    BY <1>1, <1>7 DEF Column
  <2>2. r = [held |-> r.held, journal |-> r.journal, capital |-> r.capital]
    BY <1>2 DEF Row
  <2> QED BY <1>1, <2>1, <2>2
<1> QED BY <1>5, <1>6, <1>7 DEF RowWithin

\* What a commit leaves in the table, if it is not simply what it was to write.
LEMMA Committed ==
  ASSUME IInv, NEW c \in Calls, Commit(c)
  PROVE  /\ overwritten => overwritten'
         /\ \/ saved' \in GoodRows
            \/ overwritten' /\ saved' \in RowWithin
         /\ saved' # saved /\ ~Unlocked => saved' = payload[c].row
<1> DEFINE p == payload[c]
<1>1. pc[c] = "commit" /\ p \in GoodPayloads
  BY DEF Commit, IInv, ReferencesInv, CallOK, CopiesInv
<1>2. p.row \in GoodRows /\ p.loaded \in Row \cup {None}
  BY <1>1 DEF GoodPayloads
<1>3. overwritten' = (overwritten \/ p.loaded \notin {None, saved})
  BY DEF Commit
<1>4. saved \in GoodRows \cup {None}
  BY DEF IInv, CopiesInv
<1>5. CASE p.loaded = None
  <2>1. saved' = IF saved = None THEN p.row ELSE saved
    BY <1>5 DEF Commit
  <2> HIDE DEF p
  <2>2. saved' \in GoodRows /\ (saved' # saved => saved' = p.row)
    BY <1>2, <1>4, <2>1
  <2> QED BY <1>3, <2>2 DEF p
<1>6. CASE p.loaded # None
  <2>1. saved' \in Update(p.row, p.loaded)
    BY <1>6 DEF Commit
  <2>2. saved # None /\ (Unlocked \/ saved = p.loaded)
    BY <1>1, <1>6 DEF IInv, TableInv, LoadedOK
  <2>3. saved' \in RowWithin /\ (p.loaded = saved => saved' = p.row)
    <3> HIDE DEF p
    <3> QED BY <1>2, <1>4, <1>6, <2>1, <2>2, UpdatedRow
  <2> HIDE DEF p
  <2>4. saved' \in GoodRows \/ (overwritten' /\ saved' \in RowWithin)
    BY <1>2, <1>3, <1>6, <2>3
  <2>5. ~Unlocked => saved' = p.row
    BY <2>2, <2>3
  <2> QED BY <1>3, <2>4, <2>5 DEF p
<1> QED BY <1>5, <1>6

\* What persist is to write is good.
LEMMA PersistOK ==
  ASSUME IInv, NEW c \in Calls, NEW x \in GoodStates, Persist(c, x)
  PROVE  OthersOK
<1>1. [row |-> RowOf(x), loaded |-> None] \in GoodPayloads
  BY RowOfGood DEF GoodPayloads
<1>2. payload' \in [Calls -> GoodPayloads \cup {None}]
  BY <1>1 DEF Persist, IInv, CopiesInv
<1> QED BY <1>2 DEF Persist, redis, table, IInv, CopiesInv, OthersOK

\* So is what sync_to_redis is to write.
LEMMA SerialiseOK ==
  ASSUME IInv, NEW c \in Calls, pc[c] \in Working, Serialise(c),
         overwritten => overwritten',
         \/ saved' \in GoodRows \cup {None}
         \/ overwritten' /\ saved' \in RowWithin
  PROVE  OthersOK
BY SyncedGood DEF Serialise, redis, IInv, CopiesInv, OthersOK

\* Every other copy that is written is good.
LEMMA OthersStep ==
  ASSUME IInv, [Next]_vars
  PROVE  OthersOK
<1> USE DEF IInv, table
<1>1. ASSUME NEW c \in Calls, TakeManager(c) PROVE OthersOK
  BY <1>1 DEF TakeManager, redis, CopiesInv, OthersOK
<1>2. ASSUME NEW c \in Calls, LoadRow(c) PROVE OthersOK
  BY <1>2 DEF LoadRow, redis, CopiesInv, OthersOK
<1>3. ASSUME NEW c \in Calls, NoRow(c) PROVE OthersOK
  BY <1>3 DEF NoRow, redis, CopiesInv, OthersOK
<1>4. ASSUME NEW c \in Calls, InsertRow(c) PROVE OthersOK
  BY <1>4, EmptyRowGood DEF InsertRow, redis, CopiesInv, OthersOK
<1>5. ASSUME NEW c \in Calls, BootstrapFails(c) PROVE OthersOK
  BY <1>5 DEF BootstrapFails, redis, CopiesInv, OthersOK
<1>6. ASSUME NEW c \in Calls, Fetch(c, "fetchState", "applyState")
      PROVE  OthersOK
  BY <1>6 DEF Fetch, redis, CopiesInv, OthersOK
<1>7. ASSUME NEW c \in Calls, ApplyState(c) PROVE OthersOK
  BY <1>7 DEF ApplyState, redis, CopiesInv, OthersOK
<1>8. ASSUME NEW c \in Calls, CheckTrade(c) PROVE OthersOK
  BY <1>8 DEF CheckTrade, locals, redis, CopiesInv, OthersOK
<1>9. ASSUME NEW c \in Calls, Finish(c) PROVE OthersOK
  BY <1>9 DEF Finish, Return, Clear, redis, CopiesInv, OthersOK
<1>10. ASSUME NEW c \in Calls, Remove(c) PROVE OthersOK
  BY <1>10 DEF Remove, redis, CopiesInv, OthersOK
<1>11. ASSUME NEW c \in Calls, Forget(c) PROVE OthersOK
  BY <1>11 DEF Forget, Return, Clear, CopiesInv, OthersOK
<1>12. ASSUME NEW c \in Calls, NEW p \in Operation, Begin(c, p)
       PROVE  OthersOK
  BY <1>12 DEF Begin, redis, CopiesInv, OthersOK
<1>13. ASSUME NEW c \in Calls, AcquireLock(c) PROVE OthersOK
  BY <1>13 DEF AcquireLock, CopiesInv, OthersOK
<1>14. ASSUME NEW c \in Calls, GiveUp(c) PROVE OthersOK
  BY <1>14 DEF GiveUp, CopiesInv, OthersOK
<1>15. ASSUME NEW c \in Calls, LockFetch(c) PROVE OthersOK
  BY <1>15 DEF LockFetch, Fetch, redis, CopiesInv, OthersOK
<1>16. ASSUME NEW c \in Calls, Wait(c) PROVE OthersOK
  BY <1>16 DEF Wait, redis, CopiesInv, OthersOK
<1>17. ASSUME NEW c \in Calls, RefuseOpen(c) PROVE OthersOK
  BY <1>17 DEF RefuseOpen, Leave, Clear, redis, CopiesInv, OthersOK
<1>18. ASSUME NEW c \in Calls, RefuseClose(c) PROVE OthersOK
  BY <1>18 DEF RefuseClose, Leave, Clear, redis, CopiesInv, OthersOK
<1>19. ASSUME NEW c \in Calls, OpenPosition(c) PROVE OthersOK
  BY <1>19, OutcomeGood, PersistOK DEF OpenPosition
<1>20. ASSUME NEW c \in Calls, ClosePosition(c) PROVE OthersOK
  BY <1>20, OutcomeGood, PersistOK DEF ClosePosition
<1>21. ASSUME NEW c \in Calls, ToggleKillSwitch(c) PROVE OthersOK
  BY <1>21, OutcomeGood, PersistOK DEF ToggleKillSwitch
<1>22. ASSUME NEW c \in Calls, Select(c) PROVE OthersOK
  <2>1. payload' \in [Calls -> GoodPayloads \cup {None}]
    BY <1>22, SelectedGood DEF CopiesInv
  <2> QED BY <1>22, <2>1 DEF Select, redis, CopiesInv, OthersOK
<1>23. ASSUME NEW c \in Calls, Commit(c) PROVE OthersOK
  <2>1. pc[c] \in Working /\ Serialise(c)
    BY <1>23 DEF Commit, Working, Operating
  <2> QED BY <1>23, <2>1, Committed, SerialiseOK
<1>24. ASSUME NEW c \in Calls, CommitFails(c) PROVE OthersOK
  <2>1. pc[c] \in Working
    BY <1>24 DEF CommitFails, Working, Operating
  <2> QED BY <1>24, <2>1, SerialiseOK DEF CommitFails, CopiesInv
<1>25. ASSUME NEW c \in Calls, Put(c) PROVE OthersOK
  BY <1>25 DEF Put, Leave, Clear, CopiesInv, OthersOK
<1>26. ASSUME NEW c \in Calls, Release(c) PROVE OthersOK
  BY <1>26 DEF Release, redis, CopiesInv, OthersOK
<1>27. ASSUME NEW c \in Calls, NotMine(c) PROVE OthersOK
  BY <1>27 DEF NotMine, Return, Clear, redis, CopiesInv, OthersOK
<1>28. ASSUME NEW c \in Calls, Delete(c) PROVE OthersOK
  BY <1>28 DEF Delete, Return, Clear, CopiesInv, OthersOK
<1>29. ASSUME NEW c \in Calls, ReleaseFails(c) PROVE OthersOK
  BY <1>29 DEF ReleaseFails, Return, Clear, CopiesInv, OthersOK
<1>30. ASSUME Expire PROVE OthersOK
  BY <1>30 DEF Expire, locals, redis, CopiesInv, OthersOK
<1>31. ASSUME Midnight \/ Vanish PROVE OthersOK
  BY <1>31 DEF Midnight, Vanish, locals, redis, CopiesInv, OthersOK
<1>32. ASSUME NEW w \in Workers, Crash(w) PROVE OthersOK
  <2>1. got' \in [Calls -> GoodStates \cup {None}]
    BY <1>32 DEF Crash, CopiesInv
  <2>2. payload' \in [Calls -> GoodPayloads \cup {None}]
    BY <1>32 DEF Crash, CopiesInv
  <2>3. value' \in [Calls -> GoodStates \cup {None}]
    BY <1>32 DEF Crash, CopiesInv
  <2> QED BY <1>32, <2>1, <2>2, <2>3 DEF Crash, CopiesInv, OthersOK
<1>33. CASE UNCHANGED vars
  BY <1>33 DEF vars, redis, locals, CopiesInv, OthersOK
<1> QED BY <1>1, <1>2, <1>3, <1>4, <1>5, <1>6, <1>7, <1>8, <1>9, <1>10, <1>11,
   <1>12, <1>13, <1>14, <1>15, <1>16, <1>17, <1>18, <1>19, <1>20, <1>21,
   <1>22, <1>23, <1>24, <1>25, <1>26, <1>27, <1>28, <1>29, <1>30, <1>31,
   <1>32, <1>33 DEF Next, GetState, Locking, Operate, Unlocking

-----------------------------------------------------------------------------
\* A call whose objects are kept and that gives nothing up stays as it is.
LEMMA CallKept ==
  ASSUME ControlOK, ControlOK', ObjectsOK, NEW x \in Calls, CallOK(x),
         pc'[x] = pc[x], obj'[x] = obj[x], op'[x] = op[x],
         payload'[x] = payload[x], value'[x] = value[x]
  PROVE  CallOK(x)'
BY DEF ControlOK, ObjectsOK, CallOK

\* Nor does one that has ended hold on to anything.
LEMMA CallEnded ==
  ASSUME NEW x \in Calls, pc'[x] \notin Working, obj'[x] = None
  PROVE  CallOK(x)'
BY DEF CallOK, Working, Operating

\* A call that has decided on an operation has something to write.
LEMMA CallPersists ==
  ASSUME IInv, ControlOK', ObjectsOK, NEW c \in Calls, NEW x \in GoodStates,
         pc[c] \in Working, pc[c] \in Operating, Persist(c, x)
  PROVE  CallOK(c)'
<1>1. payload'[c] = [row |-> RowOf(x), loaded |-> None]
  BY DEF Persist, IInv, CopiesInv
<1>2. payload'[c] # None
  <2>1. [row |-> RowOf(x), loaded |-> None] \in GoodPayloads
    BY RowOfGood DEF GoodPayloads
  <2> QED BY <1>1, <2>1, NoneIsNoCopy
<1>3. pc'[c] = "select" /\ obj'[c] = obj[c] /\ op'[c] = op[c]
  BY DEF Persist, IInv, ControlOK
<1>4. obj[c] # None /\ op[c] # None /\ obj[c] \in Objects /\ objs[obj[c]] # None
  BY DEF IInv, ReferencesInv, CallOK, ControlOK
<1> QED BY <1>2, <1>3, <1>4 DEF CallOK, ObjectsOK

\* What each call holds is preserved.
LEMMA CallsStep ==
  ASSUME IInv, [Next]_vars
  PROVE  \A c \in Calls : CallOK(c)'
<1> SUFFICES ASSUME NEW x \in Calls PROVE CallOK(x)'
  OBVIOUS
<1> CallOK(x) /\ ControlOK /\ CopiesInv
  BY DEF IInv, ReferencesInv
<1> \A w \in Workers : current[w] # None => objs[current[w]] # None
  BY DEF IInv, ReferencesInv
<1> ObjectsOK /\ ControlOK'
  BY ObjectsStep, ControlStep
<1>1. ASSUME NEW c \in Calls, TakeManager(c) PROVE CallOK(x)'
  <2>1. CASE x = c
    <3>1. obj'[c] = current[WorkerOf[c]]
      BY <1>1 DEF TakeManager, ControlOK
    <3>2. /\ obj'[c] # None => objs'[obj'[c]] # None
          /\ pc'[c] = IF obj'[c] = None THEN "load" ELSE "fetchState"
      BY <1>1, <3>1, ConstantsAssumption
         DEF TakeManager, Goto, ControlOK, ObjectsOK
    <3> QED BY <2>1, <3>2 DEF CallOK, Working, Operating
  <2>2. CASE x # c
    BY <1>1, <2>2, CallKept DEF TakeManager, Goto, ControlOK
  <2> QED BY <2>1, <2>2
<1>2. ASSUME NEW c \in Calls, LoadRow(c) PROVE CallOK(x)'
  <2>1. CASE x = c
    <3>1. PICK o \in Objects : /\ objs' = [objs EXCEPT ![o] = Restored(saved)]
                              /\ obj' = [obj EXCEPT ![c] = o]
      BY <1>2 DEF LoadRow, Create
    <3>2. Restored(saved) \in GoodStates
      BY <1>2, RestoredGood DEF LoadRow, ControlOK, CopiesInv
    <3>3. obj'[c] = o /\ objs'[o] # None /\ o # None
      BY <3>1, <3>2, NoneIsNoCopy, NoneAssumption DEF ControlOK, CopiesInv
    <3>4. pc'[c] = "fetchState"
      BY <1>2 DEF LoadRow, Goto, ControlOK
    <3> QED BY <2>1, <3>3, <3>4 DEF CallOK, Operating
  <2>2. CASE x # c
    BY <1>2, <2>2, CallKept DEF LoadRow, Goto, Create, ControlOK, CopiesInv
  <2> QED BY <2>1, <2>2
<1>3. ASSUME NEW c \in Calls, NoRow(c) PROVE CallOK(x)'
  <2>1. CASE x = c
    BY <1>3, <2>1, NoneIsNoCopy DEF NoRow, Goto, Working, Operating, CallOK,
       ControlOK, CopiesInv, ObjectsOK
  <2>2. CASE x # c
    BY <1>3, <2>2, CallKept DEF NoRow, Goto, ControlOK, CopiesInv
  <2> QED BY <2>1, <2>2
<1>4. ASSUME NEW c \in Calls, InsertRow(c) PROVE CallOK(x)'
  <2>1. CASE x = c
    <3>1. PICK o \in Objects : /\ objs' = [objs EXCEPT ![o] = Fresh(today)]
                              /\ obj' = [obj EXCEPT ![c] = o]
      BY <1>4 DEF InsertRow, Create
    <3>2. Fresh(today) \in GoodStates
      BY <1>4, FreshGood DEF InsertRow, ControlOK, CopiesInv
    <3>3. obj'[c] = o /\ objs'[o] # None /\ o # None
      BY <3>1, <3>2, NoneIsNoCopy, NoneAssumption DEF ControlOK, CopiesInv
    <3>4. pc'[c] = "fetchState"
      BY <1>4 DEF InsertRow, Goto, ControlOK
    <3> QED BY <2>1, <3>3, <3>4 DEF CallOK, Operating
  <2>2. CASE x # c
    BY <1>4, <2>2, CallKept DEF InsertRow, Goto, Create, ControlOK, CopiesInv
  <2> QED BY <2>1, <2>2
<1>5. ASSUME NEW c \in Calls, BootstrapFails(c) PROVE CallOK(x)'
  <2>1. CASE x = c
    <3>1. PICK o \in Objects : /\ objs' = [objs EXCEPT ![o] = Fresh(today)]
                              /\ obj' = [obj EXCEPT ![c] = o]
      BY <1>5 DEF BootstrapFails, Create
    <3>2. Fresh(today) \in GoodStates
      BY <1>5, FreshGood DEF BootstrapFails, ControlOK, CopiesInv
    <3>3. obj'[c] = o /\ objs'[o] # None /\ o # None
      BY <3>1, <3>2, NoneIsNoCopy, NoneAssumption DEF ControlOK, CopiesInv
    <3>4. pc'[c] = "fetchState"
      BY <1>5 DEF BootstrapFails, Goto, ControlOK
    <3> QED BY <2>1, <3>3, <3>4 DEF CallOK, Operating
  <2>2. CASE x # c
    BY <1>5, <2>2, CallKept DEF BootstrapFails, Create, ControlOK, CopiesInv
  <2> QED BY <2>1, <2>2
<1>6. ASSUME NEW c \in Calls, Fetch(c, "fetchState", "applyState")
      PROVE  CallOK(x)'
  <2>1. CASE x = c
    BY <1>6, <2>1, NoneIsNoCopy DEF Fetch, Goto, Working, Operating, CallOK,
       ControlOK, CopiesInv, ObjectsOK
  <2>2. CASE x # c
    BY <1>6, <2>2, CallKept DEF Fetch, Goto, ControlOK, CopiesInv
  <2> QED BY <2>1, <2>2
<1>7. ASSUME NEW c \in Calls, ApplyState(c) PROVE CallOK(x)'
  <2>1. CASE x = c
    BY <1>7, <2>1, NoneIsNoCopy DEF ApplyState, Goto, Working, Operating,
       CallOK, ControlOK, CopiesInv, ObjectsOK
  <2>2. CASE x # c
    BY <1>7, <2>2, CallKept DEF ApplyState, Goto, ControlOK, CopiesInv
  <2> QED BY <2>1, <2>2
<1>8. ASSUME NEW c \in Calls, CheckTrade(c) PROVE CallOK(x)'
  <2>1. CASE x = c
    BY <1>8, <2>1, NoneIsNoCopy DEF CheckTrade, locals, Working, Operating,
       CallOK, ControlOK, CopiesInv, ObjectsOK
  <2>2. CASE x # c
    BY <1>8, <2>2, CallKept DEF CheckTrade, locals, ControlOK, CopiesInv
  <2> QED BY <2>1, <2>2
<1>9. ASSUME NEW c \in Calls, Finish(c) PROVE CallOK(x)'
  <2>1. CASE x = c
    <3>1. pc'[c] \notin Working /\ obj'[c] = None
      BY <1>9 DEF Finish, Return, Clear, ControlOK, Working, Operating
    <3> QED BY <2>1, <3>1, CallEnded
  <2>2. CASE x # c
    BY <1>9, <2>2, CallKept DEF Finish, Return, Clear, ControlOK, CopiesInv
  <2> QED BY <2>1, <2>2
<1>10. ASSUME NEW c \in Calls, Remove(c) PROVE CallOK(x)'
  <2>1. CASE x = c
    BY <1>10, <2>1, NoneIsNoCopy DEF Remove, Goto, Working, Operating, CallOK,
       ControlOK, CopiesInv, ObjectsOK
  <2>2. CASE x # c
    BY <1>10, <2>2, CallKept DEF Remove, Goto, ControlOK, CopiesInv
  <2> QED BY <2>1, <2>2
<1>11. ASSUME NEW c \in Calls, Forget(c) PROVE CallOK(x)'
  <2>1. CASE x = c
    <3>1. pc'[c] \notin Working /\ obj'[c] = None
      BY <1>11 DEF Forget, Return, Clear, ControlOK, Working, Operating
    <3> QED BY <2>1, <3>1, CallEnded
  <2>2. CASE x # c
    BY <1>11, <2>2, CallKept DEF Forget, Return, Clear, ControlOK, CopiesInv
  <2> QED BY <2>1, <2>2
<1>12. ASSUME NEW c \in Calls, NEW p \in Operation, Begin(c, p)
       PROVE  CallOK(x)'
  <2>1. CASE x = c
    BY <1>12, <2>1, NoneIsNoCopy, NoneAssumption DEF Begin, Goto, Working,
       Operating, CallOK, ControlOK, CopiesInv, ObjectsOK
  <2>2. CASE x # c
    BY <1>12, <2>2, CallKept DEF Begin, Goto, ControlOK, CopiesInv
  <2> QED BY <2>1, <2>2
<1>13. ASSUME NEW c \in Calls, AcquireLock(c) PROVE CallOK(x)'
  <2>1. CASE x = c
    BY <1>13, <2>1, NoneIsNoCopy DEF AcquireLock, Goto, Working, Operating,
       CallOK, ControlOK, CopiesInv, ObjectsOK
  <2>2. CASE x # c
    BY <1>13, <2>2, CallKept DEF AcquireLock, Goto, ControlOK, CopiesInv
  <2> QED BY <2>1, <2>2
<1>14. ASSUME NEW c \in Calls, GiveUp(c) PROVE CallOK(x)'
  <2>1. CASE x = c
    BY <1>14, <2>1, NoneIsNoCopy DEF GiveUp, Goto, Working, Operating, CallOK,
       ControlOK, CopiesInv, ObjectsOK
  <2>2. CASE x # c
    BY <1>14, <2>2, CallKept DEF GiveUp, Goto, ControlOK, CopiesInv
  <2> QED BY <2>1, <2>2
<1>15. ASSUME NEW c \in Calls, LockFetch(c) PROVE CallOK(x)'
  <2>1. CASE x = c
    BY <1>15, <2>1, NoneIsNoCopy DEF LockFetch, Fetch, Goto, Working,
       Operating, CallOK, ControlOK, CopiesInv, ObjectsOK
  <2>2. CASE x # c
    BY <1>15, <2>2, CallKept DEF LockFetch, Fetch, Goto, ControlOK, CopiesInv
  <2> QED BY <2>1, <2>2
<1>16. ASSUME NEW c \in Calls, Wait(c) PROVE CallOK(x)'
  <2>1. CASE x = c
    BY <1>16, <2>1, NoneIsNoCopy DEF Wait, Goto, Working, Operating, CallOK,
       ControlOK, CopiesInv, ObjectsOK
  <2>2. CASE x # c
    BY <1>16, <2>2, CallKept DEF Wait, Goto, ControlOK, CopiesInv
  <2> QED BY <2>1, <2>2
<1>17. ASSUME NEW c \in Calls, RefuseOpen(c) PROVE CallOK(x)'
  <2>1. CASE x = c
    <3>1. pc'[c] \notin Working /\ obj'[c] = None
      BY <1>17 DEF RefuseOpen, CanEnter, Leave, Clear, ControlOK, Working,
         Operating
    <3> QED BY <2>1, <3>1, CallEnded
  <2>2. CASE x # c
    BY <1>17, <2>2, CallKept DEF RefuseOpen, CanEnter, Leave, Clear, ControlOK,
       CopiesInv
  <2> QED BY <2>1, <2>2
<1>18. ASSUME NEW c \in Calls, RefuseClose(c) PROVE CallOK(x)'
  <2>1. CASE x = c
    <3>1. pc'[c] \notin Working /\ obj'[c] = None
      BY <1>18 DEF RefuseClose, CanEnter, Leave, Clear, ControlOK, Working,
         Operating
    <3> QED BY <2>1, <3>1, CallEnded
  <2>2. CASE x # c
    BY <1>18, <2>2, CallKept DEF RefuseClose, CanEnter, Leave, Clear,
       ControlOK, CopiesInv
  <2> QED BY <2>1, <2>2
<1>19. ASSUME NEW c \in Calls, OpenPosition(c) PROVE CallOK(x)'
  <2>1. CASE x = c
    <3>1. pc[c] \in Working /\ pc[c] \in Operating
      BY <1>19 DEF OpenPosition, CanEnter, Working, Operating
    <3> QED BY <1>19, <2>1, <3>1, OutcomeGood, CallPersists DEF OpenPosition
  <2>2. CASE x # c
    BY <1>19, <2>2, CallKept DEF OpenPosition, CanEnter, Persist, ControlOK,
       CopiesInv
  <2> QED BY <2>1, <2>2
<1>20. ASSUME NEW c \in Calls, ClosePosition(c) PROVE CallOK(x)'
  <2>1. CASE x = c
    <3>1. pc[c] \in Working /\ pc[c] \in Operating
      BY <1>20 DEF ClosePosition, CanEnter, Working, Operating
    <3> QED BY <1>20, <2>1, <3>1, OutcomeGood, CallPersists DEF ClosePosition
  <2>2. CASE x # c
    BY <1>20, <2>2, CallKept DEF ClosePosition, CanEnter, Persist, ControlOK,
       CopiesInv
  <2> QED BY <2>1, <2>2
<1>21. ASSUME NEW c \in Calls, ToggleKillSwitch(c) PROVE CallOK(x)'
  <2>1. CASE x = c
    <3>1. pc[c] \in Working /\ pc[c] \in Operating
      BY <1>21 DEF ToggleKillSwitch, Working, Operating
    <3> QED BY <1>21, <2>1, <3>1, OutcomeGood, CallPersists DEF
       ToggleKillSwitch
  <2>2. CASE x # c
    BY <1>21, <2>2, CallKept DEF ToggleKillSwitch, Persist, ControlOK,
       CopiesInv
  <2> QED BY <2>1, <2>2
<1>22. ASSUME NEW c \in Calls, Select(c) PROVE CallOK(x)'
  <2>1. CASE x = c
    <3>1. payload'[c] # None
      BY <1>22, SelectedGood, NoneIsNoCopy DEF CopiesInv
    <3>2. pc[c] = "select" /\ pc'[c] = "commit"
      BY <1>22 DEF Select, Goto, ControlOK
    <3> QED BY <1>22, <2>1, <3>1, <3>2
            DEF Select, Working, Operating, CallOK, ControlOK, ObjectsOK
  <2>2. CASE x # c
    BY <1>22, <2>2, CallKept DEF Select, Goto, ControlOK, CopiesInv
  <2> QED BY <2>1, <2>2
<1>23. ASSUME NEW c \in Calls, Commit(c) PROVE CallOK(x)'
  <2>1. CASE x = c
    BY <1>23, <2>1, NoneIsNoCopy DEF Commit, Serialise, Working, Operating,
       CallOK, ControlOK, CopiesInv, ObjectsOK
  <2>2. CASE x # c
    BY <1>23, <2>2, CallKept DEF Commit, Serialise, ControlOK, CopiesInv
  <2> QED BY <2>1, <2>2
<1>24. ASSUME NEW c \in Calls, CommitFails(c) PROVE CallOK(x)'
  <2>1. CASE x = c
    BY <1>24, <2>1, NoneIsNoCopy DEF CommitFails, Serialise, Working,
       Operating, CallOK, ControlOK, CopiesInv, ObjectsOK
  <2>2. CASE x # c
    BY <1>24, <2>2, CallKept DEF CommitFails, Serialise, ControlOK, CopiesInv
  <2> QED BY <2>1, <2>2
<1>25. ASSUME NEW c \in Calls, Put(c) PROVE CallOK(x)'
  <2>1. CASE x = c
    <3>1. pc'[c] \notin Working /\ obj'[c] = None
      BY <1>25 DEF Put, Leave, Clear, ControlOK, Working, Operating
    <3> QED BY <2>1, <3>1, CallEnded
  <2>2. CASE x # c
    BY <1>25, <2>2, CallKept DEF Put, Leave, Clear, ControlOK, CopiesInv
  <2> QED BY <2>1, <2>2
<1>26. ASSUME NEW c \in Calls, Release(c) PROVE CallOK(x)'
  <2>1. CASE x = c
    BY <1>26, <2>1, NoneIsNoCopy DEF Release, Goto, Working, Operating,
       CallOK, ControlOK, CopiesInv, ObjectsOK
  <2>2. CASE x # c
    BY <1>26, <2>2, CallKept DEF Release, Goto, ControlOK, CopiesInv
  <2> QED BY <2>1, <2>2
<1>27. ASSUME NEW c \in Calls, NotMine(c) PROVE CallOK(x)'
  <2>1. CASE x = c
    <3>1. pc'[c] \notin Working /\ obj'[c] = None
      BY <1>27 DEF NotMine, Return, Clear, ControlOK, Working, Operating
    <3> QED BY <2>1, <3>1, CallEnded
  <2>2. CASE x # c
    BY <1>27, <2>2, CallKept DEF NotMine, Return, Clear, ControlOK, CopiesInv
  <2> QED BY <2>1, <2>2
<1>28. ASSUME NEW c \in Calls, Delete(c) PROVE CallOK(x)'
  <2>1. CASE x = c
    <3>1. pc'[c] \notin Working /\ obj'[c] = None
      BY <1>28 DEF Delete, Return, Clear, ControlOK, Working, Operating
    <3> QED BY <2>1, <3>1, CallEnded
  <2>2. CASE x # c
    BY <1>28, <2>2, CallKept DEF Delete, Return, Clear, ControlOK, CopiesInv
  <2> QED BY <2>1, <2>2
<1>29. ASSUME NEW c \in Calls, ReleaseFails(c) PROVE CallOK(x)'
  <2>1. CASE x = c
    <3>1. pc'[c] \notin Working /\ obj'[c] = None
      BY <1>29 DEF ReleaseFails, Return, Clear, ControlOK, Working, Operating
    <3> QED BY <2>1, <3>1, CallEnded
  <2>2. CASE x # c
    BY <1>29, <2>2, CallKept DEF ReleaseFails, Return, Clear, ControlOK,
       CopiesInv
  <2> QED BY <2>1, <2>2
<1>30. ASSUME Expire PROVE CallOK(x)'
  BY <1>30, CallKept DEF Expire, locals
<1>31. ASSUME Midnight \/ Vanish PROVE CallOK(x)'
  BY <1>31, CallKept DEF Midnight, Vanish, locals
<1>32. ASSUME NEW w \in Workers, Crash(w) PROVE CallOK(x)'
  <2>1. CASE WorkerOf[x] = w
    <3>1. pc'[x] = "idle" /\ obj'[x] = None
      BY <1>32, <2>1 DEF Crash
    <3> QED BY <3>1, CallEnded DEF Working, Operating
  <2>2. CASE WorkerOf[x] # w
    <3>1. /\ pc'[x] = pc[x] /\ obj'[x] = obj[x] /\ op'[x] = op[x]
          /\ payload'[x] = payload[x] /\ value'[x] = value[x]
      BY <1>32, <2>2 DEF Crash
    <3> QED BY <3>1, CallKept
  <2> QED BY <2>1, <2>2
<1>33. CASE UNCHANGED vars
  BY <1>33, CallKept DEF vars, locals
<1> QED BY <1>1, <1>2, <1>3, <1>4, <1>5, <1>6, <1>7, <1>8, <1>9, <1>10, <1>11,
   <1>12, <1>13, <1>14, <1>15, <1>16, <1>17, <1>18, <1>19, <1>20, <1>21,
   <1>22, <1>23, <1>24, <1>25, <1>26, <1>27, <1>28, <1>29, <1>30, <1>31,
   <1>32, <1>33 DEF Next, GetState, Locking, Operate, Unlocking

\* The object of a worker is kept too.
LEMMA CurrentStep ==
  ASSUME IInv, [Next]_vars
  PROVE  \A w \in Workers : current'[w] # None => objs'[current'[w]] # None
<1> SUFFICES ASSUME NEW v \in Workers, current'[v] # None
             PROVE  objs'[current'[v]] # None
  OBVIOUS
<1> ControlOK /\ CopiesInv
  BY DEF IInv
<1> current[v] # None => objs[current[v]] # None
  BY DEF IInv, ReferencesInv
<1> ObjectsOK
  BY ObjectsStep
<1>1. ASSUME NEW c \in Calls, TakeManager(c) PROVE objs'[current'[v]] # None
  BY <1>1 DEF TakeManager, ControlOK, ObjectsOK
<1>2. ASSUME NEW c \in Calls, LoadRow(c) PROVE objs'[current'[v]] # None
  <2>1. PICK o \in Objects :
           /\ objs' = [objs EXCEPT ![o] = Restored(saved)]
           /\ current' = [current EXCEPT ![WorkerOf[c]] = o]
    BY <1>2 DEF LoadRow, Create
  <2>2. Restored(saved) \in GoodStates
    BY <1>2, RestoredGood DEF LoadRow, ControlOK, CopiesInv
  <2>3. objs'[o] # None
    BY <2>1, <2>2, NoneIsNoCopy DEF CopiesInv
  <2> QED BY <2>1, <2>3 DEF ControlOK, ObjectsOK
<1>3. ASSUME NEW c \in Calls, NoRow(c) PROVE objs'[current'[v]] # None
  BY <1>3 DEF NoRow, ControlOK, ObjectsOK
<1>4. ASSUME NEW c \in Calls, InsertRow(c) PROVE objs'[current'[v]] # None
  <2>1. PICK o \in Objects :
           /\ objs' = [objs EXCEPT ![o] = Fresh(today)]
           /\ current' = [current EXCEPT ![WorkerOf[c]] = o]
    BY <1>4 DEF InsertRow, Create
  <2>2. Fresh(today) \in GoodStates
    BY <1>4, FreshGood DEF InsertRow, ControlOK, CopiesInv
  <2>3. objs'[o] # None
    BY <2>1, <2>2, NoneIsNoCopy DEF CopiesInv
  <2> QED BY <2>1, <2>3 DEF ControlOK, ObjectsOK
<1>5. ASSUME NEW c \in Calls, BootstrapFails(c)
      PROVE  objs'[current'[v]] # None
  <2>1. PICK o \in Objects :
           /\ objs' = [objs EXCEPT ![o] = Fresh(today)]
           /\ current' = [current EXCEPT ![WorkerOf[c]] = o]
    BY <1>5 DEF BootstrapFails, Create
  <2>2. Fresh(today) \in GoodStates
    BY <1>5, FreshGood DEF BootstrapFails, ControlOK, CopiesInv
  <2>3. objs'[o] # None
    BY <2>1, <2>2, NoneIsNoCopy DEF CopiesInv
  <2> QED BY <2>1, <2>3 DEF ControlOK, ObjectsOK
<1>6. ASSUME NEW c \in Calls, Fetch(c, "fetchState", "applyState")
      PROVE  objs'[current'[v]] # None
  BY <1>6 DEF Fetch, Fetch, ControlOK, ObjectsOK
<1>7. ASSUME NEW c \in Calls, ApplyState(c) PROVE objs'[current'[v]] # None
  BY <1>7 DEF ApplyState, ControlOK, ObjectsOK
<1>8. ASSUME NEW c \in Calls, CheckTrade(c) PROVE objs'[current'[v]] # None
  BY <1>8 DEF CheckTrade, locals, ControlOK, ObjectsOK
<1>9. ASSUME NEW c \in Calls, Finish(c) PROVE objs'[current'[v]] # None
  BY <1>9 DEF Finish, ControlOK, ObjectsOK
<1>10. ASSUME NEW c \in Calls, Remove(c) PROVE objs'[current'[v]] # None
  BY <1>10 DEF Remove, ControlOK, ObjectsOK
<1>11. ASSUME NEW c \in Calls, Forget(c) PROVE objs'[current'[v]] # None
  BY <1>11 DEF Forget, ControlOK, ObjectsOK
<1>12. ASSUME NEW c \in Calls, NEW p \in Operation, Begin(c, p)
       PROVE  objs'[current'[v]] # None
  BY <1>12 DEF Begin, ControlOK, ObjectsOK
<1>13. ASSUME NEW c \in Calls, AcquireLock(c) PROVE objs'[current'[v]] # None
  BY <1>13 DEF AcquireLock, ControlOK, ObjectsOK
<1>14. ASSUME NEW c \in Calls, GiveUp(c) PROVE objs'[current'[v]] # None
  BY <1>14 DEF GiveUp, ControlOK, ObjectsOK
<1>15. ASSUME NEW c \in Calls, LockFetch(c) PROVE objs'[current'[v]] # None
  BY <1>15 DEF LockFetch, Fetch, ControlOK, ObjectsOK
<1>16. ASSUME NEW c \in Calls, Wait(c) PROVE objs'[current'[v]] # None
  BY <1>16 DEF Wait, ControlOK, ObjectsOK
<1>17. ASSUME NEW c \in Calls, RefuseOpen(c) PROVE objs'[current'[v]] # None
  BY <1>17 DEF RefuseOpen, ControlOK, ObjectsOK
<1>18. ASSUME NEW c \in Calls, RefuseClose(c) PROVE objs'[current'[v]] # None
  BY <1>18 DEF RefuseClose, ControlOK, ObjectsOK
<1>19. ASSUME NEW c \in Calls, OpenPosition(c) PROVE objs'[current'[v]] # None
  BY <1>19 DEF OpenPosition, Persist, ControlOK, ObjectsOK
<1>20. ASSUME NEW c \in Calls, ClosePosition(c)
       PROVE  objs'[current'[v]] # None
  BY <1>20 DEF ClosePosition, Persist, ControlOK, ObjectsOK
<1>21. ASSUME NEW c \in Calls, ToggleKillSwitch(c)
       PROVE  objs'[current'[v]] # None
  BY <1>21 DEF ToggleKillSwitch, Persist, ControlOK, ObjectsOK
<1>22. ASSUME NEW c \in Calls, Select(c) PROVE objs'[current'[v]] # None
  BY <1>22 DEF Select, ControlOK, ObjectsOK
<1>23. ASSUME NEW c \in Calls, Commit(c) PROVE objs'[current'[v]] # None
  BY <1>23 DEF Commit, Serialise, ControlOK, ObjectsOK
<1>24. ASSUME NEW c \in Calls, CommitFails(c) PROVE objs'[current'[v]] # None
  BY <1>24 DEF CommitFails, Serialise, ControlOK, ObjectsOK
<1>25. ASSUME NEW c \in Calls, Put(c) PROVE objs'[current'[v]] # None
  BY <1>25 DEF Put, ControlOK, ObjectsOK
<1>26. ASSUME NEW c \in Calls, Release(c) PROVE objs'[current'[v]] # None
  BY <1>26 DEF Release, ControlOK, ObjectsOK
<1>27. ASSUME NEW c \in Calls, NotMine(c) PROVE objs'[current'[v]] # None
  BY <1>27 DEF NotMine, ControlOK, ObjectsOK
<1>28. ASSUME NEW c \in Calls, Delete(c) PROVE objs'[current'[v]] # None
  BY <1>28 DEF Delete, ControlOK, ObjectsOK
<1>29. ASSUME NEW c \in Calls, ReleaseFails(c) PROVE objs'[current'[v]] # None
  BY <1>29 DEF ReleaseFails, ControlOK, ObjectsOK
<1>30. ASSUME Expire PROVE objs'[current'[v]] # None
  BY <1>30 DEF Expire, locals, ControlOK, ObjectsOK
<1>31. ASSUME Midnight \/ Vanish PROVE objs'[current'[v]] # None
  BY <1>31 DEF Midnight, Vanish, locals, ControlOK, ObjectsOK
<1>32. ASSUME NEW w \in Workers, Crash(w) PROVE objs'[current'[v]] # None
  BY <1>32 DEF Crash, ControlOK, ObjectsOK
<1>33. CASE UNCHANGED vars
  BY <1>33 DEF vars, ControlOK, ObjectsOK
<1> QED BY <1>1, <1>2, <1>3, <1>4, <1>5, <1>6, <1>7, <1>8, <1>9, <1>10, <1>11,
   <1>12, <1>13, <1>14, <1>15, <1>16, <1>17, <1>18, <1>19, <1>20, <1>21,
   <1>22, <1>23, <1>24, <1>25, <1>26, <1>27, <1>28, <1>29, <1>30, <1>31,
   <1>32, <1>33 DEF Next, GetState, Locking, Operate, Unlocking

\* LockInv is preserved: only the holder of the lock, or its end, takes it
\* away.
LEMMA LockStep ==
  ASSUME ControlOK, LockInv, [Next]_vars
  PROVE  LockInv'
<1> SUFFICES ASSUME NEW x \in Calls
             PROVE  /\ pc'[x] \in {"release", "delete"} => acquired'[x]
                    /\ pc'[x] \in Inside => acquired'[x] \/ bypassed'
                    /\ acquired'[x] => lapsed' \/ lock' = x
  BY DEF LockInv
<1> DEFINE Goal == /\ pc'[x] \in {"release", "delete"} => acquired'[x]
                   /\ pc'[x] \in Inside => acquired'[x] \/ bypassed'
                   /\ acquired'[x] => lapsed' \/ lock' = x
<1> USE NoneAssumption DEF LockInv, ControlOK, Inside
<1>1. ASSUME NEW c \in Calls, TakeManager(c) PROVE Goal
  BY <1>1 DEF TakeManager, Goto, redis
<1>2. ASSUME NEW c \in Calls, LoadRow(c) PROVE Goal
  BY <1>2 DEF LoadRow, Goto, redis
<1>3. ASSUME NEW c \in Calls, NoRow(c) PROVE Goal
  BY <1>3 DEF NoRow, Goto, redis
<1>4. ASSUME NEW c \in Calls, InsertRow(c) PROVE Goal
  BY <1>4 DEF InsertRow, Goto, redis
<1>5. ASSUME NEW c \in Calls, BootstrapFails(c) PROVE Goal
  BY <1>5 DEF BootstrapFails, redis
<1>6. ASSUME NEW c \in Calls, Fetch(c, "fetchState", "applyState") PROVE Goal
  BY <1>6 DEF Fetch, Goto, redis
<1>7. ASSUME NEW c \in Calls, ApplyState(c) PROVE Goal
  BY <1>7 DEF ApplyState, Goto, redis
<1>8. ASSUME NEW c \in Calls, CheckTrade(c) PROVE Goal
  BY <1>8 DEF CheckTrade, locals, redis
<1>9. ASSUME NEW c \in Calls, Finish(c) PROVE Goal
  BY <1>9 DEF Finish, Return, redis
<1>10. ASSUME NEW c \in Calls, Remove(c) PROVE Goal
  BY <1>10 DEF Remove, Goto, redis
<1>11. ASSUME NEW c \in Calls, Forget(c) PROVE Goal
  BY <1>11 DEF Forget, Return
<1>12. ASSUME NEW c \in Calls, NEW p \in Operation, Begin(c, p) PROVE Goal
  BY <1>12 DEF Begin, Goto, redis
<1>13. ASSUME NEW c \in Calls, AcquireLock(c) PROVE Goal
  BY <1>13 DEF AcquireLock, Goto
<1>14. ASSUME NEW c \in Calls, GiveUp(c) PROVE Goal
  BY <1>14 DEF GiveUp, Goto
<1>15. ASSUME NEW c \in Calls, LockFetch(c) PROVE Goal
  BY <1>15 DEF LockFetch, Fetch, Goto, redis
<1>16. ASSUME NEW c \in Calls, Wait(c) PROVE Goal
  BY <1>16 DEF Wait, Goto, redis
<1>17. ASSUME NEW c \in Calls, RefuseOpen(c) PROVE Goal
  BY <1>17 DEF RefuseOpen, CanEnter, Leave, redis
<1>18. ASSUME NEW c \in Calls, RefuseClose(c) PROVE Goal
  BY <1>18 DEF RefuseClose, CanEnter, Leave, redis
<1>19. ASSUME NEW c \in Calls, OpenPosition(c) PROVE Goal
  BY <1>19 DEF OpenPosition, CanEnter, Persist, redis
<1>20. ASSUME NEW c \in Calls, ClosePosition(c) PROVE Goal
  BY <1>20 DEF ClosePosition, CanEnter, Persist, redis
<1>21. ASSUME NEW c \in Calls, ToggleKillSwitch(c) PROVE Goal
  BY <1>21 DEF ToggleKillSwitch, Persist, redis
<1>22. ASSUME NEW c \in Calls, Select(c) PROVE Goal
  BY <1>22 DEF Select, Goto, redis
<1>23. ASSUME NEW c \in Calls, Commit(c) PROVE Goal
  BY <1>23 DEF Commit, Serialise, redis
<1>24. ASSUME NEW c \in Calls, CommitFails(c) PROVE Goal
  BY <1>24 DEF CommitFails, Serialise, redis
<1>25. ASSUME NEW c \in Calls, Put(c) PROVE Goal
  BY <1>25 DEF Put, Leave
<1>26. ASSUME NEW c \in Calls, Release(c) PROVE Goal
  BY <1>26 DEF Release, Goto, redis
<1>27. ASSUME NEW c \in Calls, NotMine(c) PROVE Goal
  BY <1>27 DEF NotMine, Return, redis
<1>28. ASSUME NEW c \in Calls, Delete(c) PROVE Goal
  BY <1>28 DEF Delete, Return
<1>29. ASSUME NEW c \in Calls, ReleaseFails(c) PROVE Goal
  BY <1>29 DEF ReleaseFails, Return
<1>30. ASSUME Expire PROVE Goal
  BY <1>30 DEF Expire, locals, redis
<1>31. ASSUME Midnight \/ Vanish PROVE Goal
  BY <1>31 DEF Midnight, Vanish, locals, redis
<1>32. ASSUME NEW w \in Workers, Crash(w) PROVE Goal
  BY <1>32 DEF Crash
<1>33. CASE UNCHANGED vars
  BY <1>33 DEF vars, redis, locals
<1> QED BY <1>1, <1>2, <1>3, <1>4, <1>5, <1>6, <1>7, <1>8, <1>9, <1>10, <1>11,
   <1>12, <1>13, <1>14, <1>15, <1>16, <1>17, <1>18, <1>19, <1>20, <1>21,
   <1>22, <1>23, <1>24, <1>25, <1>26, <1>27, <1>28, <1>29, <1>30, <1>31,
   <1>32, <1>33 DEF Next, GetState, Locking, Operate, Unlocking

\* Two statements only write the table, that the lock has failed is not
\* forgotten, and a call gets to its commit by its SELECT.
LEMMA TableChanges ==
  ASSUME IInv, [Next]_vars
  PROVE  /\ UNCHANGED table \/ \E c \in Calls : InsertRow(c) \/ Commit(c)
         /\ Unlocked => Unlocked'
         /\ \A x \in Calls : \/ pc'[x] # "commit"
                             \/ pc'[x] = pc[x] /\ payload'[x] = payload[x]
                             \/ Select(x)
<1> DEFINE Goal ==
        /\ UNCHANGED table \/ \E c \in Calls : InsertRow(c) \/ Commit(c)
        /\ Unlocked => Unlocked'
        /\ \A x \in Calls : \/ pc'[x] # "commit"
                            \/ pc'[x] = pc[x] /\ payload'[x] = payload[x]
                            \/ Select(x)
<1> ControlOK /\ CopiesInv
  BY DEF IInv
<1> USE DEF redis, table, Unlocked, ControlOK, CopiesInv
<1>1. ASSUME NEW c \in Calls, TakeManager(c) PROVE Goal
  BY <1>1 DEF TakeManager, Goto
<1>2. ASSUME NEW c \in Calls, LoadRow(c) PROVE Goal
  BY <1>2 DEF LoadRow, Goto
<1>3. ASSUME NEW c \in Calls, NoRow(c) PROVE Goal
  BY <1>3 DEF NoRow, Goto
<1>4. ASSUME NEW c \in Calls, InsertRow(c) PROVE Goal
  BY <1>4 DEF InsertRow, Goto
<1>5. ASSUME NEW c \in Calls, BootstrapFails(c) PROVE Goal
  BY <1>5 DEF BootstrapFails
<1>6. ASSUME NEW c \in Calls, Fetch(c, "fetchState", "applyState") PROVE Goal
  BY <1>6 DEF Fetch, Goto
<1>7. ASSUME NEW c \in Calls, ApplyState(c) PROVE Goal
  BY <1>7 DEF ApplyState, Goto
<1>8. ASSUME NEW c \in Calls, CheckTrade(c) PROVE Goal
  BY <1>8 DEF CheckTrade, locals
<1>9. ASSUME NEW c \in Calls, Finish(c) PROVE Goal
  BY <1>9 DEF Finish, Return, Clear
<1>10. ASSUME NEW c \in Calls, Remove(c) PROVE Goal
  BY <1>10 DEF Remove, Goto
<1>11. ASSUME NEW c \in Calls, Forget(c) PROVE Goal
  BY <1>11 DEF Forget, Return, Clear
<1>12. ASSUME NEW c \in Calls, NEW p \in Operation, Begin(c, p) PROVE Goal
  BY <1>12 DEF Begin, Goto
<1>13. ASSUME NEW c \in Calls, AcquireLock(c) PROVE Goal
  BY <1>13 DEF AcquireLock, Goto
<1>14. ASSUME NEW c \in Calls, GiveUp(c) PROVE Goal
  BY <1>14 DEF GiveUp, Goto
<1>15. ASSUME NEW c \in Calls, LockFetch(c) PROVE Goal
  BY <1>15 DEF LockFetch, Fetch, Goto
<1>16. ASSUME NEW c \in Calls, Wait(c) PROVE Goal
  BY <1>16 DEF Wait, Goto
<1>17. ASSUME NEW c \in Calls, RefuseOpen(c) PROVE Goal
  BY <1>17 DEF RefuseOpen, Leave, Clear
<1>18. ASSUME NEW c \in Calls, RefuseClose(c) PROVE Goal
  BY <1>18 DEF RefuseClose, Leave, Clear
<1>19. ASSUME NEW c \in Calls, OpenPosition(c) PROVE Goal
  BY <1>19 DEF OpenPosition, Persist
<1>20. ASSUME NEW c \in Calls, ClosePosition(c) PROVE Goal
  BY <1>20 DEF ClosePosition, Persist
<1>21. ASSUME NEW c \in Calls, ToggleKillSwitch(c) PROVE Goal
  BY <1>21 DEF ToggleKillSwitch, Persist
<1>22. ASSUME NEW c \in Calls, Select(c) PROVE Goal
  <2>1. \A x \in Calls \ {c} : pc'[x] = pc[x] /\ payload'[x] = payload[x]
    BY <1>22 DEF Select, Goto
  <2>2. UNCHANGED <<saved, overwritten, lapsed, bypassed>>
    BY <1>22 DEF Select
  <2> QED BY <1>22, <2>1, <2>2
<1>23. ASSUME NEW c \in Calls, Commit(c) PROVE Goal
  <2>1. \A x \in Calls : \/ pc'[x] = "put"
                         \/ pc'[x] = pc[x] /\ payload'[x] = payload[x]
    BY <1>23 DEF Commit, Serialise
  <2> QED BY <1>23, <2>1 DEF Commit, Serialise
<1>24. ASSUME NEW c \in Calls, CommitFails(c) PROVE Goal
  <2>1. \A x \in Calls : \/ pc'[x] = "put"
                         \/ pc'[x] = pc[x] /\ payload'[x] = payload[x]
    BY <1>24 DEF CommitFails, Serialise
  <2> QED BY <1>24, <2>1 DEF CommitFails, Serialise
<1>25. ASSUME NEW c \in Calls, Put(c) PROVE Goal
  BY <1>25 DEF Put, Leave, Clear
<1>26. ASSUME NEW c \in Calls, Release(c) PROVE Goal
  BY <1>26 DEF Release, Goto
<1>27. ASSUME NEW c \in Calls, NotMine(c) PROVE Goal
  BY <1>27 DEF NotMine, Return, Clear
<1>28. ASSUME NEW c \in Calls, Delete(c) PROVE Goal
  BY <1>28 DEF Delete, Return, Clear
<1>29. ASSUME NEW c \in Calls, ReleaseFails(c) PROVE Goal
  BY <1>29 DEF ReleaseFails, Return, Clear
<1>30. ASSUME Expire PROVE Goal
  BY <1>30 DEF Expire, locals
<1>31. ASSUME Midnight \/ Vanish PROVE Goal
  BY <1>31 DEF Midnight, Vanish, locals
<1>32. ASSUME NEW w \in Workers, Crash(w) PROVE Goal
  <2>1. \A x \in Calls : \/ pc'[x] = "idle"
                         \/ pc'[x] = pc[x] /\ payload'[x] = payload[x]
    BY <1>32 DEF Crash
  <2> QED BY <1>32, <2>1 DEF Crash
<1>33. CASE UNCHANGED vars
  BY <1>33 DEF vars, locals
<1> QED BY <1>1, <1>2, <1>3, <1>4, <1>5, <1>6, <1>7, <1>8, <1>9, <1>10, <1>11,
   <1>12, <1>13, <1>14, <1>15, <1>16, <1>17, <1>18, <1>19, <1>20, <1>21,
   <1>22, <1>23, <1>24, <1>25, <1>26, <1>27, <1>28, <1>29, <1>30, <1>31,
   <1>32, <1>33 DEF Next, GetState, Locking, Operate, Unlocking

\* TableInv is preserved: of two requests that have both got the lock, one has
\* lost it, so no row is written between the SELECT and the UPDATE of another.
LEMMA TableStep ==
  ASSUME IInv, [Next]_vars
  PROVE  TableInv'
<1> USE DEF IInv
<1>1. overwritten' => Unlocked'
  <2>1. ASSUME NEW c \in Calls, Commit(c), overwritten'
        PROVE  Unlocked
    <3>1. pc[c] = "commit" /\ LoadedOK(c)
      BY <2>1 DEF Commit, TableInv
    <3>2. overwritten \/ payload[c].loaded \notin {None, saved}
      BY <2>1 DEF Commit
    <3> QED BY <3>1, <3>2 DEF LoadedOK, TableInv
  <2>2. ASSUME NEW c \in Calls, InsertRow(c), overwritten'
        PROVE  Unlocked
    BY <2>2 DEF InsertRow, TableInv
  <2>3. ASSUME UNCHANGED table, overwritten' PROVE Unlocked
    BY <2>3 DEF table, TableInv
  <2> QED BY <2>1, <2>2, <2>3, TableChanges
<1>2. ASSUME NEW x \in Calls, pc'[x] = "commit", payload'[x].loaded # None
      PROVE  saved' # None /\ (Unlocked' \/ saved' = payload'[x].loaded)
  <2>1. CASE Select(x)
    <3>1. payload'[x].loaded = saved
      <4>1. PICK q \in GoodPayloads :
               payload' = [payload EXCEPT ![x] = q] /\ q.loaded = saved
        BY <2>1, SelectedGood
      <4> QED BY <4>1 DEF CopiesInv
    <3>2. saved' = saved
      BY <2>1 DEF Select, table
    <3> QED BY <1>2, <3>1, <3>2
  <2>2. CASE pc'[x] = pc[x] /\ payload'[x] = payload[x]
    <3>1. pc[x] = "commit" /\ saved # None
          /\ (Unlocked \/ saved = payload'[x].loaded)
      BY <1>2, <2>2 DEF TableInv, LoadedOK
    <3>2. CASE UNCHANGED table
      BY <3>1, <3>2, TableChanges DEF table
    <3>3. ASSUME NEW c \in Calls, InsertRow(c)
          PROVE  saved' = saved
      BY <3>1, <3>3 DEF InsertRow
    <3>4. ASSUME NEW c \in Calls, Commit(c)
          PROVE  saved' # None /\ Unlocked
      <4>1. saved' # None
        <5>1. None \notin Row
          BY NoneAssumption
        <5> QED BY <3>4, <5>1, Committed DEF GoodRows, RowWithin
      <4>2. c # x /\ pc[c] = "commit"
        BY <1>2, <3>4 DEF Commit, Serialise, ControlOK
      <4>3. ASSUME ~Unlocked PROVE lock = c /\ lock = x
        BY <3>1, <4>2, <4>3 DEF LockInv, Inside, Unlocked
      <4> QED BY <4>1, <4>2, <4>3
    <3> QED BY <3>1, <3>2, <3>3, <3>4, TableChanges
  <2> QED BY <1>2, <2>1, <2>2, TableChanges
<1> QED BY <1>1, <1>2 DEF TableInv, LoadedOK

\* OutcomeInv is preserved: nothing but the operation itself touches what it
\* is to write, only its capital is read late.
LEMMA OutcomeStep ==
  ASSUME IInv, OutcomeInv, [Next]_vars
  PROVE  OutcomeInv'
<1> SUFFICES ASSUME NEW x \in Calls, pc'[x] \in {"select", "commit"},
                    op'[x].kind # "halt"
             PROVE  HasOutcome(op'[x], payload'[x].row)
  BY DEF OutcomeInv
<1> DEFINE Goal == HasOutcome(op'[x], payload'[x].row)
<1>0. ASSUME pc'[x] = pc[x], op'[x] = op[x], payload'[x] = payload[x]
      PROVE  Goal
  BY <1>0 DEF OutcomeInv
<1> ControlOK /\ CopiesInv
  BY DEF IInv
<1>1. ASSUME NEW c \in Calls, TakeManager(c) PROVE Goal
  BY <1>0, <1>1 DEF TakeManager, Goto, ControlOK, CopiesInv, PCs
<1>2. ASSUME NEW c \in Calls, LoadRow(c) PROVE Goal
  BY <1>0, <1>2 DEF LoadRow, Goto, Create, ControlOK, CopiesInv, PCs
<1>3. ASSUME NEW c \in Calls, NoRow(c) PROVE Goal
  BY <1>0, <1>3 DEF NoRow, Goto, ControlOK, CopiesInv, PCs
<1>4. ASSUME NEW c \in Calls, InsertRow(c) PROVE Goal
  BY <1>0, <1>4 DEF InsertRow, Goto, Create, ControlOK, CopiesInv, PCs
<1>5. ASSUME NEW c \in Calls, BootstrapFails(c) PROVE Goal
  BY <1>0, <1>5 DEF BootstrapFails, Create, ControlOK, CopiesInv, PCs
<1>6. ASSUME NEW c \in Calls, Fetch(c, "fetchState", "applyState") PROVE Goal
  BY <1>0, <1>6 DEF Fetch, Goto, ControlOK, CopiesInv, PCs
<1>7. ASSUME NEW c \in Calls, ApplyState(c) PROVE Goal
  BY <1>0, <1>7 DEF ApplyState, Goto, ControlOK, CopiesInv, PCs
<1>8. ASSUME NEW c \in Calls, CheckTrade(c) PROVE Goal
  BY <1>0, <1>8 DEF CheckTrade, locals, ControlOK, CopiesInv, PCs
<1>9. ASSUME NEW c \in Calls, Finish(c) PROVE Goal
  BY <1>0, <1>9 DEF Finish, Return, Clear, ControlOK, CopiesInv, PCs
<1>10. ASSUME NEW c \in Calls, Remove(c) PROVE Goal
  BY <1>0, <1>10 DEF Remove, Goto, ControlOK, CopiesInv, PCs
<1>11. ASSUME NEW c \in Calls, Forget(c) PROVE Goal
  BY <1>0, <1>11 DEF Forget, Return, Clear, ControlOK, CopiesInv, PCs
<1>12. ASSUME NEW c \in Calls, NEW p \in Operation, Begin(c, p) PROVE Goal
  BY <1>0, <1>12 DEF Begin, Goto, ControlOK, CopiesInv, PCs
<1>13. ASSUME NEW c \in Calls, AcquireLock(c) PROVE Goal
  BY <1>0, <1>13 DEF AcquireLock, Goto, ControlOK, CopiesInv, PCs
<1>14. ASSUME NEW c \in Calls, GiveUp(c) PROVE Goal
  BY <1>0, <1>14 DEF GiveUp, Goto, ControlOK, CopiesInv, PCs
<1>15. ASSUME NEW c \in Calls, LockFetch(c) PROVE Goal
  BY <1>0, <1>15 DEF LockFetch, Fetch, Goto, ControlOK, CopiesInv, PCs
<1>16. ASSUME NEW c \in Calls, Wait(c) PROVE Goal
  BY <1>0, <1>16 DEF Wait, Goto, ControlOK, CopiesInv, PCs
<1>17. ASSUME NEW c \in Calls, RefuseOpen(c) PROVE Goal
  BY <1>0, <1>17 DEF RefuseOpen, CanEnter, Leave, Clear, ControlOK, CopiesInv,
     PCs
<1>18. ASSUME NEW c \in Calls, RefuseClose(c) PROVE Goal
  BY <1>0, <1>18 DEF RefuseClose, CanEnter, Leave, Clear, ControlOK,
     CopiesInv, PCs
<1>19. ASSUME NEW c \in Calls, OpenPosition(c) PROVE Goal
  <2>1. CASE x = c
    <3> DEFINE e == Entry(c)
               o == op[c].symbol
               z == Opened(e, o)
    <3>1. e \in GoodStates /\ op[c] \in Operation /\ op[c].kind = "open"
      BY <1>19, SyncedGood
         DEF OpenPosition, CanEnter, Working, Operating, IInv, ReferencesInv,
             CallOK, ControlOK
    <3>2. o \in Symbols /\ CanTrade(e) /\ o \notin e.held /\ today \in Nat
      BY <1>19, <3>1 DEF Operation, OpenPosition, ControlOK
    <3>3. op'[c] = op[c] /\ payload'[c].row = RowOf(z)
      BY <1>19 DEF OpenPosition, Persist, CopiesInv
    <3> HIDE DEF e, o
    <3>4. /\ z \in GoodStates /\ o \in z.held
          /\ z.journal = Logged(e, "OPEN", o) /\ e.journal \in Journal
      BY <3>1, <3>2, OpenedGood DEF GoodStates, State
    <3> HIDE DEF z
    <3>5. RowOf(z).held = z.held /\ RowOf(z).journal = z.journal
      BY <3>4, RowOfGood
    <3> DEFINE l == Logged(e, "OPEN", o)
    <3>6. l # <<>> /\ l[Len(l)] = [event |-> "OPEN", symbol |-> o]
      BY <3>2, <3>4, LoggedJournal
    <3> HIDE DEF l
    <3>7. RowOf(z).journal = l
      BY <3>4, <3>5 DEF l
    <3> QED BY <2>1, <3>1, <3>3, <3>4, <3>5, <3>6, <3>7 DEF HasOutcome, o
  <2>2. CASE x # c
    BY <1>0, <1>19, <2>2 DEF OpenPosition, Persist, ControlOK, CopiesInv
  <2> QED BY <2>1, <2>2
<1>20. ASSUME NEW c \in Calls, ClosePosition(c) PROVE Goal
  <2>1. CASE x = c
    <3> DEFINE e == Entry(c)
               o == op[c].symbol
               z == Closed(e, o, op[c].pnl)
    <3>1. e \in GoodStates /\ op[c] \in Operation /\ op[c].kind = "close"
      BY <1>20, SyncedGood
         DEF ClosePosition, CanEnter, Working, Operating, IInv, ReferencesInv,
             CallOK, ControlOK
    <3>2. o \in Symbols /\ o \in e.held /\ op[c].pnl \in Int
      BY <1>20, <3>1, ConstantsAssumption DEF Operation, ClosePosition
    <3>3. op'[c] = op[c] /\ payload'[c].row = RowOf(z)
      BY <1>20 DEF ClosePosition, Persist, CopiesInv
    <3> HIDE DEF e, o
    <3>4. /\ z \in GoodStates /\ o \notin z.held
          /\ z.journal = Logged(e, "CLOSE", o) /\ e.journal \in Journal
      BY <3>1, <3>2, ClosedGood DEF GoodStates, State
    <3> HIDE DEF z
    <3>5. RowOf(z).held = z.held /\ RowOf(z).journal = z.journal
      BY <3>4, RowOfGood
    <3> DEFINE l == Logged(e, "CLOSE", o)
    <3>6. l # <<>> /\ l[Len(l)] = [event |-> "CLOSE", symbol |-> o]
      BY <3>2, <3>4, LoggedJournal
    <3> HIDE DEF l
    <3>7. RowOf(z).journal = l
      BY <3>4, <3>5 DEF l
    <3> QED BY <2>1, <3>1, <3>3, <3>4, <3>5, <3>6, <3>7 DEF HasOutcome, o
  <2>2. CASE x # c
    BY <1>0, <1>20, <2>2 DEF ClosePosition, Persist, ControlOK, CopiesInv
  <2> QED BY <2>1, <2>2
<1>21. ASSUME NEW c \in Calls, ToggleKillSwitch(c) PROVE Goal
  <2>1. CASE x = c
    BY <1>21, <2>1 DEF ToggleKillSwitch, Persist
  <2>2. CASE x # c
    BY <1>0, <1>21, <2>2 DEF ToggleKillSwitch, Persist, ControlOK, CopiesInv
  <2> QED BY <2>1, <2>2
<1>22. ASSUME NEW c \in Calls, Select(c) PROVE Goal
  <2>1. CASE x = c
    <3>1. pc[c] = "select" /\ op'[c] = op[c]
      BY <1>22 DEF Select, Goto
    <3>2. PICK q \in GoodPayloads :
             /\ payload' = [payload EXCEPT ![c] = q]
             /\ q.row.held = payload[c].row.held
             /\ q.row.journal = payload[c].row.journal
      BY <1>22, SelectedGood
    <3>3. payload'[c] = q
      BY <3>2 DEF CopiesInv
    <3>4. HasOutcome(op[c], payload[c].row)
      BY <2>1, <3>1 DEF OutcomeInv
    <3> QED BY <2>1, <3>1, <3>2, <3>3, <3>4 DEF HasOutcome
  <2>2. CASE x # c
    BY <1>0, <1>22, <2>2 DEF Select, Goto, ControlOK, CopiesInv
  <2> QED BY <2>1, <2>2
<1>23. ASSUME NEW c \in Calls, Commit(c) PROVE Goal
  BY <1>0, <1>23 DEF Commit, Serialise, ControlOK, CopiesInv, PCs
<1>24. ASSUME NEW c \in Calls, CommitFails(c) PROVE Goal
  BY <1>0, <1>24 DEF CommitFails, Serialise, ControlOK, CopiesInv, PCs
<1>25. ASSUME NEW c \in Calls, Put(c) PROVE Goal
  BY <1>0, <1>25 DEF Put, Leave, Clear, ControlOK, CopiesInv, PCs
<1>26. ASSUME NEW c \in Calls, Release(c) PROVE Goal
  BY <1>0, <1>26 DEF Release, Goto, ControlOK, CopiesInv, PCs
<1>27. ASSUME NEW c \in Calls, NotMine(c) PROVE Goal
  BY <1>0, <1>27 DEF NotMine, Return, Clear, ControlOK, CopiesInv, PCs
<1>28. ASSUME NEW c \in Calls, Delete(c) PROVE Goal
  BY <1>0, <1>28 DEF Delete, Return, Clear, ControlOK, CopiesInv, PCs
<1>29. ASSUME NEW c \in Calls, ReleaseFails(c) PROVE Goal
  BY <1>0, <1>29 DEF ReleaseFails, Return, Clear, ControlOK, CopiesInv, PCs
<1>30. ASSUME Expire PROVE Goal
  BY <1>0, <1>30 DEF Expire, locals
<1>31. ASSUME Midnight \/ Vanish PROVE Goal
  BY <1>0, <1>31 DEF Midnight, Vanish, locals
<1>32. ASSUME NEW w \in Workers, Crash(w) PROVE Goal
  <2>1. \/ pc'[x] = "idle"
        \/ pc'[x] = pc[x] /\ op'[x] = op[x] /\ payload'[x] = payload[x]
    BY <1>32 DEF Crash
  <2> QED BY <1>0, <2>1
<1>33. CASE UNCHANGED vars
  BY <1>0, <1>33 DEF vars, locals
<1> QED BY <1>1, <1>2, <1>3, <1>4, <1>5, <1>6, <1>7, <1>8, <1>9, <1>10, <1>11,
   <1>12, <1>13, <1>14, <1>15, <1>16, <1>17, <1>18, <1>19, <1>20, <1>21,
   <1>22, <1>23, <1>24, <1>25, <1>26, <1>27, <1>28, <1>29, <1>30, <1>31,
   <1>32, <1>33 DEF Next, GetState, Locking, Operate, Unlocking

-----------------------------------------------------------------------------
\* The inductive invariant holds when the workers start.
LEMMA IInvInit == Init => IInv /\ OutcomeInv
<1> SUFFICES ASSUME Init PROVE IInv /\ OutcomeInv
  OBVIOUS
<1> USE DEF Init
<1>1. ControlOK
  BY DEF ControlOK, PCs
<1>2. CopiesInv
  <2>1. shared \in GoodStates \cup {None} /\ saved \in GoodRows \cup {None}
    <3>1. ASSUME NEW x \in Outlived
          PROVE  x \in GoodStates /\ RowOf(x) \in GoodRows
      <4>1. PICK q \in Symbols :
               CanTrade(Fresh(today)) /\ x = Opened(Fresh(today), q)
        BY DEF Outlived
      <4>2. today \in Nat /\ q \notin Fresh(today).held
        BY DEF Fresh
      <4>3. x \in GoodStates
        BY <4>1, <4>2, FreshGood, OpenedGood
      <4> QED BY <4>3, RowOfGood
    <3> QED BY <3>1
  <2> QED BY <2>1 DEF CopiesInv
<1>3. ReferencesInv
  BY DEF ReferencesInv, CallOK, Working, Operating
<1>4. LockInv /\ OutcomeInv /\ TableInv
  BY DEF LockInv, Inside, OutcomeInv, TableInv, LoadedOK
<1> QED BY <1>1, <1>2, <1>3, <1>4 DEF IInv

\* Every step preserves it.
LEMMA IInvStep ==
  ASSUME IInv, OutcomeInv, [Next]_vars
  PROVE  IInv' /\ OutcomeInv'
<1>1. ControlOK' /\ LockInv' /\ TableInv'
  BY ControlStep, LockStep, TableStep DEF IInv
<1>2. CopiesInv'
  <2>1. ObjectsOK /\ OthersOK
    BY ObjectsStep, OthersStep
  <2>2. \A x : Sound(x) => Sound(x)'
    BY <2>1 DEF OthersOK, Sound
  <2>3. GoodStates \subseteq GoodStates' /\ GoodRows \subseteq GoodRows'
    BY <2>2 DEF GoodStates, GoodRows
  <2>4. GoodPayloads \subseteq GoodPayloads'
    BY <2>3 DEF GoodPayloads
  <2>5. saved' \in GoodRows' \cup {None}
    <3>1. ASSUME overwritten', saved' \in RowWithin
          PROVE  saved' \in GoodRows'
      BY <3>1 DEF RowWithin, GoodRows, Sound
    <3> QED BY <2>1, <2>3, <3>1 DEF OthersOK
  <2> QED BY <2>1, <2>3, <2>4, <2>5 DEF ObjectsOK, OthersOK, CopiesInv
<1>3. ReferencesInv'
  BY CallsStep, CurrentStep DEF ReferencesInv
<1> QED BY <1>1, <1>2, <1>3, OutcomeStep DEF IInv

\* The invariant of user_state.py holds in every reachable state, for any
\* workers, requests, symbols and limits.
THEOREM Invariance == Spec => [](IInv /\ OutcomeInv)
<1>1. Init => IInv /\ OutcomeInv
  BY IInvInit
<1>2. (IInv /\ OutcomeInv) /\ [Next]_vars => (IInv /\ OutcomeInv)'
  BY IInvStep
<1> QED BY <1>1, <1>2, PTL DEF Spec

\* Objects, copies in Redis, rows and what coroutines carry stay well typed.
THEOREM TypeCorrect == Spec => []TypeOK
<1>1. IInv => TypeOK
  <2>1. GoodStates \subseteq State /\ GoodRows \subseteq Row
    BY DEF GoodStates, GoodRows
  <2>2. GoodPayloads \subseteq Payload
    BY <2>1 DEF GoodPayloads, Payload
  <2> QED BY <2>1, <2>2 DEF IInv, ControlOK, CopiesInv, TypeOK
<1> QED BY <1>1, Invariance, PTL

\* Every copy the invariant speaks of is good.
LEMMA CopiesGood ==
  ASSUME IInv, NEW x \in Copies
  PROVE  Sound(x) /\ Within(x)
<1>1. x # None
  BY DEF Copies
<1>2. CASE x \in {objs[o] : o \in Objects}
  BY <1>1, <1>2 DEF IInv, CopiesInv, GoodStates
<1>3. CASE x \in {got[c] : c \in Calls}
  BY <1>1, <1>3 DEF IInv, CopiesInv, GoodStates
<1>4. CASE x \in {value[c] : c \in Calls}
  BY <1>1, <1>4 DEF IInv, CopiesInv, GoodStates
<1>5. CASE x \in {shared, saved}
  BY <1>1, <1>5 DEF IInv, CopiesInv, GoodStates, GoodRows
<1>6. CASE x \in {payload[c].row : c \in {d \in Calls : payload[d] # None}}
  <2>1. PICK c \in Calls : payload[c] # None /\ x = payload[c].row
    BY <1>6
  <2>2. payload[c] \in GoodPayloads
    BY <2>1 DEF IInv, CopiesInv
  <2> QED BY <2>1, <2>2 DEF GoodPayloads, GoodRows
<1> QED BY <1>2, <1>3, <1>4, <1>5, <1>6 DEF Copies

\* In every copy of the state that an object, Redis, the table or a coroutine
\* holds, what is left of the journal explains the positions, until an UPDATE
\* overwrites a row its SELECT has not loaded, and for that a request must have
\* lost the lock in Redis or gone on without it.
THEOREM Coherence == Spec => []SnapshotsCoherent
<1>1. IInv => SnapshotsCoherent
  <2> SUFFICES ASSUME IInv PROVE SnapshotsCoherent
    OBVIOUS
  <2>1. CASE overwritten
    BY <2>1 DEF IInv, TableInv, Unlocked, SnapshotsCoherent
  <2>2. CASE ~overwritten
    BY <2>2, CopiesGood DEF Sound, SnapshotsCoherent
  <2> QED BY <2>1, <2>2
<1> QED BY <1>1, Invariance, PTL

\* No copy holds more positions than MAX_CONCURRENT_POSITIONS, although a
\* request may go on without the lock in Redis.
THEOREM Limit == Spec => []PositionLimit
<1>1. IInv => PositionLimit
  BY CopiesGood DEF PositionLimit, Within
<1> QED BY <1>1, Invariance, PTL

\* While no lock has expired under its holder, redis_lock has yielded True to
\* one request at most.
THEOREM Exclusion == Spec => []LockExclusive
<1>1. IInv => LockExclusive
  <2> SUFFICES ASSUME IInv, ~lapsed
               PROVE  Cardinality({c \in Calls : acquired[c]}) <= 1
    BY DEF LockExclusive
  <2> DEFINE S == {c \in Calls : acquired[c]}
  <2>1. S \subseteq {lock}
    BY DEF IInv, LockInv
  <2>2. IsFiniteSet({lock}) /\ Cardinality({lock}) = 1
    BY FS_Singleton
  <2>3. Cardinality(S) <= Cardinality({lock})
    BY <2>1, <2>2, FS_Subset
  <2> QED BY <2>2, <2>3
<1> QED BY <1>1, Invariance, PTL

\* Only the commit of a request takes it on and changes the row.
LEMMA CommitOnly ==
  ASSUME IInv, [Next]_vars, NEW x \in Calls,
         pc[x] = "commit", pc'[x] = "put", saved' # saved
  PROVE  Commit(x)
<1>1. ASSUME NEW c \in Calls, InsertRow(c) PROVE FALSE
  BY <1>1 DEF InsertRow, Goto, IInv, ControlOK
<1>2. ASSUME NEW c \in Calls, Commit(c) PROVE c = x
  BY <1>2 DEF Commit, Serialise, IInv, ControlOK
<1> QED BY <1>1, <1>2, TableChanges DEF table

\* As long as no request has lost the lock or gone on without it, what the
\* commit of open_position or close_position leaves in the table has its
\* outcome, whatever has become of the object since it was decided and
\* whichever columns the UPDATE leaves out.
THEOREM Outcome == Spec => TableHasOutcome
<1> DEFINE A == \A c \in Calls :
                  (/\ pc[c] = "commit" /\ op[c].kind # "halt" /\ pc'[c] = "put"
                   /\ saved' # saved /\ ~lapsed /\ ~bypassed)
                  => HasOutcome(op[c], saved')
<1>1. (IInv /\ OutcomeInv) /\ [Next]_vars => [A]_vars
  <2> SUFFICES ASSUME IInv, OutcomeInv, [Next]_vars, NEW c \in Calls,
                      pc[c] = "commit", op[c].kind # "halt", pc'[c] = "put",
                      saved' # saved, ~lapsed, ~bypassed
               PROVE  HasOutcome(op[c], saved')
    OBVIOUS
  <2>1. HasOutcome(op[c], payload[c].row)
    BY DEF OutcomeInv
  <2>2. saved' = payload[c].row
    BY CommitOnly, Committed DEF Unlocked
  <2> QED BY <2>1, <2>2
<1> QED BY <1>1, Invariance, PTL DEF Spec, TableHasOutcome

=============================================================================
