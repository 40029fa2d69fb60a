--------------------------- MODULE ServiceProofs ---------------------------
(***************************************************************************)
(* Theorems about the shell's log, key/value and file services and about   *)
(* the distribution demonstration, for any number of clients, log entries, *)
(* file nodes, paths, contents, services of the remote node and runs.      *)
(***************************************************************************)
EXTENDS LogService, StoreServices, Distribution, FiniteSetTheorems, TLAPS

-----------------------------------------------------------------------------
(* Sequences and numbers *)

\* Two sequences are the same when they have the same entries.
LEMMA ListsEqual ==
    ASSUME NEW S, NEW s \in Seq(S), NEW t \in Seq(S), Len(s) = Len(t),
           \A i \in 1 .. Len(s) : s[i] = t[i]
    PROVE  s = t
  OBVIOUS

\* A set of numbers that is not empty has a least one.
LEMMA LeastNat ==
    ASSUME NEW T, T \subseteq Nat, T # {}
    PROVE  Min(T) \in T /\ \A y \in T : Min(T) <= y
<1>1. IsWellFoundedOn(OpToRel(<, Nat), Nat)
  BY NatLessThanWellFounded, Zenon
<1>2. PICK x \in T : \A y \in T : <<y, x>> \notin OpToRel(<, Nat)
  BY <1>1, WFMin, Zenon
<1>3. \A y \in T : x <= y
  <2> SUFFICES ASSUME NEW y \in T PROVE x <= y
    BY Zenon
  <2>1. x \in Nat /\ y \in Nat
    BY Zenon
  <2>2. ~(y < x)
    BY <1>2, <2>1, Zenon DEF OpToRel
  <2> QED
    BY <2>1, <2>2
<1> QED
  BY <1>3, Zenon DEF Min

\* What SubSeq has at each position.
LEMMA SubList ==
    ASSUME NEW S, NEW s \in Seq(S), NEW a \in 1 .. Len(s) + 1, NEW b \in a - 1 .. Len(s)
    PROVE  /\ SubSeq(s, a, b) \in Seq(S) /\ Len(SubSeq(s, a, b)) = b - a + 1
           /\ \A i \in 1 .. b - a + 1 : SubSeq(s, a, b)[i] = s[a + i - 1]
  OBVIOUS

-----------------------------------------------------------------------------
(* The log service *)

\* What a reader was shown, and what it was not, of the entries in all.
Reader(cur, shown, kinds, lost, all) ==
    /\ cur \in 0 .. Len(all) /\ shown \in Seq(Nat)
    /\ \A i, j \in 1 .. Len(shown) : i < j => shown[i] < shown[j]
    /\ \A i \in 1 .. Len(shown) : shown[i] < cur /\ all[shown[i] + 1].kind \in kinds
    /\ \A k : kinds \subseteq {k} =>
          \A p \in 0 .. cur - 1 : all[p + 1].kind = k =>
              p \in lost \/ \E i \in 1 .. Len(shown) : shown[i] = p

\* An entry that is published takes nothing from a reader.
LEMMA MoreToRead ==
    ASSUME NEW S, NEW all \in Seq(S), NEW e \in S,
           NEW cur, NEW shown, NEW kinds, NEW lost, Reader(cur, shown, kinds, lost, all)
    PROVE  Reader(cur, shown, kinds, lost, Append(all, e))
<1> DEFINE more == Append(all, e)
<1>1. /\ Len(more) = Len(all) + 1 /\ Len(all) \in Nat
      /\ \A i \in 1 .. Len(all) : more[i] = all[i]
  OBVIOUS
<1> HIDE DEF more
<1>2. cur \in Nat /\ cur <= Len(all) /\ shown \in Seq(Nat)
  BY <1>1 DEF Reader
<1>3. \A p \in 0 .. cur - 1 : more[p + 1] = all[p + 1]
  BY <1>1, <1>2, SMTT(30)
<1>4. \A i \in 1 .. Len(shown) : shown[i] \in 0 .. cur - 1
  BY <1>2 DEF Reader
<1>5. Reader(cur, shown, kinds, lost, more)
  <2>1. cur \in 0 .. Len(more)
    BY <1>1, <1>2
  <2>2. \A i \in 1 .. Len(shown) : more[shown[i] + 1] = all[shown[i] + 1]
    BY <1>3, <1>4, Zenon
  <2> QED
    BY <1>3, <2>1, <2>2, ZenonT(60) DEF Reader
<1> QED
  BY <1>5, Zenon DEF more

\* A read that finds nothing of kind k from `from` on moves the cursor to the end.
LEMMA ReadNothing ==
    ASSUME NEW S, NEW all \in Seq(S), NEW cur, NEW shown, NEW kinds, NEW lost,
           Reader(cur, shown, kinds, lost, all),
           NEW k, NEW from \in cur .. Len(all),
           \A p \in from .. Len(all) - 1 : all[p + 1].kind # k
    PROVE  Reader(Len(all), shown, kinds \cup {k}, lost \cup (cur .. from - 1), all)
<1>1. cur \in Nat /\ cur <= Len(all) /\ shown \in Seq(Nat) /\ Len(all) \in Nat /\ from \in Nat
  BY DEF Reader
<1>2. ASSUME NEW j, kinds \cup {k} \subseteq {j}, NEW p \in 0 .. Len(all) - 1, all[p + 1].kind = j
      PROVE  p \in lost \cup (cur .. from - 1) \/ \E i \in 1 .. Len(shown) : shown[i] = p
  <2>1. j = k /\ kinds \subseteq {j}
    BY <1>2, Zenon
  <2>2. CASE p \in 0 .. cur - 1
    BY <1>2, <2>1, <2>2, Zenon DEF Reader
  <2>3. p \in 0 .. cur - 1 \/ p \in cur .. from - 1 \/ p \in from .. Len(all) - 1
    BY <1>1
  <2> QED
    BY <1>2, <2>1, <2>2, <2>3, Zenon
<1>3. \A i \in 1 .. Len(shown) : shown[i] < Len(all) /\ all[shown[i] + 1].kind \in kinds \cup {k}
  BY <1>1, SMTT(30) DEF Reader
<1>4. Len(all) \in 0 .. Len(all)
  BY <1>1
<1>5. \A i, j \in 1 .. Len(shown) : i < j => shown[i] < shown[j]
  BY Zenon DEF Reader
<1> QED
  BY <1>1, <1>2, <1>3, <1>4, <1>5, Zenon DEF Reader

\* A read that finds the first entry of kind k from `from` on at next.
LEMMA ReadNext ==
    ASSUME NEW S, NEW all \in Seq(S), NEW cur, NEW shown, NEW kinds, NEW lost,
           Reader(cur, shown, kinds, lost, all),
           NEW k, NEW from \in cur .. Len(all), NEW next \in from .. Len(all) - 1,
           all[next + 1].kind = k, \A p \in from .. next - 1 : all[p + 1].kind # k
    PROVE  Reader(next + 1, Append(shown, next), kinds \cup {k}, lost \cup (cur .. from - 1), all)
<1> DEFINE more == Append(shown, next)
<1>1. /\ cur \in Nat /\ cur <= Len(all) /\ shown \in Seq(Nat) /\ Len(all) \in Nat
      /\ from \in Nat /\ next \in Nat /\ next + 1 \in 0 .. Len(all) /\ cur <= next
  BY DEF Reader
<1>2. /\ more \in Seq(Nat) /\ Len(more) = Len(shown) + 1 /\ Len(shown) \in Nat
      /\ more[Len(shown) + 1] = next /\ \A i \in 1 .. Len(shown) : more[i] = shown[i]
  BY <1>1, SMTT(30)
<1> HIDE DEF more
<1>3. ASSUME NEW j, kinds \cup {k} \subseteq {j}, NEW p \in 0 .. next, all[p + 1].kind = j
      PROVE  p \in lost \cup (cur .. from - 1) \/ \E i \in 1 .. Len(more) : more[i] = p
  <2>1. j = k /\ kinds \subseteq {j}
    BY <1>3, Zenon
  <2>2. CASE p \in 0 .. cur - 1
    <3>1. p \in lost \/ \E i \in 1 .. Len(shown) : shown[i] = p
      BY <1>3, <2>1, <2>2, Zenon DEF Reader
    <3> QED
      BY <1>2, <3>1, SMTT(30)
  <2>3. p \in 0 .. cur - 1 \/ p \in cur .. from - 1 \/ p \in from .. next - 1 \/ p = next
    BY <1>1
  <2>4. CASE p = next
    BY <1>2, <2>4
  <2> QED
    BY <1>3, <2>1, <2>2, <2>3, <2>4, Zenon
<1>4. \A i \in 1 .. Len(shown) : /\ shown[i] \in Nat /\ shown[i] < cur
                                 /\ all[shown[i] + 1].kind \in kinds
  BY <1>1, SMTT(30) DEF Reader
<1>5. \A i \in 1 .. Len(more) : more[i] < next + 1 /\ all[more[i] + 1].kind \in kinds \cup {k}
  <2> SUFFICES ASSUME NEW i \in 1 .. Len(more)
               PROVE  more[i] < next + 1 /\ all[more[i] + 1].kind \in kinds \cup {k}
    BY Zenon
  <2>1. CASE i \in 1 .. Len(shown)
    <3>1. more[i] = shown[i] /\ shown[i] \in Nat /\ shown[i] < cur /\ all[shown[i] + 1].kind \in kinds
      BY <1>2, <1>4, <2>1, Zenon
    <3>2. shown[i] < next + 1
      BY <1>1, <3>1
    <3> QED
      BY <3>1, <3>2, Zenon
  <2>2. CASE i = Len(shown) + 1
    BY <1>1, <1>2, <2>2
  <2> QED
    BY <1>2, <2>1, <2>2
<1>6. \A i, j \in 1 .. Len(more) : i < j => more[i] < more[j]
  <2>1. \A i, j \in 1 .. Len(shown) : i < j => shown[i] < shown[j]
    BY Zenon DEF Reader
  <2>2. \A i \in 1 .. Len(shown) : shown[i] < next
    BY <1>1, <1>4, SMTT(30)
  <2>3. \A i, j \in 1 .. Len(more) : i < j =>
           i \in 1 .. Len(shown) /\ (j \in 1 .. Len(shown) \/ j = Len(shown) + 1)
    <3>1. \A n \in Nat : \A i, j \in 1 .. n + 1 : i < j =>
             i \in 1 .. n /\ (j \in 1 .. n \/ j = n + 1)
      OBVIOUS
    <3> QED
      BY <1>2, <3>1, Zenon
  <2> QED
    BY <1>2, <2>1, <2>2, <2>3, Zenon
<1>7. (next + 1) - 1 = next
  BY <1>1
<1>9. \A j : kinds \cup {k} \subseteq {j} =>
         \A p \in 0 .. (next + 1) - 1 : all[p + 1].kind = j =>
             p \in lost \cup (cur .. from - 1) \/ \E i \in 1 .. Len(more) : more[i] = p
  BY <1>3, <1>7, Zenon
<1>8. Reader(next + 1, more, kinds \cup {k}, lost \cup (cur .. from - 1), all)
  BY <1>1, <1>2, <1>5, <1>6, <1>9, Zenon DEF Reader
<1> QED
  BY <1>8, Zenon DEF more

\* The greater of two numbers is one of them and not less than either.
LEMMA GreaterOfTwo ==
    ASSUME NEW a \in Nat, NEW b \in Nat
    PROVE  Max({a, b}) \in {a, b} /\ Max({a, b}) >= a /\ Max({a, b}) >= b
<1>1. \E x \in {a, b} : \A y \in {a, b} : x >= y
  OBVIOUS
<1> QED
  BY <1>1, Zenon DEF Max

\* Two positions less than the ring's size apart have cells of their own.
LEMMA Divided ==
    ASSUME NEW n \in Nat, NEW s \in Nat \ {0}
    PROVE  n = (s * (n \div s)) + (n % s) /\ n % s \in 0 .. s - 1 /\ n \div s \in Nat
  OBVIOUS

\* Two facts on products, for the remainders below.
LEMMA Multiple == ASSUME NEW k \in Int, NEW s \in Nat \ {0}, k >= 1 PROVE s * k >= s
  OBVIOUS

\* Multiplication distributes over the difference.
LEMMA Difference ==
    ASSUME NEW a \in Int, NEW b \in Int, NEW s \in Int
    PROVE  s * (a - b) = s * a - s * b
  OBVIOUS

\* Positions less than a turn of the ring apart are in different cells.
LEMMA CellsApart ==
    ASSUME NEW p \in Nat, NEW q \in Nat, NEW s \in Nat \ {0}, p < q, q < p + s
    PROVE  p % s # q % s
<1> DEFINE a == p \div s
           b == q \div s
           k == b - a
<1>1. /\ p = (s * a) + (p % s) /\ q = (s * b) + (q % s) /\ a \in Nat /\ b \in Nat
      /\ p % s \in Nat /\ q % s \in Nat
  BY Divided
<1>2. s * k = s * b - s * a /\ s * a \in Int /\ s * b \in Int /\ s * k \in Int
  BY <1>1, Difference
<1> SUFFICES ASSUME p % s = q % s PROVE FALSE
  BY Zenon
<1>3. q - p = s * k /\ k \in Int
  BY <1>1, <1>2
<1>4. CASE k >= 1
  BY <1>3, <1>4, Multiple, SMTT(30)
<1>5. CASE k = 0
  BY <1>3, <1>5
<1>6. CASE k < 0
  <2>1. s * (-k) >= s
    BY <1>3, <1>6, Multiple
  <2>2. s * (-k) = -(s * k)
    BY <1>3
  <2> QED
    BY <1>3, <2>1, <2>2
<1> QED
  BY <1>3, <1>4, <1>5, <1>6, SMTT(30)

LogEntries == [producer : Clients, kind : Kinds, n : Nat]

\* The ring holds the newest entries, each at its position modulo the size.
LogTypes ==
    /\ write_pos \in Nat /\ published \in Seq(LogEntries) /\ Len(published) = write_pos
    /\ \A p \in 0 .. write_pos - 1 : published[p + 1].n = p
    /\ log_ring \in [0 .. LOG_CAPACITY - 1 -> LogEntries \cup {None}]
    /\ \A p \in OldestValid .. write_pos - 1 : log_ring[p % LOG_CAPACITY] = published[p + 1]
    /\ cursors \in [Clients -> Nat] /\ seen \in [Clients -> Seq(Nat)]
    /\ asked \in [Clients -> SUBSET Kinds] /\ missed \in [Clients -> SUBSET Nat]
    /\ log_tail \in Kinds \cup {None} /\ tailKinds \subseteq Kinds

ReaderOf(c) == Reader(cursors[c], seen[c], asked[c], missed[c], published)

LogInv == LogTypes /\ \A c \in Clients : ReaderOf(c)

\* At boot the log is empty and nobody has read.
LEMMA LogStarts ==
    ASSUME LogInit
    PROVE  LogInv
<1>1. published = << >> /\ published \in Seq(LogEntries) /\ Len(published) = 0 /\ write_pos = 0
  BY DEF LogInit
<1>2. << >> \in Seq(Nat) /\ Len(<< >>) = 0
  OBVIOUS
<1>3. LogTypes
  BY <1>1, <1>2, LogConstants DEF LogInit, LogTypes, OldestValid
<1>4. ASSUME NEW c \in Clients PROVE ReaderOf(c)
  BY <1>1, <1>2 DEF LogInit, ReaderOf, Reader
<1> QED
  BY <1>3, <1>4, Zenon DEF LogInv

\* push in the service loop keeps the invariant.
LEMMA PublishStep ==
    ASSUME LogInv, NEW c \in Clients, NEW k \in Kinds, LogPublish(c, k)
    PROVE  LogInv'
<1> DEFINE e == Entry(c, k)
           cap == LOG_CAPACITY
<1>1. /\ write_pos \in Nat /\ published \in Seq(LogEntries) /\ Len(published) = write_pos
      /\ \A p \in 0 .. write_pos - 1 : published[p + 1].n = p
      /\ log_ring \in [0 .. cap - 1 -> LogEntries \cup {None}] /\ cap \in Nat \ {0}
      /\ \A p \in OldestValid .. write_pos - 1 : log_ring[p % cap] = published[p + 1]
  BY LogConstants, Zenon DEF LogInv, LogTypes
<1>2. e \in LogEntries /\ e.n = write_pos
  BY <1>1, Zenon DEF Entry, LogEntries
<1>3. /\ log_ring' = [log_ring EXCEPT ![write_pos % cap] = e] /\ write_pos' = write_pos + 1
      /\ published' = Append(published, e)
      /\ UNCHANGED <<cursors, log_tail, tailKinds, seen, asked, missed>>
  BY Zenon DEF LogPublish, Push
<1> HIDE DEF e
<1>4. /\ published' \in Seq(LogEntries) /\ Len(published') = write_pos + 1
      /\ published'[write_pos + 1] = e
      /\ \A p \in 0 .. write_pos - 1 : published'[p + 1] = published[p + 1]
  BY <1>1, <1>2, <1>3, SMTT(30)
<1>5. ASSUME NEW p \in 0 .. write_pos PROVE published'[p + 1].n = p
  BY <1>1, <1>2, <1>4, SMTT(30)
<1>6. write_pos % cap \in 0 .. cap - 1
  BY <1>1
<1>7. ASSUME NEW p \in OldestValid' .. write_pos PROVE log_ring'[p % cap] = published'[p + 1]
  <2>1. p \in Nat /\ p + cap > write_pos /\ p <= write_pos
    BY <1>1, <1>3 DEF OldestValid
  <2>2. p % cap \in 0 .. cap - 1
    BY <1>1, <2>1
  <2>3. CASE p = write_pos
    BY <1>1, <1>3, <1>4, <1>6, <2>3, Zenon
  <2>4. CASE p < write_pos
    <3>1. p % cap # write_pos % cap
      BY <1>1, <2>1, <2>4, CellsApart, ZenonT(30)
    <3>2. p \in OldestValid .. write_pos - 1 /\ p \in 0 .. write_pos - 1
      BY <1>1, <2>1, <2>4 DEF OldestValid
    <3>3. log_ring'[p % cap] = log_ring[p % cap]
      BY <1>1, <1>3, <2>2, <3>1, Zenon
    <3> QED
      BY <1>1, <1>4, <3>2, <3>3, Zenon
  <2> QED
    BY <1>1, <2>1, <2>3, <2>4
<1>8. LogTypes'
  <2>1. log_ring' \in [0 .. cap - 1 -> LogEntries \cup {None}]
    BY <1>1, <1>2, <1>3, Zenon
  <2>2. write_pos' \in Nat /\ write_pos' - 1 = write_pos /\ Len(published') = write_pos'
    BY <1>1, <1>3, <1>4
  <2>3. /\ cursors' \in [Clients -> Nat] /\ seen' \in [Clients -> Seq(Nat)]
        /\ asked' \in [Clients -> SUBSET Kinds] /\ missed' \in [Clients -> SUBSET Nat]
        /\ log_tail' \in Kinds \cup {None} /\ tailKinds' \subseteq Kinds
    BY <1>3, Zenon DEF LogInv, LogTypes
  <2>4. /\ \A p \in 0 .. write_pos' - 1 : published'[p + 1].n = p
        /\ \A p \in OldestValid' .. write_pos' - 1 : log_ring'[p % cap] = published'[p + 1]
    BY <1>5, <1>7, <2>2, Zenon
  <2> QED
    BY <1>4, <2>1, <2>2, <2>3, <2>4, Zenon DEF LogTypes
<1>9. ASSUME NEW d \in Clients PROVE ReaderOf(d)'
  <2>1. Reader(cursors[d], seen[d], asked[d], missed[d], published)
    BY Zenon DEF LogInv, ReaderOf
  <2>2. Reader(cursors[d], seen[d], asked[d], missed[d], Append(published, e))
    BY <1>1, <1>2, <2>1, MoreToRead, Zenon
  <2> QED
    BY <1>3, <2>2, Zenon DEF ReaderOf
<1> QED
  BY <1>8, <1>9, Zenon DEF LogInv

\* A read that the reader's capability allows, from log read or log tail.
LEMMA ReadStep ==
    ASSUME LogInv, NEW c \in Clients, NEW k \in Kinds, LogReadAllowed(c, k),
           log_tail' \in Kinds \cup {None}, tailKinds' \subseteq Kinds
    PROVE  LogInv'
<1> DEFINE cap == LOG_CAPACITY
           from == Cursor(c)
<1>1. /\ write_pos \in Nat /\ published \in Seq(LogEntries) /\ Len(published) = write_pos
      /\ \A p \in 0 .. write_pos - 1 : published[p + 1].n = p
      /\ cap \in Nat \ {0}
      /\ \A p \in OldestValid .. write_pos - 1 : log_ring[p % cap] = published[p + 1]
      /\ cursors \in [Clients -> Nat] /\ seen \in [Clients -> Seq(Nat)]
      /\ asked \in [Clients -> SUBSET Kinds] /\ missed \in [Clients -> SUBSET Nat]
  BY LogConstants, Zenon DEF LogInv, LogTypes
<1>2. \A d \in Clients : Reader(cursors[d], seen[d], asked[d], missed[d], published)
  BY Zenon DEF LogInv, ReaderOf
<1>3. cursors[c] \in Nat /\ cursors[c] <= write_pos /\ OldestValid \in Nat /\ OldestValid <= write_pos
  <2>1. cursors[c] \in 0 .. Len(published)
    BY <1>2, Zenon DEF Reader
  <2> QED
    BY <1>1, <2>1 DEF OldestValid
<1>4. from \in cursors[c] .. write_pos /\ from \in Nat /\ OldestValid <= from
  <2>1. from \in {cursors[c], OldestValid} /\ from >= cursors[c] /\ from >= OldestValid
    BY <1>3, GreaterOfTwo, Zenon DEF Cursor
  <2> QED
    BY <1>1, <1>3, <2>1
<1> HIDE DEF from
<1>5. \A p \in from .. write_pos - 1 : /\ log_ring[p % cap] = published[p + 1]
                                       /\ log_ring[p % cap].n = p
  <2> SUFFICES ASSUME NEW p \in from .. write_pos - 1
               PROVE  p \in OldestValid .. write_pos - 1 /\ p \in 0 .. write_pos - 1
    BY <1>1, Zenon
  <2> QED
    BY <1>1, <1>3, <1>4
<1>6. Unread(c, k) = {p \in from .. write_pos - 1 : log_ring[p % cap].kind = k}
  BY Zenon DEF Unread, from
<1>7. /\ asked' = [asked EXCEPT ![c] = asked[c] \cup {k}]
      /\ missed' = [missed EXCEPT ![c] = missed[c] \cup (cursors[c] .. from - 1)]
      /\ UNCHANGED <<log_ring, write_pos, published>>
  BY Zenon DEF LogReadAllowed, from
<1>8. cursors[c] .. from - 1 \in SUBSET Nat
  BY <1>3, <1>4
<1>9. SUFFICES ASSUME NEW pos \in Nat, NEW shown \in Seq(Nat),
                      cursors' = [cursors EXCEPT ![c] = pos],
                      seen' = [seen EXCEPT ![c] = shown],
                      Reader(pos, shown, asked[c] \cup {k},
                             missed[c] \cup (cursors[c] .. from - 1), published)
               PROVE  LogInv'
  <2>1. CASE Unread(c, k) = {}
    <3>1. cursors' = [cursors EXCEPT ![c] = write_pos] /\ seen' = [seen EXCEPT ![c] = seen[c]]
      BY <1>1, <2>1, Zenon DEF LogReadAllowed
    <3>2. \A p \in from .. write_pos - 1 : published[p + 1].kind # k
      BY <1>5, <1>6, <2>1, ZenonT(30)
    <3>3. Reader(write_pos, seen[c], asked[c] \cup {k},
                 missed[c] \cup (cursors[c] .. from - 1), published)
      BY <1>1, <1>2, <1>4, <3>2, ReadNothing, Zenon
    <3> QED
      BY <1>1, <1>9, <3>1, <3>3, Zenon
  <2>2. CASE Unread(c, k) # {}
    <3> DEFINE next == NextUnread(c, k)
    <3>1. Unread(c, k) \subseteq Nat
      BY <1>1, <1>4, <1>6
    <3>2. next \in Unread(c, k) /\ \A p \in Unread(c, k) : next <= p
      BY <2>2, <3>1, LeastNat, Zenon DEF NextUnread
    <3>3. /\ cursors' = [cursors EXCEPT ![c] = next + 1]
          /\ seen' = [seen EXCEPT ![c] = Append(seen[c], log_ring[next % cap].n)]
      BY <1>1, <2>2, Zenon DEF LogReadAllowed
    <3> HIDE DEF next
    <3>4. next \in from .. write_pos - 1 /\ published[next + 1].kind = k /\ log_ring[next % cap].n = next
      BY <1>5, <1>6, <3>2, Zenon
    <3>5. next \in Nat /\ next + 1 \in Nat
      BY <1>4, <3>4
    <3>6. ASSUME NEW p \in from .. next - 1 PROVE published[p + 1].kind # k
      <4>1. p \in from .. write_pos - 1 /\ ~(next <= p)
        BY <1>1, <1>4, <3>4, <3>5, SMTT(30)
      <4> QED
        BY <1>5, <1>6, <3>2, <4>1, ZenonT(60)
    <3>7. Reader(next + 1, Append(seen[c], next), asked[c] \cup {k},
                 missed[c] \cup (cursors[c] .. from - 1), published)
      BY <1>1, <1>2, <1>4, <3>4, <3>6, ReadNext, ZenonT(60)
    <3>8. Append(seen[c], next) \in Seq(Nat)
      BY <1>1, <3>5
    <3> QED
      BY <1>9, <3>3, <3>4, <3>5, <3>7, <3>8, ZenonT(30)
  <2> QED
    BY <2>1, <2>2, Zenon
<1>10. LogTypes'
  <2>1. /\ cursors' \in [Clients -> Nat] /\ seen' \in [Clients -> Seq(Nat)]
        /\ asked' \in [Clients -> SUBSET Kinds] /\ missed' \in [Clients -> SUBSET Nat]
    BY <1>1, <1>7, <1>8, <1>9, Zenon
  <2> QED
    BY <1>7, <2>1, Zenon DEF LogInv, LogTypes, OldestValid
<1>11. ASSUME NEW d \in Clients PROVE ReaderOf(d)'
  <2>1. CASE d = c
    <3>1. /\ cursors'[c] = pos /\ seen'[c] = shown /\ asked'[c] = asked[c] \cup {k}
          /\ missed'[c] = missed[c] \cup (cursors[c] .. from - 1)
      BY <1>1, <1>7, <1>9, Zenon
    <3> QED
      BY <1>7, <1>9, <2>1, <3>1, Zenon DEF ReaderOf
  <2>2. CASE d # c
    <3>1. /\ cursors'[d] = cursors[d] /\ seen'[d] = seen[d] /\ asked'[d] = asked[d]
          /\ missed'[d] = missed[d]
      BY <1>1, <1>7, <1>9, <2>2, Zenon
    <3> QED
      BY <1>2, <1>7, <3>1, Zenon DEF ReaderOf
  <2> QED
    BY <2>1, <2>2, Zenon
<1> QED
  BY <1>10, <1>11, ZenonT(30) DEF LogInv

\* log tail takes the least of the kinds it has left.
LEMMA LeastKind ==
    ASSUME NEW T, T \subseteq Kinds, T # {}
    PROVE  Min(T) \in Kinds
<1>1. T \subseteq Nat
  BY LogConstants
<1> QED
  BY <1>1, LeastNat, Zenon

\* Every request and command keeps the invariant of the log.
LEMMA LogStep ==
    ASSUME LogInv, [LogNext]_<<caps, logVars>>
    PROVE  LogInv'
<1>1. log_tail \in Kinds \cup {None} /\ tailKinds \subseteq Kinds
  BY Zenon DEF LogInv, LogTypes
<1>2. CASE UNCHANGED <<log_ring, write_pos, cursors, published, seen, asked, missed>>
           /\ log_tail' \in Kinds \cup {None} /\ tailKinds' \subseteq Kinds
  BY <1>2, ZenonT(30) DEF LogInv, LogTypes, ReaderOf, OldestValid
<1>3. CASE UNCHANGED logVars
  BY <1>1, <1>2, <1>3, Zenon DEF logVars
<1>4. ASSUME NEW c \in Clients, NEW k \in Kinds, LogRead(c, k) PROVE LogInv'
  BY <1>1, <1>4, ReadStep, Zenon DEF LogRead
<1>5. CASE LogTail
  <2>1. tailKinds' \subseteq Kinds /\ tailKinds' # {} /\ log_tail' = Min(tailKinds')
    BY <1>5, Zenon DEF LogTail
  <2>2. log_tail' \in Kinds
    BY <2>1, LeastKind, Zenon
  <2> QED
    BY <1>2, <1>5, <2>1, <2>2, Zenon DEF LogTail
<1>6. CASE TailStep
  <2>1. /\ Later(log_tail) \subseteq Kinds /\ log_tail \in Kinds /\ tailKinds' = tailKinds
        /\ LogReadAllowed(Shell, log_tail)
    BY <1>1, <1>6, Zenon DEF TailStep, Later
  <2>2. log_tail' = log_tail \/ (Later(log_tail) # {} /\ log_tail' = Min(Later(log_tail))) \/ log_tail' = None
    BY <1>6, Zenon DEF TailStep
  <2>3. log_tail' \in Kinds \cup {None}
    BY <1>1, <2>1, <2>2, LeastKind, Zenon
  <2> QED
    BY <1>1, <2>1, <2>3, CapConstants, ReadStep, Zenon
<1> QED
  BY <1>3, <1>4, <1>5, <1>6, PublishStep, Zenon DEF LogNext, LogGrant, LogRevoke, logVars

\* A reader of the log gets no entry twice, each in the order of publication
\* and of a kind it asked for, however the ring has wrapped meanwhile.
THEOREM LogInOrder == LogSpec => []LogReadsInOrder
<1>1. LogInv => LogReadsInOrder
  BY ZenonT(30) DEF LogInv, ReaderOf, Reader, LogReadsInOrder
<1> QED
  BY <1>1, LogStarts, LogStep, PTL DEF LogSpec

\* A task that reads one kind was shown every entry of that kind before its
\* cursor, but for those that had left the ring before it asked.
THEOREM OneKindReader == LogSpec => []OneKindReaderMissesNothing
<1>1. LogInv => OneKindReaderMissesNothing
  <2> SUFFICES ASSUME LogInv, NEW c \in Clients, Cardinality(asked[c]) = 1,
                      NEW p \in 0 .. cursors[c] - 1, published[p + 1].kind \in asked[c]
               PROVE  p \in missed[c] \/ \E i \in 1 .. Len(seen[c]) : seen[c][i] = p
    BY Zenon DEF OneKindReaderMissesNothing
  <2>1. IsFiniteSet(0 .. 15)
    <3>1. 0 \in Int /\ 15 \in Int
      OBVIOUS
    <3> QED
      BY <3>1, FS_Interval, Zenon
  <2>2. IsFiniteSet(asked[c])
    <3>1. asked[c] \subseteq 0 .. 15
      BY LogConstants, Zenon DEF LogInv, LogTypes
    <3> QED
      BY <2>1, <3>1, FS_Subset, Zenon
  <2>3. PICK k : asked[c] = {k}
    BY <2>2, FS_Singleton, Zenon
  <2>4. asked[c] \subseteq {k} /\ published[p + 1].kind = k
    BY <2>3, Zenon
  <2>5. Reader(cursors[c], seen[c], asked[c], missed[c], published)
    BY Zenon DEF LogInv, ReaderOf
  <2> QED
    BY <2>4, <2>5, Zenon DEF Reader
<1> QED
  BY <1>1, LogStarts, LogStep, PTL DEF LogSpec

-----------------------------------------------------------------------------
(* The key/value and the file service *)

FilePaths == {Cut(p, FS_NAME_LEN) : p \in FsTyped} \cup {<< >>}
FileContents == {Cut(d, FS_DATA_LEN) : d \in FsData} \cup {<< >>}
NodeRecords ==
    [used : BOOLEAN, is_dir : BOOLEAN, mount : {0}, name : FilePaths, data : FileContents]

\* No two nodes in use have one name.
NodeTable(n) ==
    /\ n \in [Nodes -> NodeRecords]
    /\ \A i, j \in Nodes : n[i].used /\ n[j].used /\ n[i].name = n[j].name => i = j

UsedNodes(n) == {j \in Nodes : n[j].used}

\* The map that a table stands for.
MapOf(n) ==
    [p \in {n[i].name : i \in {j \in Nodes : n[j].used}} |->
        LET node == CHOOSE i \in Nodes : n[i].used /\ n[i].name = p
        IN  [dir |-> n[node].is_dir, data |-> n[node].data]]

\* The map has the names of the nodes in use.
LEMMA MapDomain ==
    ASSUME NEW n, NEW p
    PROVE  p \in DOMAIN MapOf(n) <=> \E i \in Nodes : n[i].used /\ n[i].name = p
  BY ZenonT(30) DEF MapOf

\* It gives a name what the node of that name has.
LEMMA MapValue ==
    ASSUME NEW n, NodeTable(n), NEW i \in Nodes, n[i].used
    PROVE  /\ n[i].name \in DOMAIN MapOf(n)
           /\ MapOf(n)[n[i].name] = [dir |-> n[i].is_dir, data |-> n[i].data]
<1>1. n[i].name \in {n[k].name : k \in {j \in Nodes : n[j].used}}
  BY Zenon
<1>2. (CHOOSE k \in Nodes : n[k].used /\ n[k].name = n[i].name) = i
  BY Zenon DEF NodeTable
<1>3. MapOf(n)[n[i].name] =
         LET node == CHOOSE k \in Nodes : n[k].used /\ n[k].name = n[i].name
         IN  [dir |-> n[node].is_dir, data |-> n[node].data]
  BY <1>1, Zenon DEF MapOf
<1>4. n[i].name \in DOMAIN MapOf(n)
  BY MapDomain, Zenon
<1> QED
  BY <1>2, <1>3, <1>4, Zenon

\* Two maps with the same domain and values are one.
LEMMA SameMap ==
    ASSUME NEW n, NEW D, NEW g, g = [p \in D |-> g[p]],
           \A p : p \in DOMAIN MapOf(n) <=> p \in D,
           \A p \in D : MapOf(n)[p] = g[p]
    PROVE  MapOf(n) = g
<1>1. DOMAIN MapOf(n) = D
  BY Zenon
<1>2. MapOf(n) = [p \in DOMAIN MapOf(n) |-> MapOf(n)[p]]
  BY ZenonT(30) DEF MapOf
<1> QED
  BY <1>1, <1>2, Zenon

\* A node is written: what was not its path's stays.
LEMMA WrittenNode ==
    ASSUME NEW n, NodeTable(n), NEW i \in Nodes, NEW p \in FilePaths, NEW d \in FileContents,
           NEW dir \in BOOLEAN,
           \A j \in Nodes : n[j].used /\ n[j].name = p => j = i,
           n[i].used => n[i].name = p,
           NEW m \in [Nodes -> NodeRecords], \A j \in Nodes : j # i => m[j] = n[j],
           m[i].used, m[i].name = p, m[i].is_dir = dir, m[i].data = d
    PROVE  /\ NodeTable(m)
           /\ MapOf(m) = [q \in DOMAIN MapOf(n) \cup {p} |->
                             IF q = p THEN [dir |-> dir, data |-> d] ELSE MapOf(n)[q]]
<1>3. NodeTable(m)
  BY ZenonT(30) DEF NodeTable
<1> DEFINE g == [q \in DOMAIN MapOf(n) \cup {p} |->
                   IF q = p THEN [dir |-> dir, data |-> d] ELSE MapOf(n)[q]]
           D == DOMAIN MapOf(n) \cup {p}
<1>4. \A q : q \in DOMAIN MapOf(m) <=> q \in D
  <2> SUFFICES ASSUME NEW q PROVE q \in DOMAIN MapOf(m) <=> q \in D
    BY Zenon
  <2>1. q \in DOMAIN MapOf(m) <=> \E k \in Nodes : m[k].used /\ m[k].name = q
    BY MapDomain, ZenonT(30)
  <2>2. q \in DOMAIN MapOf(n) <=> \E k \in Nodes : n[k].used /\ n[k].name = q
    BY MapDomain, ZenonT(60)
  <2>3. (\E k \in Nodes : m[k].used /\ m[k].name = q) <=>
          q = p \/ \E k \in Nodes : n[k].used /\ n[k].name = q
    BY Zenon
  <2> QED
    BY <2>1, <2>2, <2>3, Zenon
<1>5. ASSUME NEW q \in D PROVE MapOf(m)[q] = g[q]
  <2>1. CASE q = p
    <3>1. g[q] = [dir |-> dir, data |-> d]
      BY <2>1, ZenonT(30)
    <3>2. MapOf(m)[m[i].name] = [dir |-> m[i].is_dir, data |-> m[i].data]
      BY <1>3, MapValue, ZenonT(30)
    <3> QED
      BY <2>1, <3>1, <3>2, Zenon
  <2>2. CASE q # p
    <3>1. PICK k \in Nodes : n[k].used /\ n[k].name = q
      BY <2>2, MapDomain, Zenon
    <3>2. k # i /\ m[k] = n[k] /\ m[k].used
      BY <2>2, <3>1, Zenon
    <3>3. /\ MapOf(m)[m[k].name] = [dir |-> m[k].is_dir, data |-> m[k].data]
          /\ MapOf(n)[n[k].name] = [dir |-> n[k].is_dir, data |-> n[k].data]
      BY <1>3, <3>1, <3>2, MapValue, SMTT(30)
    <3>4. g[q] = MapOf(n)[q]
      BY <2>2, Zenon
    <3> QED
      BY <3>1, <3>2, <3>3, <3>4, Zenon
  <2> QED
    BY <2>1, <2>2, Zenon
<1>6. g = [q \in D |-> g[q]]
  BY Zenon
<1> HIDE DEF g, D
<1>7. MapOf(m) = g
  BY <1>4, <1>5, <1>6, SameMap, SMTT(30)
<1> QED
  BY <1>3, <1>7, Zenon DEF g

\* A node that is no longer used takes its name from the map, and nothing else.
LEMMA DeletedNode ==
    ASSUME NEW n, NodeTable(n), NEW i \in Nodes, n[i].used,
           NEW m \in [Nodes -> NodeRecords], ~ m[i].used, \A j \in Nodes : j # i => m[j] = n[j]
    PROVE  /\ NodeTable(m)
           /\ MapOf(m) = [q \in DOMAIN MapOf(n) \ {n[i].name} |-> MapOf(n)[q]]
<1>2. NodeTable(m)
  BY DEF NodeTable
<1> DEFINE D == DOMAIN MapOf(n) \ {n[i].name}
           g == [q \in D |-> MapOf(n)[q]]
<1>3. \A q : q \in DOMAIN MapOf(m) <=> q \in D
  <2> SUFFICES ASSUME NEW q PROVE q \in DOMAIN MapOf(m) <=> q \in D
    BY Zenon
  <2>1. q \in DOMAIN MapOf(m) <=> \E k \in Nodes : m[k].used /\ m[k].name = q
    BY MapDomain
  <2>2. q \in DOMAIN MapOf(n) <=> \E k \in Nodes : n[k].used /\ n[k].name = q
    BY MapDomain, ZenonT(30)
  <2>3. \A k \in Nodes : n[k].used /\ n[k].name = n[i].name => k = i
    BY Zenon DEF NodeTable
  <2>4. (\E k \in Nodes : m[k].used /\ m[k].name = q) <=>
          q # n[i].name /\ \E k \in Nodes : n[k].used /\ n[k].name = q
    BY <2>3, Zenon
  <2> QED
    BY <2>1, <2>2, <2>4, Zenon
<1>4. ASSUME NEW q \in D PROVE MapOf(m)[q] = g[q]
  <2>1. PICK k \in Nodes : n[k].used /\ n[k].name = q
    BY MapDomain, ZenonT(30)
  <2>2. k # i /\ m[k] = n[k] /\ m[k].used
    BY <2>1, Zenon
  <2>3. /\ MapOf(m)[m[k].name] = [dir |-> m[k].is_dir, data |-> m[k].data]
        /\ MapOf(n)[n[k].name] = [dir |-> n[k].is_dir, data |-> n[k].data]
    BY <1>2, <2>1, <2>2, MapValue, ZenonT(30)
  <2>4. g[q] = MapOf(n)[q]
    BY Zenon
  <2> QED
    BY <2>1, <2>2, <2>3, <2>4, Zenon
<1>5. g = [q \in D |-> g[q]]
  BY Zenon
<1> HIDE DEF g, D
<1>6. MapOf(m) = g
  BY <1>3, <1>4, <1>5, SameMap
<1> QED
  BY <1>2, <1>6, Zenon DEF g, D

\* The map is full exactly when no node is free.
LEMMA FullMap ==
    ASSUME NEW n, NodeTable(n)
    PROVE  Cardinality(DOMAIN MapOf(n)) < FS_MAX_NODES <=> \E i \in Nodes : ~ n[i].used
<1> DEFINE U == UsedNodes(n)
           f == [i \in U |-> n[i].name]
<1>1. IsFiniteSet(Nodes) /\ Cardinality(Nodes) = FS_MAX_NODES
  <2>1. FS_MAX_NODES \in Nat \ {0} /\ 1 \in Int /\ FS_MAX_NODES \in Int /\ ~(1 > FS_MAX_NODES)
        /\ FS_MAX_NODES - 1 + 1 = FS_MAX_NODES
    BY StoreConstants
  <2> QED
    BY <2>1, FS_Interval, Zenon DEF Nodes
<1>2. U \in SUBSET Nodes /\ (U = Nodes <=> \A i \in Nodes : n[i].used)
  BY Zenon DEF UsedNodes
<1>3. /\ IsFiniteSet(U) /\ Cardinality(U) <= Cardinality(Nodes)
      /\ Cardinality(Nodes) = Cardinality(U) => Nodes = U
  BY <1>1, <1>2, FS_Subset, Zenon
<1>4. f \in Bijection(U, DOMAIN MapOf(n))
  <2>1. DOMAIN MapOf(n) = {n[i].name : i \in U}
    BY Zenon DEF MapOf, UsedNodes
  <2>2. f \in [U -> DOMAIN MapOf(n)] /\ \A t \in DOMAIN MapOf(n) : \E s \in U : f[s] = t
    BY <2>1, Zenon
  <2>3. \A a, b \in U : f[a] = f[b] => a = b
    BY Zenon DEF NodeTable, UsedNodes
  <2> HIDE DEF f
  <2> QED
    BY <2>2, <2>3, ZenonT(30) DEF Bijection, Injection, Surjection, IsInjective
<1>5. Cardinality(DOMAIN MapOf(n)) = Cardinality(U)
  BY <1>3, <1>4, FS_Bijection, Zenon DEF ExistsBijection
<1>6. Cardinality(U) \in Nat
  BY <1>3, FS_CardinalityType, Zenon
<1> HIDE DEF U
<1>7. Cardinality(U) < FS_MAX_NODES <=> U # Nodes
  <2>1. FS_MAX_NODES \in Nat
    BY StoreConstants, Zenon
  <2>2. Cardinality(U) <= FS_MAX_NODES /\ (Cardinality(U) = FS_MAX_NODES <=> U = Nodes)
    BY <1>1, <1>3, Zenon
  <2> QED
    BY <1>6, <2>1, <2>2, SMTT(30)
<1> QED
  BY <1>2, <1>5, <1>7, Zenon

-----------------------------------------------------------------------------

\* The instance and this module count the same way.
LEMMA SameSize == ASSUME NEW S PROVE Abstract!Cardinality(S) = Cardinality(S)
  BY Zenon DEF Abstract!Cardinality, Cardinality

StoreInv == NodeTable(nodes)

\* The refinement mapping, before and after a step.
LEMMA MapNow == FileMap = MapOf(nodes) /\ FileMap' = MapOf(nodes')
  BY Zenon DEF FileMap, MapOf

\* The first of some nodes is a node.
LEMMA LeastNode ==
    ASSUME NEW T, T \subseteq Nodes, T # {} PROVE Min(T) \in T /\ Min(T) \in Nodes
<1>1. T \subseteq Nat
  BY DEF Nodes
<1> QED
  BY <1>1, LeastNat, Zenon

\* find_node finds the one node that the map has for the path.
LEMMA Found ==
    ASSUME StoreInv, NEW p, FindNode(p) # {}, NEW i, i = Min(FindNode(p))
    PROVE  /\ i \in Nodes /\ nodes[i].used /\ nodes[i].name = p /\ p \in DOMAIN FileMap
           /\ FileMap[p].dir = nodes[i].is_dir /\ FileMap[p].data = nodes[i].data
           /\ \A j \in Nodes : nodes[j].used /\ nodes[j].name = p => j = i
<1>1. i \in FindNode(p) /\ i \in Nodes
  <2>1. FindNode(p) \subseteq Nodes
    BY Zenon DEF FindNode
  <2> QED
    BY <2>1, LeastNode, Zenon
<1>2. nodes[i].used /\ nodes[i].name = p
  BY <1>1, Zenon DEF FindNode
<1>3. p \in DOMAIN FileMap /\ FileMap[p] = [dir |-> nodes[i].is_dir, data |-> nodes[i].data]
  BY <1>1, <1>2, MapValue, MapNow, SMTT(30) DEF StoreInv
<1>4. \A j \in Nodes : nodes[j].used /\ nodes[j].name = p => j = i
  BY <1>1, <1>2, Zenon DEF StoreInv, NodeTable
<1> QED
  BY <1>1, <1>2, <1>3, <1>4, SMTT(30)

\* It finds none when the map has none, and then a node is free if the map has room.
LEMMA NotFound ==
    ASSUME StoreInv, NEW p, FindNode(p) = {}
    PROVE  /\ p \notin DOMAIN FileMap /\ \A j \in Nodes : ~(nodes[j].used /\ nodes[j].name = p)
           /\ Abstract!HasRoomFor(p) <=> FreeNodes # {}
<1>1. \A j \in Nodes : nodes[j].used => nodes[j].mount = 0
  BY Zenon DEF StoreInv, NodeTable, NodeRecords
<1>2. \A j \in Nodes : ~(nodes[j].used /\ nodes[j].name = p)
  BY <1>1, Zenon DEF FindNode
<1>3. p \notin DOMAIN FileMap
  BY <1>2, MapDomain, MapNow, ZenonT(60)
<1>4. Cardinality(DOMAIN FileMap) < FS_MAX_NODES <=> \E i \in Nodes : ~ nodes[i].used
  BY FullMap, MapNow, Zenon DEF StoreInv
<1>5. FreeNodes # {} <=> \E i \in Nodes : ~ nodes[i].used
  BY ZenonT(30) DEF FreeNodes
<1> QED
  BY <1>2, <1>3, <1>4, <1>5, SameSize, ZenonT(60) DEF Abstract!HasRoomFor, Abstract!Exists

\* Filling a node, new or found, changes the map at its name.
LEMMA PutNode ==
    ASSUME StoreInv, NEW i \in Nodes, NEW p \in FilePaths, NEW d \in FileContents,
           NEW dir \in BOOLEAN,
           \A j \in Nodes : nodes[j].used /\ nodes[j].name = p => j = i,
           nodes[i].used => nodes[i].name = p,
           Put(i, dir, p, d)
    PROVE  StoreInv' /\ FileMap' = Abstract!With(p, [dir |-> dir, data |-> d])
<1> DEFINE rec == [used |-> TRUE, is_dir |-> dir, mount |-> 0, name |-> p, data |-> d]
<1>1. /\ rec \in NodeRecords
      /\ rec.used /\ rec.name = p /\ rec.is_dir = dir /\ rec.data = d
  BY Zenon DEF NodeRecords
<1>2. nodes' = [nodes EXCEPT ![i] = rec]
  BY Zenon DEF Put
<1> HIDE DEF rec
<1>3. /\ nodes' \in [Nodes -> NodeRecords] /\ nodes'[i] = rec
      /\ \A j \in Nodes : j # i => nodes'[j] = nodes[j]
  BY <1>1, <1>2, ZenonT(30) DEF StoreInv, NodeTable
<1>4. nodes'[i].used /\ nodes'[i].name = p /\ nodes'[i].is_dir = dir /\ nodes'[i].data = d
  BY <1>1, <1>3, ZenonT(60)
<1>5. /\ NodeTable(nodes')
      /\ MapOf(nodes') = [q \in DOMAIN MapOf(nodes) \cup {p} |->
                             IF q = p THEN [dir |-> dir, data |-> d] ELSE MapOf(nodes)[q]]
  BY <1>3, <1>4, WrittenNode, SMTT(30) DEF StoreInv
<1> QED
  BY <1>5, MapNow, Zenon DEF StoreInv, NodeTable, Abstract!With

\* The operation mkdir of fs_service_main is the abstract Mkdir.
LEMMA MkdirStep ==
    ASSUME StoreInv, NEW p \in FilePaths, FsMkdir(p), UNCHANGED kv
    PROVE  StoreInv' /\ Abstract!Mkdir(p)
<1>1. CASE FindNode(p) # {} /\ Status(4) /\ UNCHANGED nodes
  <2>1. p \in DOMAIN FileMap
    BY <1>1, Found, Zenon
  <2>2. FileMap' = FileMap /\ StoreInv'
    BY <1>1, MapNow, Zenon DEF StoreInv, NodeTable
  <2> QED
    BY <1>1, <2>1, <2>2, Zenon DEF Abstract!Mkdir, Abstract!Exists, Abstract!Plain, Status, Answer
<1>2. CASE FindNode(p) = {} /\ FreeNodes = {} /\ Status(3) /\ UNCHANGED nodes
  <2>1. ~ Abstract!HasRoomFor(p)
    BY <1>2, NotFound, Zenon
  <2>2. FileMap' = FileMap /\ StoreInv'
    BY <1>2, MapNow, Zenon DEF StoreInv, NodeTable
  <2> QED
    BY <1>2, <2>1, <2>2, Zenon DEF Abstract!Mkdir, Abstract!Plain, Status, Answer
<1>3. CASE /\ FindNode(p) = {} /\ FreeNodes # {}
           /\ Put(Min(FreeNodes), TRUE, p, << >>) /\ Status(0)
  <2>1. /\ Abstract!HasRoomFor(p) /\ p \notin DOMAIN FileMap
        /\ \A j \in Nodes : ~(nodes[j].used /\ nodes[j].name = p)
    BY <1>3, NotFound, Zenon
  <2>2. Min(FreeNodes) \in FreeNodes /\ Min(FreeNodes) \in Nodes
    <3>1. FreeNodes \subseteq Nodes
      BY ZenonT(30) DEF FreeNodes
    <3> QED
      BY <1>3, <3>1, LeastNode, Zenon
  <2>3. ~ nodes[Min(FreeNodes)].used
    BY <2>2, Zenon DEF FreeNodes
  <2>4. << >> \in FileContents
    BY ZenonT(30) DEF FileContents
  <2>5. StoreInv' /\ FileMap' = Abstract!With(p, [dir |-> TRUE, data |-> << >>])
    BY <1>3, <2>1, <2>2, <2>3, <2>4, PutNode, ZenonT(30)
  <2> QED
    BY <1>3, <2>1, <2>5, Zenon DEF Abstract!Mkdir, Abstract!Plain, Abstract!Exists, Status, Answer
<1> QED
  BY <1>1, <1>2, <1>3, Zenon DEF FsMkdir

\* An answer alone changes no file.
LEMMA NodesKept ==
    ASSUME StoreInv, UNCHANGED nodes PROVE StoreInv' /\ FileMap' = FileMap
  BY MapNow, Zenon DEF StoreInv, NodeTable

\* The operation write of fs_service_main is the abstract Write.
LEMMA WriteStep ==
    ASSUME StoreInv, NEW p \in FilePaths, NEW d \in FileContents, FsWrite(p, d), UNCHANGED kv
    PROVE  StoreInv' /\ Abstract!Write(p, d)
<1>1. CASE /\ FindNode(p) # {} /\ nodes[Min(FindNode(p))].is_dir
           /\ Status(4) /\ UNCHANGED nodes
  <2>1. p \in DOMAIN FileMap /\ FileMap[p].dir
    BY <1>1, Found, ZenonT(30)
  <2> QED
    BY <1>1, <2>1, NodesKept, Zenon
       DEF Abstract!Write, Abstract!Exists, Abstract!Plain, Status, Answer
<1>2. CASE /\ FindNode(p) # {} /\ ~ nodes[Min(FindNode(p))].is_dir
           /\ Put(Min(FindNode(p)), FALSE, p, d) /\ Status(0)
  <2>1. PICK i : i = Min(FindNode(p))
    BY ZenonT(30)
  <2>2. /\ i \in Nodes /\ nodes[i].used /\ nodes[i].name = p /\ p \in DOMAIN FileMap
        /\ FileMap[p].dir = nodes[i].is_dir
        /\ \A j \in Nodes : nodes[j].used /\ nodes[j].name = p => j = i
    BY <1>2, <2>1, Found, ZenonT(30)
  <2>3. StoreInv' /\ FileMap' = Abstract!With(p, [dir |-> FALSE, data |-> d])
    BY <1>2, <2>1, <2>2, PutNode, Zenon
  <2>4. ~ FileMap[p].dir
    BY <1>2, <2>1, <2>2, ZenonT(30)
  <2> QED
    BY <1>2, <2>2, <2>3, <2>4, Zenon
       DEF Abstract!Write, Abstract!HasRoomFor, Abstract!Exists, Abstract!Plain, Status, Answer
<1>3. CASE FindNode(p) = {} /\ FreeNodes = {} /\ Status(3) /\ UNCHANGED nodes
  <2>1. ~ Abstract!HasRoomFor(p)
    BY <1>3, NotFound, Zenon
  <2> QED
    BY <1>3, <2>1, NodesKept, Zenon DEF Abstract!Write, Abstract!Plain, Status, Answer
<1>4. CASE /\ FindNode(p) = {} /\ FreeNodes # {}
           /\ Put(Min(FreeNodes), FALSE, p, d) /\ Status(0)
  <2>1. /\ Abstract!HasRoomFor(p) /\ p \notin DOMAIN FileMap
        /\ \A j \in Nodes : ~(nodes[j].used /\ nodes[j].name = p)
    BY <1>4, NotFound, Zenon
  <2>2. Min(FreeNodes) \in FreeNodes /\ Min(FreeNodes) \in Nodes
    <3>1. FreeNodes \subseteq Nodes
      BY Zenon DEF FreeNodes
    <3> QED
      BY <1>4, <3>1, LeastNode, Zenon
  <2>3. ~ nodes[Min(FreeNodes)].used
    BY <2>2, ZenonT(30) DEF FreeNodes
  <2>4. StoreInv' /\ FileMap' = Abstract!With(p, [dir |-> FALSE, data |-> d])
    BY <1>4, <2>1, <2>2, <2>3, PutNode, ZenonT(30)
  <2> QED
    BY <1>4, <2>1, <2>4, ZenonT(60) DEF Abstract!Write, Abstract!Plain, Abstract!Exists, Status, Answer
<1> QED
  BY <1>1, <1>2, <1>3, <1>4, ZenonT(60) DEF FsWrite

\* The operation read of fs_service_main is the abstract Read.
LEMMA ReadFileStep ==
    ASSUME StoreInv, NEW p, FsRead(p), UNCHANGED kv
    PROVE  StoreInv' /\ Abstract!Read(p)
<1>1. StoreInv' /\ FileMap' = FileMap
  BY NodesKept, Zenon DEF FsRead
<1>2. CASE FindNode(p) = {}
  <2>1. p \notin DOMAIN FileMap /\ Status(2)
    BY <1>2, NotFound, Zenon DEF FsRead
  <2> QED
    BY <1>1, <2>1, Zenon DEF Abstract!Read, Abstract!Exists, Abstract!Plain, Status, Answer
<1>3. CASE FindNode(p) # {}
  <2>1. PICK i : i = Min(FindNode(p))
    BY Zenon
  <2>2. /\ p \in DOMAIN FileMap
        /\ FileMap[p].dir = nodes[i].is_dir /\ FileMap[p].data = nodes[i].data
    BY <1>3, <2>1, Found, ZenonT(30)
  <2>3. reply' = IF FileMap[p].dir THEN <<2, "", << >> >> ELSE <<0, "value", FileMap[p].data>>
    BY <1>3, <2>1, <2>2, Zenon DEF FsRead, Status, Answer
  <2> QED
    BY <1>1, <2>2, <2>3, ZenonT(60) DEF Abstract!Read, Abstract!Exists, Abstract!Plain
<1> QED
  BY <1>2, <1>3, ZenonT(30)

\* The operation stat of fs_service_main is the abstract Stat.
LEMMA StatStep ==
    ASSUME StoreInv, NEW p, FsStat(p), UNCHANGED kv
    PROVE  StoreInv' /\ Abstract!Stat(p)
<1>1. StoreInv' /\ FileMap' = FileMap
  BY NodesKept, Zenon DEF FsStat
<1>2. CASE FindNode(p) = {}
  <2>1. p \notin DOMAIN FileMap /\ Status(2)
    BY <1>2, NotFound, ZenonT(60) DEF FsStat
  <2> QED
    BY <1>1, <2>1, ZenonT(60) DEF Abstract!Stat, Abstract!Exists, Abstract!Plain, Status, Answer
<1>3. CASE FindNode(p) # {}
  <2>1. PICK i : i = Min(FindNode(p))
    BY ZenonT(30)
  <2>2. /\ p \in DOMAIN FileMap
        /\ FileMap[p].dir = nodes[i].is_dir /\ FileMap[p].data = nodes[i].data
    BY <1>3, <2>1, Found, Zenon
  <2>3. reply' = <<0, "stat", <<nodes[i].is_dir, Len(nodes[i].data)>> >>
    BY <1>3, <2>1, Zenon DEF FsStat, Answer
  <2> QED
    BY <1>1, <2>2, <2>3, ZenonT(30) DEF Abstract!Stat, Abstract!Exists
<1> QED
  BY <1>2, <1>3, Zenon

\* The operation delete of fs_service_main is the abstract Delete.
LEMMA DeleteStep ==
    ASSUME StoreInv, NEW p, FsDelete(p), UNCHANGED kv
    PROVE  StoreInv' /\ Abstract!Delete(p)
<1>1. CASE FindNode(p) = {} /\ Status(2) /\ UNCHANGED nodes
  <2>1. p \notin DOMAIN FileMap /\ StoreInv' /\ FileMap' = FileMap
    BY <1>1, NotFound, NodesKept, Zenon
  <2>2. FileMap = [q \in DOMAIN FileMap \ {p} |-> FileMap[q]]
    <3>1. FileMap = [q \in DOMAIN FileMap |-> FileMap[q]]
      BY Zenon DEF FileMap
    <3>2. DOMAIN FileMap \ {p} = DOMAIN FileMap
      BY <2>1, Zenon
    <3> QED
      BY <3>1, <3>2, Zenon
  <2>3. (IF Abstract!Exists(p) THEN 0 ELSE 2) = 2
    BY <2>1, Zenon DEF Abstract!Exists
  <2>4. FileMap' = Abstract!Without(p)
    BY <2>1, <2>2, Zenon DEF Abstract!Without
  <2> QED
    BY <1>1, <2>1, <2>3, <2>4, Zenon DEF Abstract!Delete, Abstract!Plain, Status, Answer
<1>2. CASE /\ FindNode(p) # {} /\ Status(0)
           /\ nodes' = [nodes EXCEPT ![Min(FindNode(p))].used = FALSE]
  <2>1. PICK i : i = Min(FindNode(p))
    BY ZenonT(30)
  <2>2. i \in Nodes /\ nodes[i].used /\ nodes[i].name = p /\ p \in DOMAIN FileMap
    BY <1>2, <2>1, Found, Zenon
  <2>3. nodes' = [nodes EXCEPT ![i].used = FALSE]
    BY <1>2, <2>1, Zenon
  <2>4. /\ nodes' \in [Nodes -> NodeRecords] /\ ~ nodes'[i].used
        /\ \A j \in Nodes : j # i => nodes'[j] = nodes[j]
    BY <2>2, <2>3, Zenon DEF StoreInv, NodeTable, NodeRecords
  <2>5. NodeTable(nodes') /\ MapOf(nodes') = [q \in DOMAIN MapOf(nodes) \ {p} |-> MapOf(nodes)[q]]
    BY <2>2, <2>4, DeletedNode, ZenonT(30) DEF StoreInv
  <2>6. StoreInv'
    BY <2>5, Zenon DEF StoreInv, NodeTable
  <2> QED
    BY <1>2, <2>2, <2>5, <2>6, MapNow, ZenonT(60)
       DEF Abstract!Delete, Abstract!Without, Abstract!Exists, Abstract!Plain, Status, Answer
<1> QED
  BY <1>1, <1>2, Zenon DEF FsDelete

\* The operation ls of fs_service_main is the abstract Ls.
LEMMA LsStep ==
    ASSUME StoreInv, NEW p \in FilePaths, FsLs(p), UNCHANGED kv
    PROVE  StoreInv' /\ Abstract!Ls(p)
<1>1. StoreInv' /\ FileMap' = FileMap
  BY NodesKept, Zenon DEF FsLs
<1> DEFINE N == {nodes[i].name : i \in
                    {j \in Nodes : /\ nodes[j].used /\ nodes[j].mount = 0
                                   /\ Len(nodes[j].name) = Len(p) + 1
                                   /\ SubSeq(nodes[j].name, 1, Len(p)) = p}}
           M == {q \in DOMAIN FileMap : Len(q) = Len(p) + 1 /\ SubSeq(q, 1, Len(p)) = p}
<1>2. N = M
  <2>1. \A j \in Nodes : nodes[j].mount = 0
    BY DEF StoreInv, NodeTable, NodeRecords
  <2>2. \A q : q \in DOMAIN FileMap <=> \E i \in Nodes : nodes[i].used /\ nodes[i].name = q
    BY MapDomain, MapNow, Zenon
  <2> QED
    BY <2>1, <2>2, SMTT(30)
<1>3. reply' = <<0, "names", N>>
  BY Zenon DEF FsLs, Answer
<1> HIDE DEF N
<1> QED
  BY <1>1, <1>2, <1>3, Zenon DEF Abstract!Ls

\* Every request to the file service is a step of the map.
LEMMA FsStep ==
    ASSUME StoreInv, NEW c \in Clients, NEW typed \in FsTyped, NEW data \in FsData,
           FsRequest(c, typed, data)
    PROVE  StoreInv' /\ Abstract!Next
<1> DEFINE p == Cut(typed, FS_NAME_LEN)
           d == Cut(data, FS_DATA_LEN)
<1>1. /\ p \in {Cut(t, FS_NAME_LEN) : t \in FsTyped} /\ p \in FilePaths
      /\ d \in {Cut(t, FS_DATA_LEN) : t \in FsData} /\ d \in FileContents
  BY Zenon DEF FilePaths, FileContents
<1>2. /\ UNCHANGED kv
      /\ \/ FsMkdir(p) \/ FsWrite(p, d) \/ FsDelete(p)
         \/ FsRead(p) \/ FsLs(p) \/ FsStat(p) \/ FsDenied
  BY Zenon DEF FsRequest
<1> HIDE DEF p, d
<1>3. CASE FsDenied
  <2>1. StoreInv' /\ FileMap' = FileMap
    BY <1>3, NodesKept, Zenon DEF FsDenied
  <2>2. Abstract!Denied
    BY <1>2, <1>3, <2>1, Zenon DEF FsDenied, Status, Answer, Abstract!Denied, Abstract!Plain
  <2> QED
    BY <2>1, <2>2, Zenon DEF Abstract!Next
<1>4. CASE FsWrite(p, d)
  BY <1>1, <1>2, <1>4, WriteStep, ZenonT(60) DEF Abstract!Next
<1>5. CASE FsMkdir(p) \/ FsDelete(p) \/ FsRead(p) \/ FsLs(p) \/ FsStat(p)
  <2>1. /\ StoreInv'
        /\ Abstract!Mkdir(p) \/ Abstract!Delete(p) \/ Abstract!Read(p) \/ Abstract!Ls(p) \/ Abstract!Stat(p)
    BY <1>1, <1>2, <1>5, MkdirStep, DeleteStep, ReadFileStep, LsStep, StatStep, ZenonT(30)
  <2> QED
    BY <1>1, <2>1, Zenon DEF Abstract!Next
<1> QED
  BY <1>2, <1>3, <1>4, <1>5, ZenonT(30)

\* kv get and kv set are steps of the registers.
LEMMA KvStep ==
    ASSUME StoreInv, NEW c \in Clients, NEW s \in KvSlots,
           KvGet(c, s) \/ \E v \in KvTyped : KvSet(c, s, v)
    PROVE  StoreInv' /\ Abstract!Next
<1>1. StoreInv' /\ FileMap' = FileMap
  BY NodesKept, Zenon DEF KvGet, KvSet
<1>2. CASE KvGet(c, s)
  <2>1. Abstract!Denied \/ Abstract!Get(s)
    BY <1>1, <1>2, Zenon
       DEF KvGet, Status, Answer, Abstract!Denied, Abstract!Get, Abstract!Plain
  <2> QED
    BY <1>1, <2>1, Zenon DEF Abstract!Next
<1>3. CASE \E v \in KvTyped : KvSet(c, s, v)
  <2>1. PICK v \in KvTyped : KvSet(c, s, v)
    BY <1>3, Zenon
  <2>2. Abstract!Denied \/ Abstract!Set(s, Cut(v, KV_VALUE_LEN))
    BY <1>1, <2>1, Zenon
       DEF KvSet, Status, Answer, Abstract!Denied, Abstract!Set, Abstract!Plain
  <2>3. Cut(v, KV_VALUE_LEN) \in {Cut(w, KV_VALUE_LEN) : w \in KvTyped}
    BY Zenon
  <2> QED
    BY <1>1, <2>2, <2>3, Zenon DEF Abstract!Next
<1> QED
  BY <1>2, <1>3, ZenonT(30)

\* Every step of the two services is one of Stores, or none.
LEMMA StoreStep ==
    ASSUME StoreInv, [KvNext \/ FsNext]_<<caps, storeVars>>
    PROVE  StoreInv' /\ [Abstract!Next]_Abstract!vars
<1>1. CASE UNCHANGED storeVars
  <2>1. StoreInv' /\ FileMap' = FileMap
    BY <1>1, NodesKept, Zenon DEF storeVars
  <2> QED
    BY <1>1, <2>1, Zenon DEF storeVars, Abstract!vars
<1>2. CASE \E c \in Clients, s \in KvSlots : KvGet(c, s) \/ \E v \in KvTyped : KvSet(c, s, v)
  BY <1>2, KvStep, Zenon
<1>3. CASE \E c \in Clients, p \in FsTyped, d \in FsData : FsRequest(c, p, d)
  BY <1>3, FsStep, Zenon
<1> QED
  BY <1>1, <1>2, <1>3, Zenon DEF KvNext, FsNext, KvRevoke, KvGrant, FsRevoke

\* At boot there are no files and the registers are empty.
LEMMA StoresStart == StoreInit => StoreInv /\ Abstract!Init
<1> SUFFICES ASSUME StoreInit PROVE StoreInv /\ Abstract!Init
  BY Zenon
<1>1. Unused \in NodeRecords /\ ~ Unused.used
  BY Zenon DEF Unused, NodeRecords, FilePaths, FileContents
<1>2. nodes \in [Nodes -> NodeRecords] /\ \A i \in Nodes : ~ nodes[i].used
  BY <1>1, Zenon DEF StoreInit
<1>3. StoreInv
  BY <1>2, Zenon DEF StoreInv, NodeTable
<1>4. FileMap = << >>
  <2>1. \A p : p \notin DOMAIN FileMap
    BY <1>2, MapDomain, MapNow, Zenon
  <2>2. FileMap = [p \in DOMAIN FileMap |-> FileMap[p]]
    BY Zenon DEF FileMap
  <2>3. DOMAIN FileMap = {}
    BY <2>1, Zenon
  <2> QED
    BY <2>2, <2>3
<1> QED
  BY <1>3, <1>4, Zenon DEF StoreInit, Abstract!Init, Abstract!Plain

\* kv_service_main's slots are registers and fs_service_main's array of nodes,
\* with its linear searches and its reuse of deleted nodes, is a bounded map
\* from paths to files: for any number of nodes, clients, paths and contents
\* every request changes and answers what the abstract stores do.
THEOREM StoresRefine == StoreSpec => StoresImplement
<1>1. StoreInit => StoreInv /\ Abstract!Init
  BY StoresStart, Zenon
<1>2. StoreInv /\ [KvNext \/ FsNext]_<<caps, storeVars>>
        => StoreInv' /\ [Abstract!Next]_Abstract!vars
  BY StoreStep, Zenon
<1> QED
  BY <1>1, <1>2, PTL DEF StoreSpec, StoresImplement, Abstract!Spec

-----------------------------------------------------------------------------
(* The distribution substrate *)

\* The table with one route.
Route(loc) == << [svc |-> Service, loc |-> loc] >>

\* What is left of the demonstration after i calls.
Rest(i) == SubSeq(DemoScript, i + 1, 9)

\* A table all of whose entries are the service's has the first one found.
LEMMA FirstEntry ==
    ASSUME NEW S, NEW table \in Seq(S), table # << >>,
           \A i \in 1 .. Len(table) : table[i].svc = Service
    PROVE  Entries(table) # {} /\ Min(Entries(table)) = 1
<1>1. Entries(table) = 1 .. Len(table) /\ Len(table) \in Nat /\ Len(table) >= 1
  BY DEF Entries
<1>2. 1 \in Entries(table) /\ Entries(table) \subseteq Nat /\ \A i \in Entries(table) : i >= 1
  BY <1>1
<1>3. Min(Entries(table)) \in Entries(table) /\ \A i \in Entries(table) : Min(Entries(table)) <= i
  BY <1>2, LeastNat, Zenon
<1>4. PICK m \in Nat : m = Min(Entries(table))
  BY <1>2, <1>3, Zenon
<1>5. m <= 1 /\ m >= 1
  BY <1>2, <1>3, <1>4, ZenonT(30)
<1>6. m = 1
  BY <1>5
<1> QED
  BY <1>2, <1>4, <1>6, Zenon

\* An empty registry has no entry.
LEMMA NoEntry == Entries(<< >>) = {}
  BY DEF Entries

\* resolve finds the one route of the demonstration.
LEMMA RoutedTo ==
    ASSUME NEW loc
    PROVE  /\ registry = Route(loc) => Resolve = loc
           /\ registry = << >> => Resolve = Nowhere
<1>1. /\ Route(loc) \in Seq([svc : {Service}, loc : {loc}]) /\ Route(loc) # << >>
      /\ Len(Route(loc)) = 1 /\ Route(loc)[1].svc = Service /\ Route(loc)[1].loc = loc
  BY DEF Route
<1>2. Entries(Route(loc)) # {} /\ Min(Entries(Route(loc))) = 1
  <2>1. \A i \in 1 .. Len(Route(loc)) : Route(loc)[i].svc = Service
    BY <1>1, SMTT(30)
  <2> QED
    BY <1>1, <2>1, FirstEntry, ZenonT(60)
<1> QED
  BY <1>1, <1>2, NoEntry, ZenonT(30) DEF Resolve

\* set replaces that route, or makes it.
LEMMA Rerouted ==
    ASSUME NEW old, NEW loc, registry = << >> \/ registry = Route(old)
    PROVE  SetRoute(loc) = Route(loc)
<1>1. CASE registry = << >>
  BY <1>1, NoEntry, DistributionConstants, SMTT(30) DEF SetRoute, Route
<1>2. CASE registry = Route(old)
  <2>1. /\ Route(old) \in Seq([svc : {Service}, loc : {old}]) /\ Route(old) # << >>
        /\ Len(Route(old)) = 1 /\ Route(old)[1].svc = Service
    BY DEF Route
  <2>2. \A i \in 1 .. Len(Route(old)) : Route(old)[i].svc = Service
    BY <2>1
  <2>3. Entries(Route(old)) # {} /\ Min(Entries(Route(old))) = 1
    BY <2>1, <2>2, FirstEntry, ZenonT(60)
  <2>4. SetRoute(loc) = [Route(old) EXCEPT ![1].loc = loc]
    BY <1>2, <2>3, ZenonT(60) DEF SetRoute
  <2> QED
    BY <2>4, SMTT(30) DEF Route
<1> QED
  BY <1>1, <1>2, ZenonT(60)

\* What is left of nine calls after i of them.
LEMMA RestOfNine ==
    ASSUME NEW S, NEW d \in Seq(S), Len(d) = 9, NEW i \in 0 .. 9
    PROVE  /\ SubSeq(d, i + 1, 9) \in Seq(S) /\ Len(SubSeq(d, i + 1, 9)) = 9 - i
           /\ \A j \in 1 .. 9 - i : SubSeq(d, i + 1, 9)[j] = d[i + j]
<1>1. PICK a \in 1 .. Len(d) + 1 : a = i + 1
  OBVIOUS
<1>2. PICK b \in a - 1 .. Len(d) : b = 9
  BY <1>1
<1>3. /\ SubSeq(d, a, b) \in Seq(S) /\ Len(SubSeq(d, a, b)) = b - a + 1
      /\ \A j \in 1 .. b - a + 1 : SubSeq(d, a, b)[j] = d[a + j - 1]
  BY SubList, ZenonT(30)
<1>4. b - a + 1 = 9 - i /\ \A j \in 1 .. 9 - i : a + j - 1 = i + j
  BY <1>1, <1>2
<1> QED
  BY <1>1, <1>2, <1>3, <1>4, ZenonT(30)

\* The same of the calls of demo.
LEMMA RestOfScript ==
    ASSUME NEW S, DemoScript \in Seq(S), Len(DemoScript) = 9, NEW i \in 0 .. 9
    PROVE  /\ Rest(i) \in Seq(S) /\ Len(Rest(i)) = 9 - i
           /\ \A j \in 1 .. 9 - i : Rest(i)[j] = DemoScript[i + j]
  BY RestOfNine, Zenon DEF Rest

\* The next call of demo, and what is left after it.
LEMMA Rests ==
    ASSUME NEW i \in 0 .. 8
    PROVE  /\ Rest(i) # << >> /\ Head(Rest(i)) = DemoScript[i + 1]
           /\ Tail(Rest(i)) = Rest(i + 1) /\ Len(Rest(i)) = 9 - i
<1> DEFINE S == {DemoScript[j] : j \in 1 .. 9}
<1>1. DemoScript \in Seq(S) /\ Len(DemoScript) = 9
  BY DEF DemoScript
<1> HIDE DEF S
<1>2. /\ Rest(i) \in Seq(S) /\ Len(Rest(i)) = 9 - i
      /\ \A j \in 1 .. 9 - i : Rest(i)[j] = DemoScript[i + j]
  <2>1. i \in 0 .. 9
    OBVIOUS
  <2> QED
    BY <1>1, <2>1, RestOfScript, ZenonT(60)
<1>3. PICK k \in 0 .. 9 : k = i + 1
  OBVIOUS
<1>4. /\ Rest(k) \in Seq(S) /\ Len(Rest(k)) = 9 - k
      /\ \A j \in 1 .. 9 - k : Rest(k)[j] = DemoScript[k + j]
  BY <1>1, RestOfScript, ZenonT(60)
<1>5. Rest(i) # << >> /\ Head(Rest(i)) = DemoScript[i + 1]
  BY <1>2, SMTT(30)
<1>6. /\ Tail(Rest(i)) \in Seq(S) /\ Len(Tail(Rest(i))) = 8 - i
      /\ \A j \in 1 .. 8 - i : Tail(Rest(i))[j] = Rest(i)[j + 1]
  BY <1>2, <1>5, SMTT(30)
<1>7. \A j \in 1 .. 8 - i : Tail(Rest(i))[j] = Rest(k)[j]
  BY <1>2, <1>3, <1>4, <1>6, SMTT(30)
<1>8. Tail(Rest(i)) = Rest(k)
  BY <1>3, <1>4, <1>6, <1>7, ListsEqual, SMTT(30)
<1> QED
  BY <1>2, <1>3, <1>5, <1>8, ZenonT(30)

\* All of demo, and nothing of it.
LEMMA LastRest == Rest(9) = << >> /\ Rest(0) = DemoScript
<1>1. DemoScript \in Seq({DemoScript[j] : j \in 1 .. 9}) /\ Len(DemoScript) = 9
  BY DEF DemoScript
<1> QED
  BY <1>1 DEF Rest

\* The calls of demo in their order.
LEMMA Calls ==
    /\ DemoScript[1][1] = "register" /\ DemoScript[4][1] = "migrate"
    /\ DemoScript[7][1] = "pump" /\ DemoScript[8][1] = "failover"
    /\ \A i \in {2, 3, 5, 6, 9} : DemoScript[i][1] = "send"
    /\ DemoScript[2][2] = "alpha" /\ DemoScript[3][2] = "beta" /\ DemoScript[5][2] = "gamma"
    /\ DemoScript[6][2] = "delta" /\ DemoScript[9][2] = "epsilon"
  BY DEF DemoScript

HostedEntries == [svc : {Service}, cp : TaskStates]

DistTypes ==
    /\ runs \in Nat /\ report \in Seq({"PASS"}) /\ inbox \in Seq(DemoMessages)
    /\ hosted \in Seq(HostedEntries)
    /\ slot \in [{"backing", "replica"} -> TaskStates \cup {Nowhere}]
    /\ hosted # << >> => Cardinality(hosted[1].cp.caps) = 2 /\ Len(hosted[1].cp.queue) <= 2

\* The last message of the run is in the queue.
LastSent(q) == \E j \in DOMAIN q : q[j] = <<runs, "epsilon">>

\* The state after i calls of a run.
At(i) ==
    /\ script = Rest(i)
    /\ i = 0 => registry = << >> \/ registry = Route(Local("replica"))
    /\ i \in 1 .. 3 => registry = Route(Local("backing"))
    /\ i \in 4 .. 7 => registry = Route(Remote)
    /\ i \in 8 .. 9 => registry = Route(Local("replica"))
    /\ i \in 0 .. 3 => /\ slot["backing"] # Nowhere /\ Cardinality(slot["backing"].caps) = 2
                       /\ Len(slot["backing"].queue) <= (IF i < 2 THEN 0 ELSE i - 1)
    /\ i \in 0 .. 7 => slot["replica"] # Nowhere
    /\ i \in 4 .. 9 => hosted # << >>
    /\ i \in 4 .. 6 => Cardinality(carried.migrated) = 2 /\ Cardinality(carried.caps) = 2
    /\ Len(inbox) = IF i = 5 THEN 1 ELSE IF i = 6 THEN 2 ELSE 0
    /\ i \in 8 .. 9 => slot["replica"] # Nowhere
    /\ i = 8 => Len(slot["replica"].queue) <= 2
    /\ i = 9 => LastSent(slot["replica"].queue)

\* Before the first run.
NotRunYet == script = << >> /\ registry = << >> /\ Len(inbox) = 0 /\ runs = 0

DistInv == DistTypes /\ (NotRunYet \/ \E i \in 0 .. 9 : At(i))

\* The call that comes next tells how far the run is.
LEMMA Position ==
    ASSUME NEW i \in 0 .. 9, At(i), NEW op, script # << >>, Head(script)[1] = op
    PROVE  /\ i \in 0 .. 8 /\ Tail(script) = Rest(i + 1) /\ Head(script) = DemoScript[i + 1]
           /\ op = "register" => i = 0
           /\ op = "migrate" => i = 3
           /\ op = "pump" => i = 6
           /\ op = "failover" => i = 7
           /\ op = "send" => i \in {1, 2, 4, 5, 8}
<1>1. script = Rest(i) /\ i # 9
  BY LastRest, Zenon DEF At
<1>2. i \in 0 .. 8
  BY <1>1, SMTT(30)
<1>3. Head(script) = DemoScript[i + 1] /\ Tail(script) = Rest(i + 1)
  BY <1>1, <1>2, Rests, ZenonT(60)
<1>4. op = DemoScript[i + 1][1]
  BY <1>3, ZenonT(60)
<1>5. \/ i = 0 /\ op = "register"
      \/ i = 3 /\ op = "migrate"
      \/ i = 6 /\ op = "pump"
      \/ i = 7 /\ op = "failover"
      \/ i \in {1, 2, 4, 5, 8} /\ op = "send"
  BY <1>2, <1>4, Calls, SMTT(30)
<1> QED
  BY <1>2, <1>3, <1>5, ZenonT(30)

\* enqueue finds room behind two messages.
LEMMA Queued ==
    ASSUME NEW q \in Seq(DemoMessages), NEW m \in DemoMessages
    PROVE  /\ Enqueued(q, m) \in Seq(DemoMessages) /\ Len(Enqueued(q, m)) <= Len(q) + 1
           /\ Len(q) <= 2 => /\ Len(Enqueued(q, m)) = Len(q) + 1
                             /\ \E j \in DOMAIN Enqueued(q, m) : Enqueued(q, m)[j] = m
<1>1. QueueLimit \in Nat /\ QueueLimit > 2 /\ Len(q) \in Nat
  BY DistributionConstants, SMTT(30)
<1>2. /\ Append(q, m) \in Seq(DemoMessages) /\ Len(Append(q, m)) = Len(q) + 1
      /\ DOMAIN Append(q, m) = 1 .. Len(q) + 1 /\ Append(q, m)[Len(q) + 1] = m
  OBVIOUS
<1>3. Len(q) + 1 \in 1 .. Len(q) + 1
  BY <1>1
<1>4. \E j \in DOMAIN Append(q, m) : Append(q, m)[j] = m
  BY <1>2, <1>3, ZenonT(30)
<1>5. CASE Len(q) < QueueLimit
  <2>1. Enqueued(q, m) = Append(q, m)
    BY <1>5, Zenon DEF Enqueued
  <2>2. Len(Enqueued(q, m)) <= Len(q) + 1
    BY <1>1, <1>2, <2>1, SMTT(30)
  <2> QED
    BY <1>2, <1>4, <2>1, <2>2, ZenonT(30)
<1>6. CASE ~(Len(q) < QueueLimit)
  <2>1. Enqueued(q, m) = q
    BY <1>6, Zenon DEF Enqueued
  <2>2. Len(q) <= Len(q) + 1 /\ ~(Len(q) <= 2)
    BY <1>1, <1>6, SMTT(30)
  <2> QED
    BY <2>1, <2>2, ZenonT(30)
<1> QED
  BY <1>5, <1>6, Zenon

\* Queueing a message leaves a task its capabilities.
LEMMA Delivered ==
    ASSUME NEW t \in {"backing", "replica"}, NEW m \in DemoMessages,
           slot \in [{"backing", "replica"} -> TaskStates \cup {Nowhere}], slot[t] # Nowhere,
           slot' = [slot EXCEPT ![t].queue = Enqueued(@, m)]
    PROVE  /\ slot' \in [{"backing", "replica"} -> TaskStates \cup {Nowhere}]
           /\ slot'[t] # Nowhere /\ slot'[t].caps = slot[t].caps
           /\ slot'[t].queue = Enqueued(slot[t].queue, m)
           /\ \A u \in {"backing", "replica"} \ {t} : slot'[u] = slot[u]
<1>1. slot[t] \in TaskStates /\ Enqueued(slot[t].queue, m) \in Seq(DemoMessages)
  BY Queued, Zenon DEF TaskStates
<1>2. [slot[t] EXCEPT !.queue = Enqueued(slot[t].queue, m)] \in TaskStates
  BY <1>1, Zenon DEF TaskStates
<1>3. slot' = [slot EXCEPT ![t] = [slot[t] EXCEPT !.queue = Enqueued(slot[t].queue, m)]]
  BY Zenon
<1> QED
  BY <1>1, <1>2, <1>3, DistributionConstants, SMTT(30) DEF TaskStates

\* Before the first run.
LEMMA DistStarts == DistInit => DistInv
<1> SUFFICES ASSUME DistInit PROVE DistInv
  BY Zenon
<1>1. report \in Seq({"PASS"}) /\ inbox \in Seq(DemoMessages) /\ Len(inbox) = 0
      /\ hosted \in Seq(HostedEntries)
  BY DEF DistInit
<1> QED
  BY <1>1, Zenon DEF DistInit, DistInv, DistTypes, NotRunYet

\* The service of a run is given two capabilities.
LEMMA TwoCaps ==
    ASSUME NEW r
    PROVE  Cardinality({<<"cap", r, 1>>, <<"cap", r, 2>>}) = 2
<1> DEFINE a == <<"cap", r, 1>>
           b == <<"cap", r, 2>>
<1>1. a # b
  OBVIOUS
<1> HIDE DEF a, b
<1>2. IsFiniteSet({a}) /\ Cardinality({a}) = 1
  BY FS_Singleton, Zenon
<1>3. Cardinality({a} \cup {b}) = Cardinality({a}) + 1
  <2>1. b \notin {a}
    BY <1>1, Zenon
  <2> QED
    BY <1>2, <2>1, FS_AddElement, ZenonT(60)
<1>4. {a, b} = {a} \cup {b}
  BY Zenon
<1>5. Cardinality({a, b}) = 2
  BY <1>2, <1>3, <1>4, SMTT(30)
<1> QED
  BY <1>5, Zenon DEF a, b

\* Only the first addition to a sequence changes its head.
LEMMA Appended ==
    ASSUME NEW S, NEW s \in Seq(S), NEW e \in S
    PROVE  /\ Append(s, e) \in Seq(S) /\ Append(s, e) # << >>
           /\ s = << >> => Append(s, e)[1] = e
           /\ s # << >> => Append(s, e)[1] = s[1]
<1>1. /\ Append(s, e) \in Seq(S) /\ Len(Append(s, e)) = Len(s) + 1 /\ Len(s) \in Nat
      /\ Append(s, e)[Len(s) + 1] = e /\ \A i \in 1 .. Len(s) : Append(s, e)[i] = s[i]
  OBVIOUS
<1>2. s = << >> => Len(s) + 1 = 1
  BY SMTT(30)
<1>3. s # << >> => 1 \in 1 .. Len(s)
  BY SMTT(30)
<1>4. Append(s, e) # << >>
  BY <1>1, SMTT(30)
<1> QED
  BY <1>1, <1>2, <1>3, <1>4, ZenonT(30)

\* What the remote node holds after one more checkpoint.
LEMMA Hosted ==
    ASSUME hosted \in Seq(HostedEntries), NEW cp \in TaskStates
    PROVE  /\ Host(cp) \in Seq(HostedEntries) /\ Host(cp) # << >>
           /\ hosted = << >> => Host(cp)[1].cp = cp
           /\ hosted # << >> => Host(cp)[1] = hosted[1]
<1> DEFINE e == [svc |-> Service, cp |-> cp]
<1>1. e \in HostedEntries /\ e.cp = cp
  BY Zenon DEF HostedEntries
<1> HIDE DEF e
<1>2. /\ Append(hosted, e) \in Seq(HostedEntries) /\ Append(hosted, e) # << >>
      /\ hosted = << >> => Append(hosted, e)[1] = e
      /\ hosted # << >> => Append(hosted, e)[1] = hosted[1]
  BY <1>1, Appended, ZenonT(60)
<1>3. hosted = << >> => Len(hosted) < MAX_SERVICES
  BY DistributionConstants, SMTT(30)
<1> QED
  BY <1>1, <1>2, <1>3, ZenonT(60) DEF Host, e

\* What the remote node holds first is what failover takes.
LEMMA FirstHeld ==
    ASSUME NEW h \in Seq(HostedEntries), h # << >>
    PROVE  Entries(h) # {} /\ Min(Entries(h)) = 1 /\ h[1].cp \in TaskStates
<1>1. \A i \in 1 .. Len(h) : h[i] \in HostedEntries
  BY SMTT(30)
<1>2. \A i \in 1 .. Len(h) : h[i].svc = Service
  BY <1>1, ZenonT(60) DEF HostedEntries
<1>3. h[1] \in HostedEntries
  OBVIOUS
<1>4. Entries(h) # {} /\ Min(Entries(h)) = 1
  BY <1>2, FirstEntry, ZenonT(60)
<1>5. h[1].cp \in TaskStates
  BY <1>3, ZenonT(60) DEF HostedEntries
<1> QED
  BY <1>4, <1>5, ZenonT(60)

\* `migrate 1 1` starts demo anew.
LEMMA NewRunStep == ASSUME DistInv, Migrate1 PROVE DistInv'
<1>1. /\ script = << >> /\ DistTypes
      /\ UNCHANGED <<registry, hosted, inbox, carried>>
      /\ runs' = runs + 1 /\ script' = DemoScript /\ report' = << >>
  BY Zenon DEF DistInv, Migrate1
<1>2. Len(inbox) = 0 /\ (registry = << >> \/ registry = Route(Local("replica")))
  <2>1. CASE NotRunYet
    BY <2>1, ZenonT(30) DEF NotRunYet
  <2>2. CASE \E i \in 0 .. 9 : At(i)
    <3>1. PICK i \in 0 .. 9 : At(i)
      BY <2>2, ZenonT(60)
    <3>2. i = 9
      <4>1. i \in 0 .. 8 => Rest(i) # << >>
        BY Rests, Zenon
      <4>2. script = Rest(i)
        BY <3>1, Zenon DEF At
      <4>3. i \notin 0 .. 8
        BY <1>1, <4>1, <4>2, ZenonT(30)
      <4> QED
        BY <4>3, SMTT(30)
    <3> QED
      BY <3>1, <3>2, SMTT(30) DEF At
  <2> QED
    BY <2>1, <2>2, ZenonT(60) DEF DistInv
<1> DEFINE two == {<<"cap", runs, 1>>, <<"cap", runs, 2>>}
           b == [caps |-> two, queue |-> << >>]
           r == [caps |-> {}, queue |-> << >>]
<1>3. two \in SUBSET ({"cap"} \X Nat \X {1, 2}) /\ Cardinality(two) = 2
  <2>1. runs \in Nat
    BY <1>1, Zenon DEF DistTypes
  <2>2. two \in SUBSET ({"cap"} \X Nat \X {1, 2})
    BY <2>1
  <2>3. Cardinality(two) = 2
    BY TwoCaps, Zenon
  <2> QED
    BY <2>2, <2>3, ZenonT(30)
<1>4. slot' = [t \in {"backing", "replica"} |->
                  [caps |-> IF t = "backing" THEN two ELSE {}, queue |-> << >>]]
  BY Zenon DEF Migrate1
<1> HIDE DEF two
<1>5. slot'["backing"] = b /\ slot'["replica"] = r
  BY <1>4, ZenonT(60)
<1>6. b \in TaskStates /\ r \in TaskStates /\ b.caps = two /\ Len(b.queue) <= 0
  BY <1>3, SMTT(30) DEF TaskStates
<1>7. slot' \in [{"backing", "replica"} -> TaskStates \cup {Nowhere}]
  BY <1>3, <1>4, SMTT(30) DEF TaskStates
<1>8. DistTypes'
  <2>1. runs + 1 \in Nat /\ << >> \in Seq({"PASS"})
    BY <1>1, SMTT(30) DEF DistTypes
  <2> QED
    BY <1>1, <1>7, <2>1, ZenonT(60) DEF DistTypes
<1>9. At(0)'
  <2>1. b # Nowhere /\ r # Nowhere
    BY <1>6, DistributionConstants, ZenonT(60)
  <2>2. Cardinality(b.caps) = 2 /\ Len(b.queue) <= 0
    BY <1>3, <1>6, ZenonT(60)
  <2> HIDE DEF b, r
  <2>3. script' = Rest(0) /\ Len(inbox') = 0
    BY <1>1, <1>2, LastRest, ZenonT(60)
  <2>4. registry' = << >> \/ registry' = Route(Local("replica"))
    BY <1>1, <1>2, ZenonT(60)
  <2>5. /\ slot'["backing"] # Nowhere /\ Cardinality(slot'["backing"].caps) = 2
        /\ Len(slot'["backing"].queue) <= 0 /\ slot'["replica"] # Nowhere
    BY <1>5, <2>1, <2>2, ZenonT(60)
  <2> QED
    BY <2>3, <2>4, <2>5, SMTT(30) DEF At
<1>10. 0 \in 0 .. 9
  OBVIOUS
<1> QED
  BY <1>8, <1>9, <1>10, ZenonT(30) DEF DistInv

\* A call leaves a run in progress: how far it is.
LEMMA RunAt ==
    ASSUME DistInv, script # << >>
    PROVE  DistTypes /\ \E i \in 0 .. 9 : At(i)
  BY Zenon DEF DistInv, NotRunYet

\* register points the service to the local task.
LEMMA RegisterStep == ASSUME DistInv, Register PROVE DistInv'
<1>1. /\ script # << >> /\ Head(script)[1] = "register" /\ script' = Tail(script)
      /\ registry' = SetRoute(Local("backing"))
      /\ UNCHANGED <<hosted, inbox, slot, runs, carried, report>>
  BY Zenon DEF Register, Call
<1>2. DistTypes /\ \E i \in 0 .. 9 : At(i)
  BY <1>1, RunAt, ZenonT(60)
<1>3. PICK i \in 0 .. 9 : At(i)
  BY <1>2, ZenonT(30)
<1>4. i = 0 /\ Tail(script) = Rest(i + 1)
  BY <1>1, <1>3, Position, ZenonT(30)
<1>5. At(0) /\ script' = Rest(1)
  BY <1>1, <1>3, <1>4, SMTT(30)
<1>6. registry' = Route(Local("backing"))
  <2>1. registry = << >> \/ registry = Route(Local("replica"))
    BY <1>5, ZenonT(30) DEF At
  <2> QED
    BY <1>1, <2>1, Rerouted, ZenonT(60)
<1>7. At(1)'
  BY <1>1, <1>5, <1>6, SMTT(30) DEF At
<1>8. DistTypes'
  BY <1>1, <1>2, Zenon DEF DistTypes
<1>9. 1 \in 0 .. 9
  OBVIOUS
<1> QED
  BY <1>7, <1>8, <1>9, ZenonT(60) DEF DistInv

\* migrate hands the checkpoint over and empties the slot.
LEMMA MigrateStep == ASSUME DistInv, Migrate PROVE DistInv'
<1>1. script # << >> /\ Head(script)[1] = "migrate" /\ UNCHANGED <<inbox, runs>>
  BY ZenonT(30) DEF Migrate
<1>2. DistTypes /\ \E i \in 0 .. 9 : At(i)
  BY <1>1, RunAt, ZenonT(30)
<1>3. PICK i \in 0 .. 9 : At(i)
  BY <1>2, ZenonT(30)
<1>4. i = 3 /\ Tail(script) = Rest(i + 1)
  BY <1>1, <1>3, Position, ZenonT(30)
<1>5. At(3) /\ Tail(script) = Rest(4)
  BY <1>3, <1>4, SMTT(30)
<1> DEFINE cp == slot["backing"]
<1>6. /\ registry = Route(Local("backing")) /\ cp # Nowhere /\ Cardinality(cp.caps) = 2
      /\ Len(cp.queue) <= 2 /\ Len(inbox) = 0 /\ slot["replica"] # Nowhere
  BY <1>5, SMTT(30) DEF At
<1>7. cp \in TaskStates
  BY <1>2, <1>6, ZenonT(30) DEF DistTypes
<1>8. /\ hosted' = Host(cp) /\ registry' = SetRoute(Remote)
      /\ slot' = [slot EXCEPT !["backing"] = Nowhere]
      /\ carried' = [migrated |-> cp.caps, caps |-> Host(cp)[Min(Entries(Host(cp)))].cp.caps]
      /\ script' = Tail(script) /\ UNCHANGED report
  <2>1. Resolve = Local("backing")
    BY <1>6, RoutedTo, ZenonT(60)
  <2> QED
    BY <1>6, <2>1, ZenonT(60) DEF Migrate
<1> HIDE DEF cp
<1>9. /\ Host(cp) \in Seq(HostedEntries) /\ Host(cp) # << >>
      /\ hosted = << >> => Host(cp)[1].cp = cp
      /\ hosted # << >> => Host(cp)[1] = hosted[1]
  BY <1>2, <1>7, Hosted, ZenonT(30) DEF DistTypes
<1>11. Cardinality(Host(cp)[1].cp.caps) = 2 /\ Len(Host(cp)[1].cp.queue) <= 2
  <2>1. CASE hosted = << >>
    BY <1>6, <1>9, <2>1, ZenonT(30)
  <2>2. CASE hosted # << >>
    BY <1>2, <1>9, <2>2, ZenonT(30) DEF DistTypes
  <2> QED
    BY <2>1, <2>2, ZenonT(30)
<1>12. Cardinality(carried'.migrated) = 2 /\ Cardinality(carried'.caps) = 2
  <2>1. Min(Entries(Host(cp))) = 1
    BY <1>9, FirstHeld, ZenonT(30)
  <2>2. carried' = [migrated |-> cp.caps, caps |-> Host(cp)[1].cp.caps]
    BY <1>8, <2>1, ZenonT(30)
  <2>3. carried'.migrated = cp.caps /\ carried'.caps = Host(cp)[1].cp.caps
    BY <2>2, Zenon
  <2> QED
    BY <1>6, <1>11, <2>3, ZenonT(30)
<1>13. registry' = Route(Remote)
  BY <1>6, <1>8, Rerouted, ZenonT(30)
<1>14. /\ slot' \in [{"backing", "replica"} -> TaskStates \cup {Nowhere}]
       /\ slot'["replica"] = slot["replica"]
  BY <1>2, <1>8, ZenonT(60) DEF DistTypes
<1>15. DistTypes'
  BY <1>1, <1>2, <1>8, <1>9, <1>11, <1>14, ZenonT(30) DEF DistTypes
<1>16. At(4)'
  <2>1. /\ script' = Rest(4) /\ Len(inbox') = 0 /\ slot'["replica"] # Nowhere
        /\ hosted' # << >>
    BY <1>1, <1>5, <1>6, <1>8, <1>9, <1>14, ZenonT(30)
  <2> QED
    BY <1>12, <1>13, <2>1, SMTT(30) DEF At
<1>17. 4 \in 0 .. 9
  OBVIOUS
<1> QED
  BY <1>15, <1>16, <1>17, ZenonT(30) DEF DistInv

\* pump_remote empties the inbox.
LEMMA PumpStep == ASSUME DistInv, PumpRemote PROVE DistInv'
<1>1. /\ script # << >> /\ Head(script)[1] = "pump" /\ script' = Tail(script)
      /\ UNCHANGED <<registry, hosted, slot, runs, carried>>
  BY Zenon DEF PumpRemote, Call
<1>2. DistTypes /\ \E i \in 0 .. 9 : At(i)
  BY <1>1, RunAt, ZenonT(30)
<1>3. PICK i \in 0 .. 9 : At(i)
  BY <1>2, Zenon
<1>4. i = 6 /\ Tail(script) = Rest(i + 1)
  BY <1>1, <1>3, Position, ZenonT(30)
<1>5. At(6) /\ script' = Rest(7)
  BY <1>1, <1>3, <1>4, SMTT(30)
<1>6. /\ Len(inbox) = 2 /\ Cardinality(carried.migrated) = 2 /\ Cardinality(carried.caps) = 2
      /\ registry = Route(Remote) /\ slot["replica"] # Nowhere /\ hosted # << >>
  BY <1>5, SMTT(30) DEF At
<1>7. inbox' = SubSeq(inbox, 3, 2) /\ report' = Append(report, "PASS")
  BY <1>6, SMTT(30) DEF PumpRemote, Pumped
<1>8. inbox' \in Seq(DemoMessages) /\ Len(inbox') = 0
  BY <1>2, <1>6, <1>7, SMTT(30) DEF DistTypes
<1>9. report' \in Seq({"PASS"})
  BY <1>2, <1>7, SMTT(30) DEF DistTypes
<1>10. DistTypes'
  BY <1>1, <1>2, <1>8, <1>9, ZenonT(30) DEF DistTypes
<1>11. At(7)'
  <2>1. registry' = Route(Remote) /\ slot'["replica"] # Nowhere /\ hosted' # << >>
    BY <1>1, <1>6, ZenonT(60)
  <2> QED
    BY <1>5, <1>8, <2>1, SMTT(30) DEF At
<1>12. 7 \in 0 .. 9
  OBVIOUS
<1> QED
  BY <1>10, <1>11, <1>12, ZenonT(60) DEF DistInv

\* failover brings a checkpoint with two messages back.
LEMMA FailoverStep == ASSUME DistInv, Failover PROVE DistInv'
<1>1. /\ script # << >> /\ Head(script)[1] = "failover"
      /\ UNCHANGED <<hosted, inbox, runs, carried>>
  BY Zenon DEF Failover
<1>2. DistTypes /\ \E i \in 0 .. 9 : At(i)
  BY <1>1, RunAt, ZenonT(30)
<1>3. PICK i \in 0 .. 9 : At(i)
  BY <1>2, Zenon
<1>4. i = 7 /\ Tail(script) = Rest(i + 1)
  BY <1>1, <1>3, Position, ZenonT(30)
<1>5. At(7) /\ Tail(script) = Rest(8)
  BY <1>3, <1>4, SMTT(30)
<1>6. /\ registry = Route(Remote) /\ slot["replica"] # Nowhere /\ hosted # << >>
      /\ Len(inbox) = 0
  BY <1>5, SMTT(30) DEF At
<1> DEFINE held == hosted[1].cp
<1>7. /\ Entries(hosted) # {} /\ Min(Entries(hosted)) = 1 /\ held \in TaskStates
      /\ Len(held.queue) <= 2
  BY <1>2, <1>6, FirstHeld, ZenonT(30) DEF DistTypes
<1>8. /\ slot' = [slot EXCEPT !["replica"] = held]
      /\ registry' = SetRoute(Local("replica")) /\ script' = Tail(script) /\ UNCHANGED report
  BY <1>6, <1>7, ZenonT(60) DEF Failover, HeldCheckpoint
<1> HIDE DEF held
<1>9. /\ slot' \in [{"backing", "replica"} -> TaskStates \cup {Nowhere}]
      /\ slot'["replica"] = held
  BY <1>2, <1>7, <1>8, ZenonT(30) DEF DistTypes
<1>10. registry' = Route(Local("replica"))
  BY <1>6, <1>8, Rerouted, ZenonT(30)
<1>11. held # Nowhere
  BY <1>7, DistributionConstants, ZenonT(30)
<1>12. DistTypes'
  BY <1>1, <1>2, <1>8, <1>9, ZenonT(30) DEF DistTypes
<1>13. At(8)'
  <2>1. /\ script' = Rest(8) /\ Len(inbox') = 0 /\ hosted' # << >>
        /\ slot'["replica"] # Nowhere /\ Len(slot'["replica"].queue) <= 2
    BY <1>1, <1>5, <1>6, <1>7, <1>8, <1>9, <1>11, ZenonT(30)
  <2> QED
    BY <1>10, <2>1, SMTT(30) DEF At
<1>14. 8 \in 0 .. 9
  OBVIOUS
<1> QED
  BY <1>12, <1>13, <1>14, ZenonT(60) DEF DistInv

\* What a send changes, by the route: only the last one is reported.
LEMMA Sends ==
    ASSUME DistTypes, RouteSend, NEW i \in {1, 2, 4, 5, 8}, At(i)
    PROVE  \E m \in DemoMessages :
             /\ i = 8 => m = <<runs, "epsilon">>
             /\ script' = Rest(i + 1) /\ UNCHANGED <<registry, hosted, runs, carried>>
             /\ slot' = IF Resolve # Nowhere /\ Resolve[1] = "Local" /\ slot[Resolve[2]] # Nowhere
                        THEN [slot EXCEPT ![Resolve[2]].queue = Enqueued(@, m)] ELSE slot
             /\ inbox' = IF Resolve = Remote THEN Enqueued(inbox, m) ELSE inbox
             /\ i # 8 => report' = report
             /\ i = 8 /\ Resolve # Nowhere /\ Resolve[1] = "Local" => report' = Append(report, "PASS")
<1>1. script # << >> /\ Head(script)[1] = "send" /\ script' = Tail(script)
  BY ZenonT(60) DEF RouteSend, Call
<1>2. i \in 0 .. 9 /\ runs \in Nat
  BY DEF DistTypes
<1>3. Tail(script) = Rest(i + 1) /\ Head(script) = DemoScript[i + 1]
  BY <1>1, <1>2, Position, ZenonT(30)
<1> DEFINE text == Head(script)[2]
           m == <<runs, text>>
<1>4. text \in {"alpha", "beta", "gamma", "delta", "epsilon"} /\ (text = "epsilon" <=> i = 8)
  <2>1. text = DemoScript[i + 1][2]
    BY <1>3, Zenon
  <2> HIDE DEF text
  <2> QED
    BY <2>1, Calls, SMTT(30)
<1>5. m \in DemoMessages /\ m[2] = text /\ (i = 8 => m = <<runs, "epsilon">>)
  BY <1>2, <1>4, ZenonT(60) DEF DemoMessages
<1>6. /\ UNCHANGED <<registry, hosted, runs, carried>>
      /\ slot' = IF Resolve # Nowhere /\ Resolve[1] = "Local" /\ slot[Resolve[2]] # Nowhere
                 THEN [slot EXCEPT ![Resolve[2]].queue = Enqueued(@, m)] ELSE slot
      /\ inbox' = IF Resolve = Remote THEN Enqueued(inbox, m) ELSE inbox
      /\ report' = IF m[2] = "epsilon"
                   THEN Append(report, IF Resolve # Nowhere /\ Resolve[1] = "Local"
                                       THEN "PASS" ELSE "FAIL")
                   ELSE report
  BY Zenon DEF RouteSend
<1> HIDE DEF m, text
<1>7. /\ i # 8 => report' = report
      /\ i = 8 /\ Resolve # Nowhere /\ Resolve[1] = "Local" => report' = Append(report, "PASS")
  BY <1>4, <1>5, <1>6, ZenonT(30)
<1> QED
  BY <1>1, <1>3, <1>5, <1>6, <1>7, ZenonT(30)

\* The three places of the service differ.
LEMMA Places ==
    /\ Local("backing")[1] = "Local" /\ Local("backing")[2] = "backing"
    /\ Local("replica")[1] = "Local" /\ Local("replica")[2] = "replica"
    /\ Local("backing") # Local("replica")
    /\ Remote[1] # "Local" /\ Remote # Local("backing") /\ Remote # Local("replica")
    /\ Remote # Nowhere /\ Local("backing") # Nowhere /\ Local("replica") # Nowhere
<1>1. /\ Local("backing")[1] = "Local" /\ Local("backing")[2] = "backing"
      /\ Local("replica")[1] = "Local" /\ Local("replica")[2] = "replica"
      /\ Remote[1] # "Local"
  BY ZenonT(30) DEF Local, Remote
<1>2. Remote # Nowhere /\ Local("backing") # Nowhere /\ Local("replica") # Nowhere
  BY DistributionConstants, ZenonT(60) DEF Locations
<1> QED
  BY <1>1, <1>2, ZenonT(60)

\* route_send goes to wherever the service is.
LEMMA SendStep == ASSUME DistInv, RouteSend PROVE DistInv'
<1>1. script # << >> /\ Head(script)[1] = "send"
  BY Zenon DEF RouteSend, Call
<1>2. DistTypes /\ \E i \in 0 .. 9 : At(i)
  BY <1>1, RunAt, ZenonT(30)
<1>3. PICK i \in 0 .. 9 : At(i)
  BY <1>2, Zenon
<1>4. i \in {1, 2, 4, 5, 8}
  BY <1>1, <1>3, Position, ZenonT(30)
<1>5. PICK m \in DemoMessages :
             /\ i = 8 => m = <<runs, "epsilon">>
             /\ script' = Rest(i + 1) /\ UNCHANGED <<registry, hosted, runs, carried>>
             /\ slot' = IF Resolve # Nowhere /\ Resolve[1] = "Local" /\ slot[Resolve[2]] # Nowhere
                        THEN [slot EXCEPT ![Resolve[2]].queue = Enqueued(@, m)] ELSE slot
             /\ inbox' = IF Resolve = Remote THEN Enqueued(inbox, m) ELSE inbox
             /\ i # 8 => report' = report
             /\ i = 8 /\ Resolve # Nowhere /\ Resolve[1] = "Local" => report' = Append(report, "PASS")
  BY <1>2, <1>3, <1>4, Sends, ZenonT(30)
<1>6. /\ slot \in [{"backing", "replica"} -> TaskStates \cup {Nowhere}]
      /\ inbox \in Seq(DemoMessages) /\ report \in Seq({"PASS"})
  BY <1>2, ZenonT(60) DEF DistTypes
<1>7. PICK k \in 0 .. 9 : k = i + 1
  BY <1>4, SMTT(30)
<1>8. CASE i \in {1, 2}
  <2>1. /\ registry = Route(Local("backing")) /\ slot["backing"] # Nowhere
        /\ Cardinality(slot["backing"].caps) = 2 /\ slot["replica"] # Nowhere /\ Len(inbox) = 0
        /\ Len(slot["backing"].queue) <= i - 1
    BY <1>3, <1>8, SMTT(30) DEF At
  <2>2. Resolve = Local("backing")
    BY <2>1, RoutedTo, ZenonT(60)
  <2>3. /\ slot' = [slot EXCEPT !["backing"].queue = Enqueued(@, m)]
        /\ inbox' = inbox
    BY <1>5, <2>1, <2>2, Places, ZenonT(30)
  <2>4. /\ slot' \in [{"backing", "replica"} -> TaskStates \cup {Nowhere}]
        /\ slot'["backing"] # Nowhere /\ slot'["backing"].caps = slot["backing"].caps
        /\ slot'["backing"].queue = Enqueued(slot["backing"].queue, m)
        /\ slot'["replica"] = slot["replica"]
    BY <1>6, <2>1, <2>3, Delivered, ZenonT(30)
  <2>a. Len(slot'["backing"].queue) <= i
    <3>1. slot["backing"].queue \in Seq(DemoMessages)
      BY <1>6, <2>1, ZenonT(30) DEF TaskStates
    <3>2. PICK q \in Seq(DemoMessages) : q = slot["backing"].queue
      BY <3>1, Zenon
    <3>3. Len(Enqueued(q, m)) <= Len(q) + 1 /\ Enqueued(q, m) \in Seq(DemoMessages)
      BY Queued, Zenon
    <3>4. Len(q) <= i - 1
      BY <2>1, <3>2, ZenonT(30)
    <3>5. Len(Enqueued(q, m)) <= i
      BY <1>8, <3>3, <3>4, SMTT(30)
    <3> QED
      BY <2>4, <3>2, <3>5, ZenonT(30)
  <2>5. report' = report
    BY <1>5, <1>8, SMTT(30)
  <2>6. DistTypes'
    BY <1>2, <1>5, <2>3, <2>4, <2>5, ZenonT(30) DEF DistTypes
  <2>7. At(k)'
    <3>1. k \in {2, 3} /\ i = k - 1
      BY <1>7, <1>8, SMTT(30)
    <3>2. /\ script' = Rest(k) /\ registry' = Route(Local("backing")) /\ Len(inbox') = 0
          /\ slot'["backing"] # Nowhere /\ Cardinality(slot'["backing"].caps) = 2
          /\ Len(slot'["backing"].queue) <= k - 1 /\ slot'["replica"] # Nowhere
      BY <1>5, <1>7, <2>1, <2>3, <2>4, <2>a, <3>1, ZenonT(30)
    <3> QED
      BY <3>1, <3>2, SMTT(30) DEF At
  <2> QED
    BY <2>6, <2>7, ZenonT(30) DEF DistInv
<1>9. CASE i \in {4, 5}
  <2>1. /\ registry = Route(Remote) /\ slot["replica"] # Nowhere /\ hosted # << >>
        /\ Cardinality(carried.migrated) = 2 /\ Cardinality(carried.caps) = 2
        /\ Len(inbox) = i - 4
    BY <1>3, <1>9, SMTT(30) DEF At
  <2>2. Resolve = Remote
    BY <2>1, RoutedTo, ZenonT(30)
  <2>3. slot' = slot /\ inbox' = Enqueued(inbox, m)
    BY <1>5, <2>2, Places, ZenonT(30)
  <2>4. inbox' \in Seq(DemoMessages) /\ Len(inbox') = i - 3
    <3>1. Len(inbox) <= 2 /\ Len(inbox) + 1 = i - 3
      BY <1>9, <2>1, SMTT(30)
    <3> QED
      BY <1>6, <2>3, <3>1, Queued, ZenonT(30)
  <2>5. report' = report
    BY <1>5, <1>9, SMTT(30)
  <2>6. DistTypes'
    BY <1>2, <1>5, <2>3, <2>4, <2>5, ZenonT(30) DEF DistTypes
  <2>7. At(k)'
    <3>1. k \in {5, 6} /\ i - 3 = k - 4
      BY <1>7, <1>9, SMTT(30)
    <3>2. /\ script' = Rest(k) /\ registry' = Route(Remote) /\ Len(inbox') = k - 4
          /\ slot'["replica"] # Nowhere /\ hosted' # << >>
          /\ Cardinality(carried'.migrated) = 2 /\ Cardinality(carried'.caps) = 2
      BY <1>5, <1>7, <2>1, <2>3, <2>4, <3>1, ZenonT(30)
    <3> QED
      BY <3>1, <3>2, SMTT(30) DEF At
  <2> QED
    BY <2>6, <2>7, Zenon DEF DistInv
<1>10. CASE i = 8
  <2>1. /\ registry = Route(Local("replica")) /\ slot["replica"] # Nowhere /\ hosted # << >>
        /\ Len(slot["replica"].queue) <= 2 /\ Len(inbox) = 0
    BY <1>3, <1>10, SMTT(30) DEF At
  <2>2. Resolve = Local("replica")
    BY <2>1, RoutedTo, ZenonT(60)
  <2>3. /\ slot' = [slot EXCEPT !["replica"].queue = Enqueued(@, m)]
        /\ inbox' = inbox /\ report' = Append(report, "PASS")
    BY <1>5, <1>10, <2>1, <2>2, Places, ZenonT(30)
  <2>4. /\ slot' \in [{"backing", "replica"} -> TaskStates \cup {Nowhere}]
        /\ slot'["replica"] # Nowhere /\ slot'["replica"].caps = slot["replica"].caps
        /\ slot'["replica"].queue = Enqueued(slot["replica"].queue, m)
    BY <1>6, <2>1, <2>3, Delivered, ZenonT(30)
  <2>5. report' \in Seq({"PASS"})
    BY <1>6, <2>3, SMTT(30)
  <2>6. DistTypes'
    BY <1>2, <1>5, <2>3, <2>4, <2>5, ZenonT(30) DEF DistTypes
  <2>7. LastSent(slot["replica"].queue)'
    <3>1. slot["replica"].queue \in Seq(DemoMessages)
      BY <1>6, <2>1, ZenonT(30) DEF TaskStates
    <3>a. PICK q \in Seq(DemoMessages) : q = slot["replica"].queue
      BY <3>1, Zenon
    <3>b. Len(q) <= 2 => \E j \in DOMAIN Enqueued(q, m) : Enqueued(q, m)[j] = m
      BY Queued, Zenon
    <3>c. Len(q) <= 2 /\ slot'["replica"].queue = Enqueued(q, m)
      BY <2>1, <2>4, <3>a, Zenon
    <3>2. \E j \in DOMAIN slot'["replica"].queue : slot'["replica"].queue[j] = m
      BY <3>b, <3>c, ZenonT(30)
    <3>3. m = <<runs', "epsilon">>
      BY <1>5, <1>10, ZenonT(30)
    <3> QED
      BY <3>2, <3>3, ZenonT(30) DEF LastSent
  <2>8. At(k)'
    <3>1. k = 9
      BY <1>7, <1>10, SMTT(30)
    <3>2. /\ script' = Rest(k) /\ registry' = Route(Local("replica")) /\ Len(inbox') = 0
          /\ slot'["replica"] # Nowhere /\ hosted' # << >>
          /\ LastSent(slot["replica"].queue)'
      BY <1>5, <1>7, <2>1, <2>3, <2>4, <2>7, ZenonT(30)
    <3> QED
      BY <3>1, <3>2, SMTT(30) DEF At
  <2> QED
    BY <2>6, <2>8, Zenon DEF DistInv
<1> QED
  BY <1>4, <1>8, <1>9, <1>10, ZenonT(30)

\* The invariant implies the property.
LEMMA Reachable == ASSUME DistInv PROVE ServiceStaysReachable
<1>1. \A j \in DOMAIN report : report[j] # "FAIL"
  BY DEF DistInv, DistTypes
<1>2. DOMAIN slot = {"backing", "replica"}
  BY Zenon DEF DistInv, DistTypes
<1>3. ASSUME runs > 0, script # DemoScript
      PROVE  \/ Resolve = Remote
             \/ \E t \in DOMAIN slot : Resolve = Local(t) /\ slot[t] # Nowhere
  <2>1. runs # 0
    BY <1>3, SMTT(30) DEF DistInv, DistTypes
  <2>2. PICK i \in 0 .. 9 : At(i)
    BY <2>1, ZenonT(60) DEF DistInv, NotRunYet
  <2>3. i # 0
    BY <1>3, <2>2, LastRest, ZenonT(30) DEF At
  <2>4. \/ registry = Route(Local("backing")) /\ slot["backing"] # Nowhere
        \/ registry = Route(Remote)
        \/ registry = Route(Local("replica")) /\ slot["replica"] # Nowhere
    <3>1. i \in 1 .. 3 \/ i \in 4 .. 7 \/ i \in 8 .. 9
      BY <2>3, SMTT(30)
    <3>2. i \in 1 .. 3 => i \in 0 .. 3
      BY SMTT(30)
    <3> QED
      BY <2>2, <3>1, <3>2, ZenonT(60) DEF At
  <2> QED
    BY <1>2, <2>4, RoutedTo, ZenonT(60)
<1>4. ASSUME runs > 0, script = << >>
      PROVE  LastSent(slot["replica"].queue)
  <2>1. runs # 0
    BY <1>4, SMTT(30) DEF DistInv, DistTypes
  <2>2. PICK i \in 0 .. 9 : At(i)
    BY <2>1, ZenonT(60) DEF DistInv, NotRunYet
  <2>3. i \in 0 .. 8 => Rest(i) # << >>
    BY Rests, Zenon
  <2>4. i \notin 0 .. 8
    BY <1>4, <2>2, <2>3, ZenonT(30) DEF At
  <2>5. i = 9
    BY <2>4, SMTT(30)
  <2> QED
    BY <2>2, <2>5, ZenonT(60) DEF At
<1> QED
  BY <1>1, <1>3, <1>4, ZenonT(30) DEF ServiceStaysReachable, LastSent

\* Every call of demo keeps the invariant.
LEMMA DistStep == ASSUME DistInv, [DistNext]_distVars PROVE DistInv'
<1>1. CASE UNCHANGED distVars
  <2>1. DistTypes' = DistTypes /\ NotRunYet' = NotRunYet
    BY <1>1, ZenonT(30) DEF distVars, DistTypes, NotRunYet
  <2>2. LastSent(slot["replica"].queue)' <=> LastSent(slot["replica"].queue)
    BY <1>1, ZenonT(30) DEF distVars, LastSent
  <2>3. \A i \in 0 .. 9 : At(i) => At(i)'
    BY <1>1, <2>2, SMTT(30) DEF distVars, At
  <2> QED
    BY <2>1, <2>3, ZenonT(30) DEF DistInv
<1> QED
  BY <1>1, NewRunStep, RegisterStep, SendStep, MigrateStep, PumpStep, FailoverStep, ZenonT(30) DEF DistNext

\* However often the demonstration runs, every line it prints is a PASS, the
\* client's capability always leads to a place where the service is, and what is
\* sent after the failover reaches the replica (dist.rs: set, route_send, migrate,
\* failover).
THEOREM AlwaysReachable == DistSpec => []ServiceStaysReachable
<1>1. DistInit => DistInv
  BY DistStarts, ZenonT(60)
<1>2. DistInv /\ [DistNext]_distVars => DistInv'
  BY DistStep, ZenonT(60)
<1>3. DistInv => ServiceStaysReachable
  BY Reachable, Zenon
<1> QED
  BY <1>1, <1>2, <1>3, PTL DEF DistSpec

=============================================================================
