-------------------------- MODULE PreemptionProofs --------------------------
(***************************************************************************)
(* What the kernel's critical sections give.  For any number of busy tasks *)
(* and clients: the programs that the kernel runs never spin, a switch     *)
(* happens only outside their regions and never leaves a lock held         *)
(* (LockStep), the window of the demonstration is open for the task that   *)
(* opened it (WindowStep), and the verdicts of preempt-race are the ones   *)
(* the shell prints (Preemption).  For tables of any size: the passes of   *)
(* propagate_revocation, which run in one section, never overrun           *)
(* REVOKED_IDS and compute the atomic revocation of module Revocation.     *)
(***************************************************************************)
EXTENDS Preemption, RevocationFixpoint, FiniteSetTheorems, TLAPS

-----------------------------------------------------------------------------
(* The code of the tasks *)

Code == Seq(Instructions)

\* What a position of the rest of the code is in the whole.
LEMMA TailCode ==
    ASSUME NEW c \in Code, c # << >>
    PROVE  /\ Tail(c) \in Code /\ Len(Tail(c)) = Len(c) - 1 /\ Len(c) \in Nat \ {0}
           /\ \A i \in 1 .. Len(Tail(c)) : Tail(c)[i] = c[i + 1]
           /\ Head(c) = c[1]
BY DEF Code

\* The empty sequence is the one of length 0.
LEMMA EmptyCode == ASSUME NEW S, NEW s \in Seq(S) PROVE s = << >> <=> Len(s) = 0
OBVIOUS

\* The instruction a task is about to execute.
LEMMA FirstPosition ==
    ASSUME NEW c \in Code, c # << >>
    PROVE  1 \in 1 .. Len(c) /\ Head(c) = c[1]
<1>1. Len(c) \in Nat \ {0} /\ Head(c) = c[1]
  BY TailCode, Zenon
<1> QED
  BY <1>1

\* A region or a window that the rest is in.
LEMMA InsideTail ==
    ASSUME NEW c \in Code, c # << >>, NEW i \in 1 .. Len(c), NEW a, NEW b
    PROVE  Inside(Tail(c), i, a, b) <=> Inside(c, i + 1, a, b)
<1>1. /\ Len(Tail(c)) = Len(c) - 1 /\ Len(c) \in Nat
      /\ \A j \in 1 .. Len(c) - 1 : Tail(c)[j] = c[j + 1]
  BY TailCode, Zenon
<1>2. ASSUME Inside(Tail(c), i, a, b) PROVE Inside(c, i + 1, a, b)
  <2>1. PICK j \in i .. Len(Tail(c)) :
            Tail(c)[j][1] = a /\ \A k \in i .. j : Tail(c)[k][1] # b
    BY <1>2, Zenon DEF Inside
  <2>2. j + 1 \in i + 1 .. Len(c) /\ c[j + 1][1] = a
    BY <1>1, <2>1
  <2>3. ASSUME NEW k \in i + 1 .. j + 1 PROVE c[k][1] # b
    <3>1. k - 1 \in i .. j /\ k - 1 \in 1 .. Len(c) - 1 /\ (k - 1) + 1 = k
      BY <1>1, <2>1
    <3> QED
      BY <1>1, <2>1, <3>1, Zenon
  <2> QED
    BY <2>2, <2>3, Zenon DEF Inside
<1>3. ASSUME Inside(c, i + 1, a, b) PROVE Inside(Tail(c), i, a, b)
  <2>1. PICK j \in i + 1 .. Len(c) : c[j][1] = a /\ \A k \in i + 1 .. j : c[k][1] # b
    BY <1>3, Zenon DEF Inside
  <2>2. j - 1 \in i .. Len(Tail(c)) /\ Tail(c)[j - 1][1] = a
    BY <1>1, <2>1
  <2>3. ASSUME NEW k \in i .. j - 1 PROVE Tail(c)[k][1] # b
    <3>1. k + 1 \in i + 1 .. j /\ k \in 1 .. Len(c) - 1
      BY <1>1, <2>1
    <3> QED
      BY <1>1, <2>1, <3>1, Zenon
  <2> QED
    BY <2>2, <2>3, SMTT(30) DEF Inside
<1> QED
  BY <1>2, <1>3, Zenon

\* An instruction that neither begins nor ends it.
LEMMA InsideOn ==
    ASSUME NEW c \in Code, c # << >>, NEW a, NEW b, c[1][1] # a, c[1][1] # b
    PROVE  Inside(Tail(c), 1, a, b) <=> Inside(c, 1, a, b)
<1>1. Len(c) \in Nat \ {0}
  BY TailCode, Zenon
<1>2. Inside(Tail(c), 1, a, b) <=> Inside(c, 2, a, b)
  BY <1>1, InsideTail
<1>3. ASSUME Inside(c, 2, a, b) PROVE Inside(c, 1, a, b)
  <2>1. PICK j \in 2 .. Len(c) : c[j][1] = a /\ \A k \in 2 .. j : c[k][1] # b
    BY <1>3, Zenon DEF Inside
  <2>2. j \in 1 .. Len(c) /\ \A k \in 1 .. j : k = 1 \/ k \in 2 .. j
    BY <1>1, <2>1
  <2> QED
    BY <2>1, <2>2, Zenon DEF Inside
<1>4. ASSUME Inside(c, 1, a, b) PROVE Inside(c, 2, a, b)
  <2>1. PICK j \in 1 .. Len(c) : c[j][1] = a /\ \A k \in 1 .. j : c[k][1] # b
    BY <1>4, Zenon DEF Inside
  <2>2. j \in 2 .. Len(c) /\ \A k \in 2 .. j : k \in 1 .. j
    BY <1>1, <2>1
  <2> QED
    BY <2>1, <2>2, Zenon DEF Inside
<1> QED
  BY <1>2, <1>3, <1>4, Zenon

\* The properties of the code pass to the rest.
LEMMA RestDisciplined ==
    ASSUME NEW c \in Code, c # << >>, Disciplined(c)
    PROVE  Disciplined(Tail(c))
<1>1. /\ Len(Tail(c)) = Len(c) - 1 /\ Len(c) \in Nat \ {0}
      /\ \A i \in 1 .. Len(Tail(c)) : Tail(c)[i] = c[i + 1]
  BY TailCode, Zenon
<1> SUFFICES ASSUME NEW i \in 1 .. Len(Tail(c))
             PROVE
        /\ Tail(c)[i][1] \in {"lock", "unlock"} => Tail(c)[i][2] \in Locks
        /\ Tail(c)[i][1] = "lock" =>
              i < Len(Tail(c)) /\ Tail(c)[i + 1][1] = "unlock" /\ Tail(c)[i + 1][2] = Tail(c)[i][2]
        /\ i < Len(Tail(c)) /\ Tail(c)[i + 1][1] = "unlock" => Tail(c)[i][1] = "lock"
        /\ Tail(c)[i][1] = "enter" => InRegion(Tail(c), i + 1)
        /\ Tail(c)[i][1] = "exit" => ~InRegion(Tail(c), i + 1) /\ ~InWindow(Tail(c), i)
        /\ Tail(c)[i][1] = "open" => InWindow(Tail(c), i + 1)
        /\ Tail(c)[i][1] \in {"yield", "compute"} => i = Len(Tail(c))
  BY Zenon DEF Disciplined
<1>2. i + 1 \in 1 .. Len(c) /\ i \in 1 .. Len(c) /\ Tail(c)[i] = c[i + 1]
      /\ (i < Len(Tail(c)) => i + 1 \in 1 .. Len(Tail(c)) /\ Tail(c)[i + 1] = c[(i + 1) + 1])
      /\ (i < Len(Tail(c)) <=> i + 1 < Len(c)) /\ (i = Len(Tail(c)) <=> i + 1 = Len(c))
  BY <1>1
<1>3. /\ InRegion(Tail(c), i + 1) <=> InRegion(c, (i + 1) + 1)
      /\ InWindow(Tail(c), i + 1) <=> InWindow(c, (i + 1) + 1)
      /\ InWindow(Tail(c), i) <=> InWindow(c, i + 1)
  BY <1>2, InsideTail, Zenon DEF InRegion, InWindow
<1>4. /\ c[i + 1][1] \in {"lock", "unlock"} => c[i + 1][2] \in Locks
      /\ c[i + 1][1] = "lock" =>
            i + 1 < Len(c) /\ c[(i + 1) + 1][1] = "unlock" /\ c[(i + 1) + 1][2] = c[i + 1][2]
      /\ i + 1 < Len(c) /\ c[(i + 1) + 1][1] = "unlock" => c[i + 1][1] = "lock"
      /\ c[i + 1][1] = "enter" => InRegion(c, (i + 1) + 1)
      /\ c[i + 1][1] = "exit" => ~InRegion(c, (i + 1) + 1) /\ ~InWindow(c, i + 1)
      /\ c[i + 1][1] = "open" => InWindow(c, (i + 1) + 1)
      /\ c[i + 1][1] \in {"yield", "compute"} => i + 1 = Len(c)
  BY <1>2, Zenon DEF Disciplined
<1> QED
  BY <1>2, <1>3, <1>4, Zenon

\* The rest of a task's code keeps the discipline of windows, preemption and demonstrations.
LEMMA RestInRegions ==
    ASSUME NEW c \in Code, c # << >>
    PROVE  /\ WindowsInRegions(c) => WindowsInRegions(Tail(c))
           /\ Preemptible(c) => Preemptible(Tail(c))
           /\ NoDemonstration(c) => NoDemonstration(Tail(c))
<1>1. \A i \in 1 .. Len(Tail(c)) : /\ i + 1 \in 1 .. Len(c) /\ i \in 1 .. Len(c)
                                   /\ Tail(c)[i] = c[i + 1]
  BY TailCode
<1>2. \A i \in 1 .. Len(Tail(c)) : InRegion(Tail(c), i) <=> InRegion(c, i + 1)
  BY <1>1, InsideTail, Zenon DEF InRegion
<1>3. WindowsInRegions(c) => WindowsInRegions(Tail(c))
  BY <1>1, <1>2, Zenon DEF WindowsInRegions
<1>4. Preemptible(c) => Preemptible(Tail(c))
  BY <1>1, <1>2, ZenonT(30) DEF Preemptible
<1>5. NoDemonstration(c) => NoDemonstration(Tail(c))
  BY <1>1, Zenon DEF NoDemonstration
<1> QED
  BY <1>3, <1>4, <1>5, Zenon

\* A program is what is left of it at its start.
LEMMA RestOfItself == ASSUME NEW p \in Code PROVE RestOf(p, p)
<1>1. Len(p) \in Nat
  BY DEF Code
<1>2. \A i \in 1 .. Len(p) : Len(p) - Len(p) + i = i
  BY <1>1
<1> QED
  BY <1>1, <1>2 DEF RestOf

\* Where the next instruction of a program stands.
LEMMA RestNext ==
    ASSUME NEW c \in Code, NEW p \in Code, c # << >>, RestOf(c, p)
    PROVE  /\ RestOf(Tail(c), p)
           /\ Len(p) - Len(c) + 1 \in 1 .. Len(p) /\ c[1] = p[Len(p) - Len(c) + 1]
<1>1. /\ Len(Tail(c)) = Len(c) - 1 /\ Len(c) \in Nat \ {0} /\ Len(p) \in Nat
      /\ \A i \in 1 .. Len(Tail(c)) : Tail(c)[i] = c[i + 1]
  BY TailCode DEF Code
<1>2. Len(c) <= Len(p) /\ \A i \in 1 .. Len(c) : c[i] = p[Len(p) - Len(c) + i]
  BY Zenon DEF RestOf
<1>3. ASSUME NEW i \in 1 .. Len(Tail(c)) PROVE Tail(c)[i] = p[Len(p) - Len(Tail(c)) + i]
  <2>1. i + 1 \in 1 .. Len(c) /\ Len(p) - Len(c) + (i + 1) = Len(p) - Len(Tail(c)) + i
    BY <1>1
  <2> QED
    BY <1>1, <1>2, <2>1, Zenon
<1> QED
  BY <1>1, <1>2, <1>3 DEF RestOf

\* Code that a task may be given when it has nothing left to execute.
Startable(c) == c \in Code /\ Disciplined(c) /\ ~InRegion(c, 1) /\ ~Holds(c)

\* The instructions that the programs are made of.
LEMMA InstructionsAre ==
    /\ \A l \in Locks : <<"lock", l>> \in Instructions /\ <<"unlock", l>> \in Instructions
    /\ {<<"enter">>, <<"exit">>, <<"open">>, <<"close">>, <<"yield">>, <<"start">>, <<"compute">>,
        <<"install">>, <<"arm_adversary">>, <<"reset">>, <<"spin">>, <<"use">>, <<"done">>}
          \subseteq Instructions
BY DEF Instructions

\* _print writes to the port inside a region.
LEMMA PrintStarts ==
    /\ Startable(PrintCode) /\ WindowsInRegions(PrintCode)
    /\ Preemptible(PrintCode) /\ NoDemonstration(PrintCode)
<1> DEFINE c == PrintCode
<1>1. c \in Code
  BY InstructionsAre DEF Code, PrintCode, Section, Locks
<1>2. /\ Len(c) = 7
      /\ c[1] = <<"enter">> /\ c[2] = <<"lock", "REDIRECT_TARGET">>
      /\ c[3] = <<"unlock", "REDIRECT_TARGET">> /\ c[4] = <<"lock", "SERIAL1">>
      /\ c[5] = <<"unlock", "SERIAL1">> /\ c[6] = <<"exit">> /\ c[7] = <<"yield">>
  BY DEF PrintCode, Section
<1> HIDE DEF c
<1>3. \A i \in 1 .. 7 : InRegion(c, i) <=> i \in 2 .. 6
  BY <1>2 DEF InRegion, Inside
<1>4. \A i \in 1 .. 7 : ~InWindow(c, i)
  BY <1>2 DEF InWindow, Inside
<1>5. Disciplined(c)
  BY <1>2, <1>3, <1>4 DEF Disciplined, Locks
<1>6. Startable(c)
  BY <1>1, <1>2, <1>3, <1>5 DEF Startable, Holds
<1>7. WindowsInRegions(c) /\ Preemptible(c) /\ NoDemonstration(c)
  BY <1>2, <1>3 DEF WindowsInRegions, Preemptible, NoDemonstration
<1> QED
  BY <1>6, <1>7, Zenon DEF c

\* ... and so it does when the output is redirected.
LEMMA RedirectedStarts ==
    /\ Startable(RedirectedCode) /\ WindowsInRegions(RedirectedCode)
    /\ Preemptible(RedirectedCode) /\ NoDemonstration(RedirectedCode)
<1> DEFINE c == RedirectedCode
<1>1. c \in Code
  BY InstructionsAre DEF Code, RedirectedCode, Section, Locks
<1>2. /\ Len(c) = 5
      /\ c[1] = <<"enter">> /\ c[2] = <<"lock", "REDIRECT_TARGET">>
      /\ c[3] = <<"unlock", "REDIRECT_TARGET">> /\ c[4] = <<"exit">> /\ c[5] = <<"yield">>
  BY DEF RedirectedCode, Section
<1> HIDE DEF c
<1>3. \A i \in 1 .. 5 : InRegion(c, i) <=> i \in 2 .. 4
  BY <1>2 DEF InRegion, Inside
<1>4. \A i \in 1 .. 5 : ~InWindow(c, i)
  BY <1>2 DEF InWindow, Inside
<1>5. Disciplined(c)
  BY <1>2, <1>3, <1>4 DEF Disciplined, Locks
<1>6. Startable(c)
  BY <1>1, <1>2, <1>3, <1>5 DEF Startable, Holds
<1>7. WindowsInRegions(c) /\ Preemptible(c) /\ NoDemonstration(c)
  BY <1>2, <1>3 DEF WindowsInRegions, Preemptible, NoDemonstration
<1> QED
  BY <1>6, <1>7, Zenon DEF c

\* sys_send_typed has its window inside its region.
LEMMA SendStarts ==
    /\ Startable(SendCode) /\ WindowsInRegions(SendCode)
    /\ Preemptible(SendCode) /\ NoDemonstration(SendCode)
<1> DEFINE c == SendCode
<1>1. c \in Code
  BY InstructionsAre DEF Code, SendCode, Section, Locks
<1>2. /\ Len(c) = 7
      /\ c[1] = <<"enter">> /\ c[2] = <<"open">> /\ c[3] = <<"lock", "SCHEDULER">>
      /\ c[4] = <<"unlock", "SCHEDULER">> /\ c[5] = <<"close">> /\ c[6] = <<"exit">>
      /\ c[7] = <<"yield">>
  BY DEF SendCode, Section
<1> HIDE DEF c
<1>3. \A i \in 1 .. 7 : InRegion(c, i) <=> i \in 2 .. 6
  BY <1>2 DEF InRegion, Inside
<1>4. \A i \in 1 .. 7 : InWindow(c, i) <=> i \in 3 .. 5
  BY <1>2 DEF InWindow, Inside
<1>5. Disciplined(c)
  BY <1>2, <1>3, <1>4 DEF Disciplined, Locks
<1>6. Startable(c)
  BY <1>1, <1>2, <1>3, <1>5, SMTT(30) DEF Startable, Holds
<1>7. WindowsInRegions(c) /\ Preemptible(c) /\ NoDemonstration(c)
  BY <1>2, <1>3 DEF WindowsInRegions, Preemptible, NoDemonstration
<1> QED
  BY <1>6, <1>7, Zenon DEF c

\* sys_send_async has no window.
LEMMA SendAsyncStarts ==
    /\ Startable(SendAsyncCode) /\ WindowsInRegions(SendAsyncCode)
    /\ Preemptible(SendAsyncCode) /\ NoDemonstration(SendAsyncCode)
<1> DEFINE c == SendAsyncCode
<1>1. c \in Code
  BY InstructionsAre DEF Code, SendAsyncCode, Section, Locks
<1>2. /\ Len(c) = 5
      /\ c[1] = <<"enter">> /\ c[2] = <<"lock", "SCHEDULER">>
      /\ c[3] = <<"unlock", "SCHEDULER">> /\ c[4] = <<"exit">> /\ c[5] = <<"yield">>
  BY DEF SendAsyncCode, Section
<1> HIDE DEF c
<1>3. \A i \in 1 .. 5 : InRegion(c, i) <=> i \in 2 .. 4
  BY <1>2 DEF InRegion, Inside
<1>4. \A i \in 1 .. 5 : ~InWindow(c, i)
  BY <1>2 DEF InWindow, Inside
<1>5. Disciplined(c)
  BY <1>2, <1>3, <1>4 DEF Disciplined, Locks
<1>6. Startable(c)
  BY <1>1, <1>2, <1>3, <1>5, SMTT(30) DEF Startable, Holds
<1>7. WindowsInRegions(c) /\ Preemptible(c) /\ NoDemonstration(c)
  BY <1>2, <1>3 DEF WindowsInRegions, Preemptible, NoDemonstration
<1> QED
  BY <1>6, <1>7, Zenon DEF c

\* A receive takes the scheduler's lock outside of any region.
LEMMA ReceiveStarts ==
    /\ Startable(ReceiveCode) /\ WindowsInRegions(ReceiveCode)
    /\ Preemptible(ReceiveCode) /\ NoDemonstration(ReceiveCode)
<1> DEFINE c == ReceiveCode
<1>1. c \in Code
  BY InstructionsAre DEF Code, ReceiveCode, Section, Locks
<1>2. /\ Len(c) = 3
      /\ c[1] = <<"lock", "SCHEDULER">> /\ c[2] = <<"unlock", "SCHEDULER">>
      /\ c[3] = <<"yield">>
  BY DEF ReceiveCode, Section
<1> HIDE DEF c
<1>3. \A i \in 1 .. 3 : ~InRegion(c, i)
  BY <1>2 DEF InRegion, Inside
<1>4. \A i \in 1 .. 3 : ~InWindow(c, i)
  BY <1>2 DEF InWindow, Inside
<1>5. Disciplined(c)
  BY <1>2, <1>3, <1>4 DEF Disciplined, Locks
<1>6. Startable(c)
  BY <1>1, <1>2, <1>3, <1>5 DEF Startable, Holds
<1>7. WindowsInRegions(c) /\ Preemptible(c) /\ NoDemonstration(c)
  BY <1>2, <1>3 DEF WindowsInRegions, Preemptible, NoDemonstration
<1> QED
  BY <1>6, <1>7, Zenon DEF c

\* keyboard::try_read takes a lock that the timer does not look at.
LEMMA TryReadStarts ==
    /\ Startable(TryReadCode) /\ WindowsInRegions(TryReadCode)
    /\ NoDemonstration(TryReadCode)
<1> DEFINE c == TryReadCode
<1>1. c \in Code
  BY InstructionsAre DEF Code, TryReadCode, Section, Locks
<1>2. /\ Len(c) = 3
      /\ c[1] = <<"lock", "KBD_BUFFER">> /\ c[2] = <<"unlock", "KBD_BUFFER">>
      /\ c[3] = <<"yield">>
  BY DEF TryReadCode, Section
<1> HIDE DEF c
<1>3. \A i \in 1 .. 3 : ~InRegion(c, i)
  BY <1>2 DEF InRegion, Inside
<1>4. \A i \in 1 .. 3 : ~InWindow(c, i)
  BY <1>2 DEF InWindow, Inside
<1>5. Disciplined(c)
  BY <1>2, <1>3, <1>4 DEF Disciplined, Locks
<1>6. Startable(c)
  BY <1>1, <1>2, <1>3, <1>5 DEF Startable, Holds
<1>7. WindowsInRegions(c) /\ NoDemonstration(c)
  BY <1>2, <1>3 DEF WindowsInRegions, NoDemonstration
<1> QED
  BY <1>6, <1>7, Zenon DEF c

\* ... and so does serial::read_byte,
LEMMA ReadByteStarts ==
    /\ Startable(ReadByteCode) /\ WindowsInRegions(ReadByteCode)
    /\ NoDemonstration(ReadByteCode)
<1> DEFINE c == ReadByteCode
<1>1. c \in Code
  BY InstructionsAre DEF Code, ReadByteCode, Section, Locks
<1>2. /\ Len(c) = 3
      /\ c[1] = <<"lock", "SERIAL1">> /\ c[2] = <<"unlock", "SERIAL1">>
      /\ c[3] = <<"yield">>
  BY DEF ReadByteCode, Section
<1> HIDE DEF c
<1>3. \A i \in 1 .. 3 : ~InRegion(c, i)
  BY <1>2 DEF InRegion, Inside
<1>4. \A i \in 1 .. 3 : ~InWindow(c, i)
  BY <1>2 DEF InWindow, Inside
<1>5. Disciplined(c)
  BY <1>2, <1>3, <1>4 DEF Disciplined, Locks
<1>6. Startable(c)
  BY <1>1, <1>2, <1>3, <1>5 DEF Startable, Holds
<1>7. WindowsInRegions(c) /\ NoDemonstration(c)
  BY <1>2, <1>3 DEF WindowsInRegions, NoDemonstration
<1> QED
  BY <1>6, <1>7, Zenon DEF c

\* ... and so does watch.
LEMMA RedirectStarts ==
    /\ Startable(RedirectCode) /\ WindowsInRegions(RedirectCode)
    /\ NoDemonstration(RedirectCode)
<1> DEFINE c == RedirectCode
<1>1. c \in Code
  BY InstructionsAre DEF Code, RedirectCode, Section, Locks
<1>2. /\ Len(c) = 2
      /\ c[1] = <<"lock", "REDIRECT_TARGET">> /\ c[2] = <<"unlock", "REDIRECT_TARGET">>
  BY Zenon DEF RedirectCode, Section
<1> HIDE DEF c
<1>3. \A i \in 1 .. 2 : ~InRegion(c, i)
  BY <1>2 DEF InRegion, Inside
<1>4. \A i \in 1 .. 2 : ~InWindow(c, i)
  BY <1>2 DEF InWindow, Inside
<1>5. Disciplined(c)
  BY <1>2, <1>3, <1>4 DEF Disciplined, Locks
<1>6. Startable(c)
  BY <1>1, <1>2, <1>3, <1>5 DEF Startable, Holds
<1>7. WindowsInRegions(c) /\ NoDemonstration(c)
  BY <1>2, <1>3 DEF WindowsInRegions, NoDemonstration
<1> QED
  BY <1>6, <1>7, Zenon DEF c

\* The compute tasks take no lock.
LEMMA BusyStarts ==
    /\ Startable(BusyCode) /\ WindowsInRegions(BusyCode)
    /\ Preemptible(BusyCode) /\ NoDemonstration(BusyCode)
<1> DEFINE c == BusyCode
<1>1. c \in Code
  BY InstructionsAre DEF Code, BusyCode
<1>2. /\ Len(c) = 2
      /\ c[1] = <<"start">> /\ c[2] = <<"compute">>
  BY Zenon DEF BusyCode
<1> HIDE DEF c
<1>3. \A i \in 1 .. 2 : ~InRegion(c, i)
  BY <1>2 DEF InRegion, Inside
<1>4. \A i \in 1 .. 2 : ~InWindow(c, i)
  BY <1>2 DEF InWindow, Inside
<1>5. Disciplined(c)
  BY <1>2, <1>3, <1>4 DEF Disciplined, Locks
<1>6. Startable(c)
  BY <1>1, <1>2, <1>3, <1>5 DEF Startable, Holds
<1>7. WindowsInRegions(c) /\ Preemptible(c) /\ NoDemonstration(c)
  BY <1>2, <1>3 DEF WindowsInRegions, Preemptible, NoDemonstration
<1> QED
  BY <1>6, <1>7, Zenon DEF c

\* The wait for them looks at the task table.
LEMMA WaitStarts ==
    /\ Startable(WaitCode) /\ WindowsInRegions(WaitCode) /\ Preemptible(WaitCode)
<1> DEFINE c == WaitCode
<1>1. c \in Code
  BY InstructionsAre DEF Code, WaitCode, Section, Locks
<1>2. /\ Len(c) = 4
      /\ c[1] = <<"lock", "SCHEDULER">> /\ c[2] = <<"unlock", "SCHEDULER">>
      /\ c[3] = <<"done">> /\ c[4] = <<"yield">>
  BY DEF WaitCode, Section
<1> HIDE DEF c
<1>3. \A i \in 1 .. 4 : ~InRegion(c, i)
  BY <1>2 DEF InRegion, Inside
<1>4. \A i \in 1 .. 4 : ~InWindow(c, i)
  BY <1>2 DEF InWindow, Inside
<1>5. Disciplined(c)
  BY <1>2, <1>3, <1>4 DEF Disciplined, Locks
<1>6. Startable(c)
  BY <1>1, <1>2, <1>3, <1>5 DEF Startable, Holds
<1>7. WindowsInRegions(c) /\ Preemptible(c)
  BY <1>2, <1>3 DEF WindowsInRegions, Preemptible
<1> QED
  BY <1>6, <1>7, Zenon DEF c

\* The first stage of preempt-race has its window outside of any region,
LEMMA VulnerableStarts ==
    /\ Startable(VulnerableCode) /\ Preemptible(VulnerableCode)
    /\ Len(VulnerableCode) = 7
    /\ VulnerableCode[1] = <<"install">> /\ VulnerableCode[2] = <<"arm_adversary">>
    /\ VulnerableCode[3] = <<"reset">> /\ VulnerableCode[4] = <<"open">>
    /\ VulnerableCode[5] = <<"spin">> /\ VulnerableCode[6] = <<"close">>
    /\ VulnerableCode[7] = <<"use">>
    /\ \A i \in 1 .. 7 : ~InRegion(VulnerableCode, i)
    /\ \A i \in 1 .. 7 : InWindow(VulnerableCode, i) <=> i \in 5 .. 6
<1> DEFINE c == VulnerableCode
<1>1. c \in Code
  BY InstructionsAre DEF Code, VulnerableCode, PrepareCode
<1>2. /\ Len(c) = 7
      /\ c[1] = <<"install">> /\ c[2] = <<"arm_adversary">> /\ c[3] = <<"reset">>
      /\ c[4] = <<"open">> /\ c[5] = <<"spin">> /\ c[6] = <<"close">> /\ c[7] = <<"use">>
  BY DEF VulnerableCode, PrepareCode
<1> HIDE DEF c
<1>3. \A i \in 1 .. 7 : ~InRegion(c, i)
  BY <1>2 DEF InRegion, Inside
<1>4. \A i \in 1 .. 7 : InWindow(c, i) <=> i \in 5 .. 6
  BY <1>2 DEF InWindow, Inside
<1>5. Disciplined(c)
  BY <1>2, <1>3, <1>4 DEF Disciplined, Locks
<1>6. Startable(c)
  BY <1>1, <1>2, <1>3, <1>5 DEF Startable, Holds
<1>7. Preemptible(c)
  BY <1>2, <1>3 DEF Preemptible
<1> QED
  BY <1>2, <1>3, <1>4, <1>6, <1>7, Zenon DEF c

\* ... the second stage inside of one, and so at boot.
LEMMA GuardedStarts ==
    /\ Startable(GuardedCode) /\ WindowsInRegions(GuardedCode) /\ Preemptible(GuardedCode)
    /\ Len(GuardedCode) = 9
    /\ GuardedCode[1] = <<"install">> /\ GuardedCode[2] = <<"arm_adversary">>
    /\ GuardedCode[3] = <<"reset">> /\ GuardedCode[4] = <<"enter">>
    /\ GuardedCode[5] = <<"open">> /\ GuardedCode[6] = <<"spin">>
    /\ GuardedCode[7] = <<"close">> /\ GuardedCode[8] = <<"exit">>
    /\ GuardedCode[9] = <<"use">>
<1> DEFINE c == GuardedCode
<1>1. c \in Code
  BY InstructionsAre DEF Code, GuardedCode, PrepareCode
<1>2. /\ Len(c) = 9
      /\ c[1] = <<"install">> /\ c[2] = <<"arm_adversary">> /\ c[3] = <<"reset">>
      /\ c[4] = <<"enter">> /\ c[5] = <<"open">> /\ c[6] = <<"spin">> /\ c[7] = <<"close">>
      /\ c[8] = <<"exit">> /\ c[9] = <<"use">>
  BY DEF GuardedCode, PrepareCode
<1> HIDE DEF c
<1>3. \A i \in 1 .. 9 : InRegion(c, i) <=> i \in 5 .. 8
  BY <1>2 DEF InRegion, Inside
<1>4. \A i \in 1 .. 9 : InWindow(c, i) <=> i \in 6 .. 7
  BY <1>2 DEF InWindow, Inside
<1>5. Disciplined(c)
  BY <1>2, <1>3, <1>4 DEF Disciplined, Locks
<1>6. Startable(c)
  BY <1>1, <1>2, <1>3, <1>5, SMTT(30) DEF Startable, Holds
<1>7. WindowsInRegions(c) /\ Preemptible(c)
  BY <1>2, <1>3 DEF WindowsInRegions, Preemptible
<1> QED
  BY <1>2, <1>6, <1>7, Zenon DEF c

\* ipc_toctou_experiment with the guard, instruction by instruction.
LEMMA BootGuardedStarts ==
    /\ Startable(BootGuardedCode) /\ WindowsInRegions(BootGuardedCode)
    /\ Preemptible(BootGuardedCode)
    /\ Len(BootGuardedCode) = 9
    /\ BootGuardedCode[1] = <<"install">> /\ BootGuardedCode[2] = <<"arm_adversary">>
    /\ BootGuardedCode[3] = <<"reset">> /\ BootGuardedCode[4] = <<"enter">>
    /\ BootGuardedCode[5] = <<"open">> /\ BootGuardedCode[6] = <<"spin">>
    /\ BootGuardedCode[7] = <<"close">> /\ BootGuardedCode[8] = <<"use">>
    /\ BootGuardedCode[9] = <<"exit">>
<1> DEFINE c == BootGuardedCode
<1>1. c \in Code
  BY InstructionsAre DEF Code, BootGuardedCode, PrepareCode
<1>2. /\ Len(c) = 9
      /\ c[1] = <<"install">> /\ c[2] = <<"arm_adversary">> /\ c[3] = <<"reset">>
      /\ c[4] = <<"enter">> /\ c[5] = <<"open">> /\ c[6] = <<"spin">> /\ c[7] = <<"close">>
      /\ c[8] = <<"use">> /\ c[9] = <<"exit">>
  BY DEF BootGuardedCode, PrepareCode
<1> HIDE DEF c
<1>3. \A i \in 1 .. 10 : InRegion(c, i) <=> i \in 5 .. 9
  BY <1>2 DEF InRegion, Inside
<1>4. \A i \in 1 .. 9 : InWindow(c, i) <=> i \in 6 .. 7
  BY <1>2 DEF InWindow, Inside
<1>5. Disciplined(c)
  BY <1>2, <1>3, <1>4 DEF Disciplined, Locks
<1>6. Startable(c)
  BY <1>1, <1>2, <1>3, <1>5, SMTT(30) DEF Startable, Holds
<1>7. WindowsInRegions(c) /\ Preemptible(c)
  BY <1>2, <1>3 DEF WindowsInRegions, Preemptible
<1> QED
  BY <1>2, <1>6, <1>7, Zenon DEF c

-----------------------------------------------------------------------------
(* One instruction *)

\* What executing op, the first instruction of c, does to regions, windows and
\* locks.
Executed(c, op) ==
    /\ Tail(c) \in Code /\ Disciplined(Tail(c))
    /\ op # "lock" => ~Holds(Tail(c))
    /\ op = "lock" => Holds(Tail(c)) /\ Tail(c)[1][2] = c[1][2]
    /\ op = "unlock" <=> Holds(c)
    /\ op \in {"lock", "unlock"} => c[1][2] \in Locks
    /\ op \notin {"enter", "exit"} => (InRegion(Tail(c), 1) <=> InRegion(c, 1))
    /\ op = "enter" => InRegion(Tail(c), 1) /\ ~InRegion(c, 1)
    /\ op = "exit" => ~InRegion(Tail(c), 1) /\ InRegion(c, 1) /\ ~InWindow(c, 1)
    /\ op \notin {"open", "close"} => (InWindow(Tail(c), 1) <=> InWindow(c, 1))
    /\ op = "open" => InWindow(Tail(c), 1)
    /\ op \in {"yield", "compute"} => Tail(c) = << >> /\ ~InRegion(c, 1)

\* What the first instruction of disciplined code does to regions, windows and locks.
LEMMA Executing ==
    ASSUME NEW c \in Code, c # << >>, Disciplined(c), NEW op, c[1][1] = op
    PROVE  Executed(c, op)
<1>1. /\ Tail(c) \in Code /\ Len(Tail(c)) = Len(c) - 1 /\ Len(c) \in Nat \ {0}
      /\ \A i \in 1 .. Len(Tail(c)) : Tail(c)[i] = c[i + 1]
  BY TailCode, Zenon
<1>2. Tail(c) # << >> <=> 1 < Len(c)
  <2>1. Tail(c) = << >> <=> Len(Tail(c)) = 0
    BY <1>1, EmptyCode, Zenon DEF Code
  <2> QED
    BY <1>1, <2>1
<1>3. 1 < Len(c) => Tail(c)[1] = c[2]
  BY <1>1
<1>4. 1 \in 1 .. Len(c)
  BY <1>1
<1>5. /\ op \in {"lock", "unlock"} => c[1][2] \in Locks
      /\ op = "lock" => 1 < Len(c) /\ c[2][1] = "unlock" /\ c[2][2] = c[1][2]
      /\ 1 < Len(c) /\ c[2][1] = "unlock" => op = "lock"
      /\ op = "enter" => InRegion(c, 2)
      /\ op = "exit" => ~InRegion(c, 2) /\ ~InWindow(c, 1)
      /\ op = "open" => InWindow(c, 2)
      /\ op \in {"yield", "compute"} => 1 = Len(c)
  <2>1. /\ c[1][1] \in {"lock", "unlock"} => c[1][2] \in Locks
        /\ c[1][1] = "lock" => 1 < Len(c) /\ c[1 + 1][1] = "unlock" /\ c[1 + 1][2] = c[1][2]
        /\ 1 < Len(c) /\ c[1 + 1][1] = "unlock" => c[1][1] = "lock"
        /\ c[1][1] = "enter" => InRegion(c, 1 + 1)
        /\ c[1][1] = "exit" => ~InRegion(c, 1 + 1) /\ ~InWindow(c, 1)
        /\ c[1][1] = "open" => InWindow(c, 1 + 1)
        /\ c[1][1] \in {"yield", "compute"} => 1 = Len(c)
    BY <1>4, Zenon DEF Disciplined
  <2>2. 1 + 1 = 2
    OBVIOUS
  <2> QED
    BY <2>1, <2>2, Zenon
<1>6. /\ InRegion(Tail(c), 1) <=> InRegion(c, 2)
      /\ InWindow(Tail(c), 1) <=> InWindow(c, 2)
  BY <1>4, InsideTail DEF InRegion, InWindow
<1>7. Disciplined(Tail(c))
  BY RestDisciplined, Zenon
<1>8. /\ op # "lock" => ~Holds(Tail(c))
      /\ op = "lock" => Holds(Tail(c)) /\ Tail(c)[1][2] = c[1][2]
      /\ op = "unlock" <=> Holds(c)
  BY <1>2, <1>3, <1>5, Zenon DEF Holds
<1>9. /\ op \notin {"enter", "exit"} => (InRegion(Tail(c), 1) <=> InRegion(c, 1))
      /\ op \notin {"open", "close"} => (InWindow(Tail(c), 1) <=> InWindow(c, 1))
  BY InsideOn, Zenon DEF InRegion, InWindow
<1>10. op = "enter" => ~InRegion(c, 1)
  BY <1>1 DEF InRegion, Inside
<1>11. op = "exit" => InRegion(c, 1)
  <2> SUFFICES ASSUME op = "exit" PROVE InRegion(c, 1)
    BY Zenon
  <2>1. \A k \in 1 .. 1 : c[k][1] # "enter"
    OBVIOUS
  <2> QED
    BY <1>4, <2>1, Zenon DEF InRegion, Inside
<1>12. op \in {"yield", "compute"} => Tail(c) = << >> /\ ~InRegion(c, 1)
  BY <1>1, <1>2, <1>5, SMTT(30) DEF InRegion, Inside
<1> QED
  BY <1>1, <1>5, <1>6, <1>7, <1>8, <1>9, <1>10, <1>11, <1>12, Zenon DEF Executed

-----------------------------------------------------------------------------
(* Locks and regions *)

\* The task that executes goes on by the instruction op.
Runs(op) ==
    /\ stuck = None /\ current \in Tasks
    /\ code[current] \in Code /\ code[current] # << >>
    /\ code[current][1] = Head(code[current]) /\ code[current][1][1] = op
    /\ Executed(code[current], op)
    /\ code' \in [Tasks -> Code] /\ code'[current] = Tail(code[current])
    /\ \A t \in Tasks \ {current} : code'[t] = code[t]

\* The same of the task that executes.
LEMMA Running ==
    ASSUME PreemptTypeOK, LockInv, NEW op, At(op)
    PROVE  Runs(op)
<1>1. /\ stuck = None /\ current \in Tasks /\ code \in [Tasks -> Code]
      /\ code[current] \in Code /\ code[current] # << >>
      /\ Head(code[current])[1] = op /\ code' = [code EXCEPT ![current] = Tail(code[current])]
  BY Zenon DEF PreemptTypeOK, At, Code
<1>2. code[current][1] = Head(code[current]) /\ Tail(code[current]) \in Code
  BY <1>1, TailCode, Zenon
<1>3. Executed(code[current], op)
  BY <1>1, <1>2, Executing, Zenon DEF LockInv
<1>4. /\ code' \in [Tasks -> Code] /\ code'[current] = Tail(code[current])
      /\ \A t \in Tasks \ {current} : code'[t] = code[t]
  BY <1>1, <1>2, Zenon
<1> QED
  BY <1>1, <1>2, <1>3, <1>4, Zenon DEF Runs

\* The code of every task keeps its properties.
LEMMA CodeKept ==
    ASSUME PreemptTypeOK, LockInv, NEW op, Runs(op), NEW t \in Tasks
    PROVE  /\ Disciplined(code'[t])
           /\ Preemptible(code[t]) => Preemptible(code'[t])
           /\ WindowsInRegions(code[t]) => WindowsInRegions(code'[t])
           /\ NoDemonstration(code[t]) => NoDemonstration(code'[t])
<1>1. CASE t = current
  BY <1>1, RestInRegions, Zenon DEF Runs, Executed
<1>2. CASE t # current
  BY <1>2, Zenon DEF Runs, LockInv
<1> QED
  BY <1>1, <1>2, Zenon

\* An instruction that leaves lock and count as the rest of the code says.
LEMMA StayLocked ==
    ASSUME PreemptTypeOK, LockInv, NEW op, Runs(op), current' = current, stuck' = stuck,
           armed' <=> stage' # "prompt", armed' => armed,
           \A l \in Locks :
              holder'[l] = IF Holds(Tail(code[current])) /\ Tail(code[current])[1][2] = l
                           THEN current ELSE None,
           preemptCount' = IF InRegion(Tail(code[current]), 1) THEN 1 ELSE 0
    PROVE  LockInv'
<1>1. \A t \in Tasks : Disciplined(code'[t]) /\ (Preemptible(code[t]) => Preemptible(code'[t]))
  BY CodeKept, Zenon
<1>2. code'[current] = Tail(code[current]) /\ \A t \in Tasks \ {current} : code'[t] = code[t]
  BY Zenon DEF Runs
<1>3. \A t \in Tasks \ {current'} : ~InRegion(code'[t], 1) /\ ~Holds(code'[t])
  BY <1>2, Zenon DEF LockInv
<1>4. \A t \in Tasks : Preemptible(code'[t]) \/ (t = current' /\ ~armed')
  BY <1>1, Zenon DEF LockInv
<1>5. stuck' = None
  BY Zenon DEF Runs
<1> QED
  BY <1>1, <1>2, <1>3, <1>4, <1>5, ZenonT(30) DEF LockInv

\* An instruction that has nothing to do with locks or regions.
LEMMA StayQuiet ==
    ASSUME PreemptTypeOK, LockInv, NEW op, Runs(op),
           op \notin {"lock", "unlock", "enter", "exit"},
           UNCHANGED <<current, holder, preemptCount, stuck>>,
           armed' <=> stage' # "prompt", armed' => armed
    PROVE  LockInv'
<1>1. /\ ~Holds(code[current]) /\ ~Holds(Tail(code[current]))
      /\ InRegion(Tail(code[current]), 1) <=> InRegion(code[current], 1)
  BY Zenon DEF Runs, Executed
<1>2. \A l \in Locks : holder'[l] = None
  BY <1>1, Zenon DEF LockInv
<1>3. preemptCount' = IF InRegion(Tail(code[current]), 1) THEN 1 ELSE 0
  BY <1>1, Zenon DEF LockInv
<1> QED
  BY <1>1, <1>2, <1>3, StayLocked, Zenon

\* Nobody has a lock or is in a region, and the processor may change hands.
LEMMA Rescheduled ==
    ASSUME current' \in Tasks, stuck' = None, armed' <=> stage' # "prompt",
           \A t \in Tasks : /\ Disciplined(code'[t]) /\ Preemptible(code'[t])
                            /\ ~InRegion(code'[t], 1) /\ ~Holds(code'[t]),
           \A l \in Locks : holder'[l] = None, preemptCount' = 0
    PROVE  LockInv'
BY Zenon DEF LockInv

\* A task that gives the processor up or loses it.
Free ==
    /\ \A t \in Tasks : ~InRegion(code[t], 1) /\ ~Holds(code[t])
    /\ \A l \in Locks : holder[l] = None
    /\ preemptCount = 0

\* Outside regions and locks, nobody has a lock and the count is 0.
LEMMA Freely ==
    ASSUME PreemptTypeOK, LockInv, ~InRegion(code[current], 1), ~Holds(code[current])
    PROVE  Free
BY Zenon DEF LockInv, Free

\* A task without code is in no region.
LEMMA EmptyQuiet ==
    /\ << >> \in Code /\ Disciplined(<< >>) /\ Preemptible(<< >>) /\ WindowsInRegions(<< >>)
    /\ NoDemonstration(<< >>) /\ ~InRegion(<< >>, 1) /\ ~InWindow(<< >>, 1) /\ ~Holds(<< >>)
BY DEF Code, Disciplined, Preemptible, WindowsInRegions, NoDemonstration, InRegion, InWindow,
       Inside, Holds

\* Whoever is picked is a task.
LEMMA PickTask ==
    ASSUME PreemptTypeOK, NEW st, Reschedule(st)
    PROVE  current' \in Tasks
BY Zenon DEF Reschedule, SwitchTo, PreemptTypeOK

\* A tick switches only when nobody has a lock or is in a region.
LEMMA TickFree ==
    ASSUME PreemptTypeOK, LockInv, MaySwitch, holder["SCHEDULER"] = None
    PROVE  Free /\ Preemptible(code[current])
<1>1. current \in Tasks /\ code[current] \in Code /\ "SCHEDULER" \in Locks
  BY Zenon DEF PreemptTypeOK, Code, Locks
<1>2. Preemptible(code[current]) /\ ~InRegion(code[current], 1)
  BY <1>1 DEF LockInv, MaySwitch
<1>3. ~Holds(code[current])
  <2> SUFFICES ASSUME Holds(code[current]) PROVE FALSE
    BY Zenon
  <2>1. 1 \in 1 .. Len(code[current]) /\ code[current][1][1] = "unlock"
    BY <1>1, TailCode DEF Holds
  <2>2. code[current][1][2] = "SCHEDULER"
    BY <1>2, <2>1, Zenon DEF Preemptible
  <2>3. holder["SCHEDULER"] = current
    BY <1>1, <2>2, Zenon DEF LockInv
  <2> QED
    BY <1>1, <2>3, PreemptionConstants, Zenon
<1> QED
  BY <1>2, <1>3, Freely, Zenon

\* A task with nothing left to execute is given code.
LEMMA GivenCode ==
    ASSUME PreemptTypeOK, LockInv, NEW c, Idle(current), Startable(c),
           code' = [code EXCEPT ![current] = c],
           UNCHANGED <<current, holder, preemptCount, stuck>>,
           armed' <=> stage' # "prompt", armed' => Preemptible(c)
    PROVE  LockInv'
<1>1. current \in Tasks /\ code \in [Tasks -> Code] /\ code[current] = << >> /\ stuck = None
  BY Zenon DEF PreemptTypeOK, Code, Idle
<1>2. ~Holds(code[current]) /\ ~InRegion(code[current], 1)
  BY <1>1, EmptyQuiet, Zenon
<1>3. Free
  BY <1>2, Freely, Zenon
<1>4. code'[current] = c /\ \A t \in Tasks \ {current} : code'[t] = code[t]
  BY <1>1, Zenon
<1>5. /\ \A t \in Tasks : Disciplined(code'[t]) /\ ~InRegion(code'[t], 1) /\ ~Holds(code'[t])
      /\ \A t \in Tasks : Preemptible(code'[t]) \/ (t = current /\ ~armed')
  BY <1>3, <1>4, ZenonT(60) DEF LockInv, Startable, Free
<1> QED
  BY <1>1, <1>3, <1>5, Zenon DEF LockInv, Free

\* Every instruction keeps LockInv.
LEMMA InstructionLocks ==
    ASSUME PreemptTypeOK, LockInv,
           \/ Lock \/ Unlock \/ EnterCritical \/ ExitCritical \/ Window \/ YieldCpu
           \/ Start \/ Compute \/ Prepare \/ Spin \/ Use \/ Done
    PROVE  LockInv' /\ (current' # current => Free)
<1>0. armed <=> stage # "prompt"
  BY Zenon DEF LockInv
<1>1. CASE Lock
  <2>1. Runs("lock") /\ UNCHANGED <<current, armed, stage, preemptCount, stuck>>
    BY <1>1, Running, Zenon DEF Lock
  <2>2. holder' = [holder EXCEPT ![code[current][1][2]] = current]
    BY <1>1, <2>1, Zenon DEF Lock, Runs
  <2>3. /\ ~Holds(code[current]) /\ Holds(Tail(code[current]))
        /\ Tail(code[current])[1][2] = code[current][1][2] /\ code[current][1][2] \in Locks
        /\ InRegion(Tail(code[current]), 1) <=> InRegion(code[current], 1)
    BY <2>1, ZenonT(30) DEF Runs, Executed
  <2>4. \A l \in Locks : holder[l] = None
    BY <2>3, Zenon DEF LockInv
  <2>5. \A l \in Locks :
           holder'[l] = IF Holds(Tail(code[current])) /\ Tail(code[current])[1][2] = l
                        THEN current ELSE None
    BY <2>2, <2>3, <2>4, Zenon DEF PreemptTypeOK
  <2>6. preemptCount' = IF InRegion(Tail(code[current]), 1) THEN 1 ELSE 0
    BY <2>1, <2>3, Zenon DEF LockInv
  <2> QED
    BY <1>0, <2>1, <2>5, <2>6, StayLocked, ZenonT(30)
<1>2. CASE Unlock
  <2>1. Runs("unlock") /\ UNCHANGED <<current, armed, stage, preemptCount, stuck>>
    BY <1>2, Running, Zenon DEF Unlock
  <2>2. holder' = [holder EXCEPT ![code[current][1][2]] = None]
    BY <1>2, <2>1, Zenon DEF Unlock, Runs
  <2>3. /\ ~Holds(Tail(code[current]))
        /\ InRegion(Tail(code[current]), 1) <=> InRegion(code[current], 1)
    BY <2>1, Zenon DEF Runs, Executed
  <2>4. \A l \in Locks : l # code[current][1][2] => holder[l] = None
    BY Zenon DEF LockInv
  <2>5. \A l \in Locks : holder'[l] = None
    BY <2>2, <2>4, Zenon DEF PreemptTypeOK
  <2>6. preemptCount' = IF InRegion(Tail(code[current]), 1) THEN 1 ELSE 0
    BY <2>1, <2>3, Zenon DEF LockInv
  <2> QED
    BY <1>0, <2>1, <2>3, <2>5, <2>6, StayLocked, Zenon
<1>3. CASE EnterCritical \/ ExitCritical
  <2>1. PICK op \in {"enter", "exit"} :
           /\ Runs(op) /\ UNCHANGED <<current, armed, stage, holder, stuck>>
           /\ op = "enter" => preemptCount' = preemptCount + 1
           /\ op = "exit" => preemptCount' = preemptCount - 1
    BY <1>3, Running, ZenonT(60) DEF EnterCritical, ExitCritical
  <2>2. /\ ~Holds(code[current]) /\ ~Holds(Tail(code[current]))
        /\ op = "enter" => InRegion(Tail(code[current]), 1) /\ ~InRegion(code[current], 1)
        /\ op = "exit" => ~InRegion(Tail(code[current]), 1) /\ InRegion(code[current], 1)
    BY <2>1, SMTT(30) DEF Runs, Executed
  <2>3. \A l \in Locks : holder'[l] = None
    BY <2>1, <2>2, Zenon DEF LockInv
  <2>4. preemptCount = IF InRegion(code[current], 1) THEN 1 ELSE 0
    BY Zenon DEF LockInv
  <2>5. preemptCount' = IF InRegion(Tail(code[current]), 1) THEN 1 ELSE 0
    BY <2>1, <2>2, <2>4, SMTT(30)
  <2> QED
    BY <1>0, <2>1, <2>2, <2>3, <2>5, StayLocked, ZenonT(60)
<1>4. CASE Window \/ Start \/ Prepare \/ Spin \/ Use
  <2>1. PICK op : /\ Runs(op) /\ UNCHANGED <<current, armed, stage, holder, preemptCount, stuck>>
                  /\ op \notin {"lock", "unlock", "enter", "exit"}
    BY <1>4, Running DEF Window, Start, Prepare, Spin, Use
  <2> QED
    BY <1>0, <2>1, StayQuiet, SMTT(30)
<1>5. CASE Done
  <2> DEFINE over == elapsed[Driver] >= Limit \/ \A b \in Busy : state[b] = "Terminated"
  <2>1. /\ Runs("done") /\ UNCHANGED <<current, holder, preemptCount, stuck>>
        /\ stage' = (IF over THEN "prompt" ELSE stage) /\ armed' = (armed /\ ~over)
    BY <1>5, Running, Zenon DEF Done
  <2> HIDE DEF over
  <2>2. (armed' <=> stage' # "prompt") /\ (armed' => armed)
    BY <1>0, <2>1, Zenon
  <2> QED
    BY <2>1, <2>2, StayQuiet, Zenon
<1>6. CASE YieldCpu \/ Compute
  <2>1. PICK op \in {"yield", "compute"} :
           Runs(op) /\ UNCHANGED <<armed, stage, holder, preemptCount, stuck>>
    BY <1>6, Running, Zenon DEF YieldCpu, Compute
  <2>2. current' \in Tasks
    BY <1>6, PickTask, ZenonT(30) DEF YieldCpu, Compute
  <2>3. Free
    BY <2>1, Freely, SMTT(30) DEF Runs, Executed
  <2>4. code'[current] = << >> /\ \A t \in Tasks \ {current} : code'[t] = code[t]
    BY <2>1, SMTT(30) DEF Runs, Executed
  <2>5. \A t \in Tasks : /\ Disciplined(code'[t]) /\ Preemptible(code'[t])
                         /\ ~InRegion(code'[t], 1) /\ ~Holds(code'[t])
    BY <2>3, <2>4, EmptyQuiet, SMTT(30) DEF LockInv, Free
  <2>6. (\A l \in Locks : holder'[l] = None) /\ preemptCount' = 0 /\ stuck' = None
    BY <2>1, <2>3, Zenon DEF Free, Runs
  <2> QED
    BY <1>0, <2>1, <2>2, <2>3, <2>5, <2>6, Rescheduled, ZenonT(60)
<1> QED
  BY <1>1, <1>2, <1>3, <1>4, <1>5, <1>6, Zenon

\* So does every interrupt.
LEMMA InterruptLocks ==
    ASSUME PreemptTypeOK, LockInv, Tick \/ Key \/ Fault
    PROVE  LockInv' /\ (current' # current => Free)
<1>0. armed <=> stage # "prompt"
  BY Zenon DEF LockInv
<1>1. CASE Tick
  <2>1. stuck = None /\ UNCHANGED <<code, holder, preemptCount, armed, stage, stuck>>
    BY <1>1, Zenon DEF Tick
  <2>2. CASE MaySwitch /\ holder["SCHEDULER"] = None
    <3>1. current' \in Tasks
      BY <1>1, <2>2, PickTask, Zenon DEF Tick
    <3>2. Free /\ Preemptible(code[current])
      BY <2>2, TickFree, SMTT(30)
    <3>3. \A t \in Tasks : /\ Disciplined(code'[t]) /\ Preemptible(code'[t])
                           /\ ~InRegion(code'[t], 1) /\ ~Holds(code'[t])
      BY <2>1, <3>2, Zenon DEF LockInv, Free
    <3>4. (\A l \in Locks : holder'[l] = None) /\ preemptCount' = 0
      BY <2>1, <3>2, SMTT(30) DEF Free
    <3> QED
      BY <1>0, <2>1, <3>1, <3>2, <3>3, <3>4, Rescheduled, Zenon
  <2>3. CASE ~(MaySwitch /\ holder["SCHEDULER"] = None)
    BY <1>1, <2>1, <2>3, SMTT(30) DEF Tick, LockInv
  <2> QED
    BY <2>2, <2>3, Zenon
<1>2. CASE Key
  <2>1. stuck = None /\ UNCHANGED <<current, code, holder, preemptCount, armed, stage>>
    BY <1>2, Zenon DEF Key
  <2>2. stuck' # None => stuck' = "keyboard_isr" /\ holder["KBD_BUFFER"] # None
    BY <1>2, Zenon DEF Key
  <2>3. "KBD_BUFFER" \in Locks
    BY Zenon DEF Locks
  <2>4. holder["KBD_BUFFER"] # None => holder["KBD_BUFFER"] = current
    BY <2>3, SMTT(30) DEF LockInv
  <2> QED
    BY <2>1, <2>2, <2>4, Zenon DEF LockInv
<1>3. CASE Fault
  <2>1. /\ stuck = None /\ code[current] = << >> /\ current \in Tasks
        /\ UNCHANGED <<code, holder, preemptCount, armed, stage>>
    BY <1>3, SMTT(30) DEF Fault, Tasks
  <2>2. Free /\ Preemptible(code[current])
    BY <2>1, EmptyQuiet, Freely, SMTT(30)
  <2>3. Reschedule([state EXCEPT ![current] = "Terminated"]) /\ stuck' = None
    BY <1>3, <2>1, <2>2, Zenon DEF Fault, Free, Locks
  <2>4. current' \in Tasks
    BY <2>3, PickTask, SMTT(30)
  <2>5. \A t \in Tasks : /\ Disciplined(code'[t]) /\ Preemptible(code'[t])
                         /\ ~InRegion(code'[t], 1) /\ ~Holds(code'[t])
    BY <2>1, <2>2, SMTT(30) DEF LockInv, Free
  <2>6. (\A l \in Locks : holder'[l] = None) /\ preemptCount' = 0
    BY <2>1, <2>2, Zenon DEF Free
  <2> QED
    BY <1>0, <2>1, <2>2, <2>3, <2>4, <2>5, <2>6, Rescheduled, ZenonT(60)
<1> QED
  BY <1>1, <1>2, <1>3, Zenon

\* And so does what an idle task does next.
LEMMA IdleLocks ==
    ASSUME PreemptTypeOK, LockInv, Call \/ Prompt \/ Timeslice \/ Wait \/ PreemptRace
    PROVE  LockInv' /\ current' = current
<1>0. (armed <=> stage # "prompt") /\ current \in Tasks
  BY Zenon DEF LockInv, PreemptTypeOK
<1>1. CASE Call
  <2>1. PICK c \in {PrintCode, SendCode, SendAsyncCode, ReceiveCode}
                   \cup (IF stage = "prompt" THEN {TryReadCode, RedirectedCode} ELSE {}) :
           code' = [code EXCEPT ![current] = c]
    BY <1>1, Zenon DEF Call
  <2>2. Idle(current) /\ UNCHANGED <<current, holder, preemptCount, armed, stage, stuck>>
    BY <1>1, Zenon DEF Call
  <2>3. Startable(c) /\ (stage # "prompt" => Preemptible(c))
    BY <2>1, PrintStarts, SendStarts, SendAsyncStarts, ReceiveStarts, TryReadStarts,
       RedirectedStarts, ZenonT(60)
  <2> QED
    BY <1>0, <2>1, <2>2, <2>3, GivenCode, ZenonT(30)
<1>2. CASE Prompt
  <2>1. PICK c \in {ReadByteCode, PrintCode, RedirectCode} : code' = [code EXCEPT ![current] = c]
    BY <1>2, Zenon DEF Prompt, Idle
  <2>2. /\ Idle(current) /\ stage = "prompt"
        /\ UNCHANGED <<current, holder, preemptCount, armed, stage, stuck>>
    BY <1>2, Zenon DEF Prompt, Idle
  <2>3. Startable(c)
    BY <2>1, PrintStarts, ReadByteStarts, RedirectStarts, SMTT(30)
  <2> QED
    BY <1>0, <2>1, <2>2, <2>3, GivenCode, ZenonT(30)
<1>3. CASE Timeslice
  <2>1. /\ current = Driver /\ code[current] = << >> /\ stuck = None
        /\ code' = [t \in Tasks |-> IF t \in Busy THEN BusyCode ELSE code[t]]
        /\ armed' = TRUE /\ stage' = "slicing"
        /\ UNCHANGED <<current, holder, preemptCount, stuck>>
    BY <1>3, SMTT(30) DEF Timeslice, Idle
  <2>2. Free /\ Preemptible(code[current])
    BY <2>1, EmptyQuiet, Freely, SMTT(30)
  <2>3. \A t \in Tasks : /\ Disciplined(code'[t]) /\ Preemptible(code'[t])
                         /\ ~InRegion(code'[t], 1) /\ ~Holds(code'[t])
    BY <2>1, <2>2, BusyStarts, Zenon DEF LockInv, Free, Startable
  <2>4. (\A l \in Locks : holder'[l] = None) /\ preemptCount' = 0
    BY <2>1, <2>2, Zenon DEF Free
  <2> QED
    BY <1>0, <2>1, <2>3, <2>4, Rescheduled, SMTT(30)
<1>4. CASE Wait
  <2>1. /\ Idle(current) /\ code' = [code EXCEPT ![current] = WaitCode]
        /\ UNCHANGED <<current, holder, preemptCount, armed, stage, stuck>>
    BY <1>4, Zenon DEF Wait, Idle
  <2> QED
    BY <1>0, <2>1, WaitStarts, GivenCode, ZenonT(30)
<1>5. CASE PreemptRace
  <2>1. Idle(current) /\ UNCHANGED <<current, holder, preemptCount, stuck>> /\ current = Driver
    BY <1>5, SMTT(30) DEF PreemptRace, Idle
  <2>2. CASE stage = "guarded" /\ stage' = "prompt" /\ armed' = FALSE /\ code' = code
    BY <2>1, <2>2, Zenon DEF LockInv, Idle
  <2>3. CASE /\ stage' \in {"vulnerable", "guarded"} /\ armed' = TRUE
             /\ \E c \in {VulnerableCode, GuardedCode, BootGuardedCode} :
                   code' = [code EXCEPT ![Driver] = c]
    <3>1. PICK c \in {VulnerableCode, GuardedCode, BootGuardedCode} :
             code' = [code EXCEPT ![current] = c]
      BY <2>1, <2>3, ZenonT(30)
    <3>2. Startable(c) /\ Preemptible(c)
      BY <3>1, VulnerableStarts, GuardedStarts, BootGuardedStarts, Zenon
    <3> QED
      BY <2>1, <2>3, <3>1, <3>2, GivenCode, ZenonT(30)
  <2>4. \/ stage = "guarded" /\ stage' = "prompt" /\ armed' = FALSE /\ code' = code
        \/ /\ stage' \in {"vulnerable", "guarded"} /\ armed' = TRUE
           /\ \E c \in {VulnerableCode, GuardedCode, BootGuardedCode} :
                 code' = [code EXCEPT ![Driver] = c]
    <3>1. armed \in BOOLEAN
      BY Zenon DEF PreemptTypeOK
    <3> QED
      BY <1>0, <1>5, <3>1, Zenon DEF PreemptRace
  <2> QED
    BY <2>1, <2>2, <2>3, <2>4, ZenonT(60)
<1> QED
  BY <1>1, <1>2, <1>3, <1>4, <1>5, Zenon

\* The invariant of locks and regions, and what a switch of tasks leaves behind.
LEMMA LockStep ==
    ASSUME PreemptTypeOK, LockInv, [PreemptNext]_preemptVars
    PROVE  LockInv' /\ (current' # current => Free)
<1>1. CASE PreemptNext
  BY <1>1, InstructionLocks, InterruptLocks, IdleLocks, ZenonT(30) DEF PreemptNext, TaskStep
<1>2. CASE UNCHANGED preemptVars
  BY <1>2, Zenon DEF preemptVars, LockInv
<1> QED
  BY <1>1, <1>2, Zenon

-----------------------------------------------------------------------------
(* The windows *)

\* A window or region of a program that its rest is in.
LEMMA RestInside ==
    ASSUME NEW c \in Code, NEW p \in Code, RestOf(c, p), c # << >>, NEW a, NEW b
    PROVE  Inside(c, 1, a, b) <=> Inside(p, Len(p) - Len(c) + 1, a, b)
<1> DEFINE d == Len(p) - Len(c)
<1>1. /\ Len(c) \in Nat \ {0} /\ Len(p) \in Nat /\ d \in Nat
      /\ \A i \in 1 .. Len(c) : c[i] = p[d + i]
  BY TailCode DEF RestOf, Code
<1> HIDE DEF d
<1>2. d = Len(p) - Len(c)
  BY Zenon DEF d
<1>3. ASSUME Inside(c, 1, a, b) PROVE Inside(p, d + 1, a, b)
  <2>1. PICK j \in 1 .. Len(c) : c[j][1] = a /\ \A k \in 1 .. j : c[k][1] # b
    BY <1>3, Zenon DEF Inside
  <2>2. d + j \in d + 1 .. Len(p) /\ p[d + j][1] = a
    BY <1>1, <1>2, <2>1
  <2>3. ASSUME NEW k \in d + 1 .. d + j PROVE p[k][1] # b
    <3>1. k - d \in 1 .. j /\ k - d \in 1 .. Len(c) /\ d + (k - d) = k
      BY <1>1, <2>1, SMTT(30)
    <3> QED
      BY <1>1, <2>1, <3>1, ZenonT(30)
  <2> QED
    BY <2>2, <2>3, Zenon DEF Inside
<1>4. ASSUME Inside(p, d + 1, a, b) PROVE Inside(c, 1, a, b)
  <2>1. PICK j \in d + 1 .. Len(p) : p[j][1] = a /\ \A k \in d + 1 .. j : p[k][1] # b
    BY <1>4, Zenon DEF Inside
  <2>2. j - d \in 1 .. Len(c) /\ d + (j - d) = j
    BY <1>1, <1>2, <2>1
  <2>3. ASSUME NEW k \in 1 .. j - d PROVE c[k][1] # b
    <3>1. d + k \in d + 1 .. j /\ k \in 1 .. Len(c)
      BY <1>1, <1>2, <2>1, SMTT(30)
    <3> QED
      BY <1>1, <2>1, <3>1, ZenonT(60)
  <2>4. c[j - d][1] = a
    BY <1>1, <2>1, <2>2, Zenon
  <2> QED
    BY <2>2, <2>3, <2>4, Zenon DEF Inside
<1> QED
  BY <1>2, <1>3, <1>4, Zenon

\* Where the driver is in the first stage of preempt-race.
LEMMA VulnerableAt ==
    ASSUME NEW c \in Code, c # << >>, RestOf(c, VulnerableCode)
    PROVE  /\ Len(c) \in 1 .. 7 /\ Len(Tail(c)) = Len(c) - 1 /\ RestOf(Tail(c), VulnerableCode)
           /\ ~InRegion(c, 1) /\ ~Holds(c)
           /\ InWindow(c, 1) <=> Len(c) \in 2 .. 3
           /\ Len(c) = 7 <=> c[1][1] = "install"
           /\ Len(c) = 6 <=> c[1][1] = "arm_adversary"
           /\ Len(c) = 5 <=> c[1][1] = "reset"
           /\ Len(c) = 4 <=> c[1][1] = "open"
           /\ Len(c) = 3 <=> c[1][1] = "spin"
           /\ Len(c) = 2 <=> c[1][1] = "close"
           /\ Len(c) = 1 <=> c[1][1] = "use"
<1>1. /\ VulnerableCode \in Code /\ Len(VulnerableCode) = 7
      /\ \A i \in 1 .. 7 : ~InRegion(VulnerableCode, i)
      /\ \A i \in 1 .. 7 : InWindow(VulnerableCode, i) <=> i \in 5 .. 6
  BY VulnerableStarts, Zenon DEF Startable
<1>2. /\ RestOf(Tail(c), VulnerableCode) /\ c[1] = VulnerableCode[7 - Len(c) + 1]
      /\ 7 - Len(c) + 1 \in 1 .. 7 /\ Len(c) \in Nat \ {0} /\ Len(Tail(c)) = Len(c) - 1
  BY <1>1, RestNext, TailCode, ZenonT(30)
<1>3. /\ InRegion(c, 1) <=> InRegion(VulnerableCode, 7 - Len(c) + 1)
      /\ InWindow(c, 1) <=> InWindow(VulnerableCode, 7 - Len(c) + 1)
  BY <1>1, RestInside, Zenon DEF InRegion, InWindow
<1>4. ~InRegion(c, 1) /\ (InWindow(c, 1) <=> 7 - Len(c) + 1 \in 5 .. 6)
  BY <1>1, <1>2, <1>3, ZenonT(60)
<1>0. PICK n \in Nat : n = Len(c)
  BY <1>2, Zenon
<1>5. /\ n \in {1, 2, 3, 4, 5, 6, 7} /\ n \in 1 .. 7 /\ c[1] = VulnerableCode[8 - n]
      /\ (7 - n + 1 \in 5 .. 6 <=> n \in 2 .. 3)
  <2>1. n # 0 /\ 7 - n + 1 \in 1 .. 7 /\ c[1] = VulnerableCode[7 - n + 1]
    BY <1>0, <1>2, Zenon
  <2>2. 7 - n + 1 = 8 - n
    BY SMTT(30)
  <2> QED
    BY <2>1, <2>2, SMTT(30)
<1>6. /\ n = 7 => c[1][1] = "install"
      /\ n = 6 => c[1][1] = "arm_adversary"
      /\ n = 5 => c[1][1] = "reset"
      /\ n = 4 => c[1][1] = "open"
      /\ n = 3 => c[1][1] = "spin"
      /\ n = 2 => c[1][1] = "close"
      /\ n = 1 => c[1][1] = "use"
  BY <1>5, VulnerableStarts, SMTT(30)
<1>7. ~Holds(c)
  BY <1>5, <1>6, Zenon DEF Holds
<1>8. /\ n = 7 <=> c[1][1] = "install"
      /\ n = 6 <=> c[1][1] = "arm_adversary"
      /\ n = 5 <=> c[1][1] = "reset"
      /\ n = 4 <=> c[1][1] = "open"
      /\ n = 3 <=> c[1][1] = "spin"
      /\ n = 2 <=> c[1][1] = "close"
      /\ n = 1 <=> c[1][1] = "use"
  BY <1>5, <1>6, Zenon
<1>9. /\ InWindow(c, 1) <=> n \in 2 .. 3
  BY <1>0, <1>4, <1>5, Zenon
<1> QED
  BY <1>0, <1>2, <1>4, <1>5, <1>7, <1>8, <1>9, ZenonT(60)

\* Where it is in the second.
LEMMA GuardedAt ==
    ASSUME NEW c \in Code, c # << >>, NEW p \in {GuardedCode, BootGuardedCode}, RestOf(c, p)
    PROVE  /\ Len(c) \in 1 .. 9 /\ Len(Tail(c)) = Len(c) - 1 /\ RestOf(Tail(c), p)
           /\ Len(c) = 9 <=> c[1][1] = "install"
           /\ Len(c) = 8 <=> c[1][1] = "arm_adversary"
           /\ c[1][1] \notin {"yield", "compute", "done"}
<1>1. p \in Code /\ Len(p) = 9
  BY GuardedStarts, BootGuardedStarts, Zenon DEF Startable
<1>2. /\ RestOf(Tail(c), p) /\ c[1] = p[9 - Len(c) + 1]
      /\ 9 - Len(c) + 1 \in 1 .. 9 /\ Len(c) \in Nat \ {0} /\ Len(Tail(c)) = Len(c) - 1
  BY <1>1, RestNext, TailCode, ZenonT(30)
<1>0. PICK n \in Nat : n = Len(c)
  BY <1>2, ZenonT(30)
<1>3. n \in {1, 2, 3, 4, 5, 6, 7, 8, 9} /\ n \in 1 .. 9 /\ c[1] = p[10 - n]
  <2>1. n # 0 /\ 9 - n + 1 \in 1 .. 9 /\ c[1] = p[9 - n + 1]
    BY <1>0, <1>2, Zenon
  <2>2. 9 - n + 1 = 10 - n
    OBVIOUS
  <2> QED
    BY <2>1, <2>2
<1>4. /\ n = 9 => c[1][1] = "install"
      /\ n = 8 => c[1][1] = "arm_adversary"
      /\ n \in {1, 2, 3, 4, 5, 6, 7} =>
            c[1][1] \in {"reset", "enter", "open", "spin", "close", "exit", "use"}
  <2>1. CASE p = GuardedCode
    BY <1>3, <2>1, GuardedStarts, SMTT(30)
  <2>2. CASE p = BootGuardedCode
    BY <1>3, <2>2, BootGuardedStarts, SMTT(30)
  <2> QED
    BY <2>1, <2>2, Zenon
<1>5. /\ n = 9 <=> c[1][1] = "install"
      /\ n = 8 <=> c[1][1] = "arm_adversary"
      /\ c[1][1] \notin {"yield", "compute", "done"}
  BY <1>3, <1>4, Zenon
<1> QED
  BY <1>0, <1>2, <1>3, <1>5, ZenonT(30)

\* Only the driver waits for the compute tasks, and not in preempt-race.
LEMMA DoneByDriver ==
    ASSUME PreemptInv, Runs("done")
    PROVE  current = Driver /\ stage \notin {"vulnerable", "guarded"}
<1>1. code[current] \in Code /\ code[current] # << >> /\ code[current][1][1] = "done"
      /\ current \in Tasks
  BY Zenon DEF Runs
<1>2. 1 \in 1 .. Len(code[current])
  BY <1>1, TailCode
<1>3. current = Driver
  BY <1>1, <1>2, Zenon DEF PreemptInv, RaceInv, NoDemonstration
<1>4. stage # "vulnerable"
  <2> SUFFICES ASSUME stage = "vulnerable" PROVE FALSE
    BY Zenon
  <2>1. RestOf(code[current], VulnerableCode)
    BY <1>3, SMTT(30) DEF PreemptInv, RaceInv
  <2>2. Len(code[current]) \in 1 .. 7
    BY <1>1, <2>1, VulnerableAt, Zenon
  <2>3. PICK n \in 1 .. 7 : n = Len(code[current])
    BY <2>2, Zenon
  <2>4. n \in {1, 2, 3, 4, 5, 6, 7}
    BY SMTT(30)
  <2> QED
    BY <1>1, <2>1, <2>3, <2>4, VulnerableAt, ZenonT(60)
<1>5. stage # "guarded"
  BY <1>1, <1>3, GuardedAt, SMTT(30) DEF PreemptInv, RaceInv
<1> QED
  BY <1>3, <1>4, <1>5, Zenon

\* An instruction that does not open or close a window.
LEMMA WindowStays ==
    ASSUME PreemptInv, NEW op, Runs(op), op \notin {"open", "close"},
           stage' = stage \/ (stage \notin {"vulnerable", "guarded"} /\ stage' = "prompt"),
           inWindow' = inWindow,
           current' = current \/ op \in {"yield", "compute"}
    PROVE  WindowInv'
<1>1. \A t \in Tasks : WindowsInRegions(code'[t]) \/ (t = Driver /\ stage' = "vulnerable")
  BY CodeKept, SMTT(30) DEF PreemptInv, WindowInv
<1>2. /\ op \notin {"enter", "exit"} => (InRegion(Tail(code[current]), 1) <=> InRegion(code[current], 1))
      /\ InWindow(Tail(code[current]), 1) <=> InWindow(code[current], 1)
      /\ op = "enter" => ~InRegion(code[current], 1)
      /\ op = "exit" => ~InWindow(code[current], 1)
      /\ op \in {"yield", "compute"} => ~InRegion(code[current], 1)
      /\ code'[current] = Tail(code[current])
      /\ \A t \in Tasks \ {current} : code'[t] = code[t]
  BY Zenon DEF Runs, Executed
<1>3. Driver \in Tasks
  BY ZenonT(60) DEF Tasks
<1>4. CASE InWindow(code[current], 1) /\ InRegion(code[current], 1)
  BY <1>1, <1>2, <1>4, SMTT(30) DEF WindowInv
<1>5. CASE stage = "vulnerable" /\ InWindow(code[Driver], 1)
  <2>1. InWindow(code'[Driver], 1)
    BY <1>2, <1>3, <1>5, Zenon
  <2> QED
    BY <1>1, <1>5, <2>1, Zenon DEF WindowInv
<1> QED
  BY <1>1, <1>4, <1>5, SMTT(30) DEF PreemptInv, WindowInv

\* The code stays, and the processor changes hands outside the regions only.
LEMMA WindowSwitches ==
    ASSUME PreemptInv, UNCHANGED <<code, inWindow, stage>>, current' # current => Free
    PROVE  WindowInv'
<1>1. current \in Tasks
  BY Zenon DEF PreemptInv, PreemptTypeOK
<1> QED
  BY <1>1, Zenon DEF PreemptInv, WindowInv, Free

\* Every step keeps the IPC window inside the region of the task that opened it.
LEMMA WindowStep ==
    ASSUME PreemptInv, [PreemptNext]_preemptVars
    PROVE  WindowInv'
<1>0. PreemptTypeOK /\ LockInv /\ WindowInv /\ Driver \in Tasks /\ current \in Tasks
  BY Zenon DEF PreemptInv, PreemptTypeOK, Tasks
<1>1. CASE Lock \/ Unlock \/ EnterCritical \/ ExitCritical \/ Start \/ Prepare \/ Spin \/ Use
  <2>1. PICK op : /\ Runs(op) /\ op \notin {"open", "close"}
                  /\ UNCHANGED <<current, stage, inWindow>>
    BY <1>0, <1>1, Running, Zenon
       DEF Lock, Unlock, EnterCritical, ExitCritical, Start, Prepare, Spin, Use, race
  <2> QED
    BY <2>1, WindowStays, Zenon
<1>2. CASE YieldCpu \/ Compute
  <2>1. PICK op \in {"yield", "compute"} : Runs(op) /\ UNCHANGED <<stage, inWindow>>
    BY <1>0, <1>2, Running, Zenon DEF YieldCpu, Compute, race
  <2> QED
    BY <2>1, WindowStays, Zenon
<1>3. CASE Done
  <2>1. /\ Runs("done") /\ UNCHANGED <<current, inWindow>>
        /\ stage' = stage \/ stage' = "prompt"
    BY <1>0, <1>3, Running, Zenon DEF Done, race
  <2> QED
    BY <2>1, DoneByDriver, WindowStays, Zenon
<1>4. CASE Window
  <2>0. \A op : \A t \in Tasks : Runs(op) /\ stage' = stage =>
           WindowsInRegions(code'[t]) \/ (t = Driver /\ stage' = "vulnerable")
    BY <1>0, CodeKept, Zenon DEF WindowInv
  <2>1. CASE At("open") /\ inWindow' = TRUE
    <3>1. Runs("open") /\ UNCHANGED <<current, stage>>
      BY <1>0, <1>4, <2>1, Running, SMTT(30) DEF Window
    <3>2. /\ InWindow(code'[current], 1)
          /\ InRegion(code'[current], 1) <=> InRegion(code[current], 1)
      BY <3>1, SMTT(30) DEF Runs, Executed
    <3>3. 1 \in 1 .. Len(code[current]) /\ code[current][1][1] = "open"
      BY <3>1, TailCode DEF Runs
    <3>4. WindowsInRegions(code[current]) => InRegion(code[current], 1)
      BY <3>3, Zenon DEF WindowsInRegions
    <3>5. \/ InWindow(code'[current], 1) /\ InRegion(code'[current], 1)
          \/ stage = "vulnerable" /\ InWindow(code'[Driver], 1)
      BY <1>0, <3>2, <3>4, ZenonT(60) DEF WindowInv
    <3> QED
      BY <2>0, <3>1, <3>5, Zenon DEF WindowInv
  <2>2. CASE At("close") /\ inWindow' = FALSE
    <3>1. Runs("close") /\ UNCHANGED <<current, stage>>
      BY <1>0, <1>4, <2>2, Running, Zenon DEF Window
    <3> QED
      BY <2>0, <2>2, <3>1, Zenon DEF WindowInv
  <2> QED
    BY <1>4, <2>1, <2>2, Zenon DEF Window
<1>5. CASE Tick \/ Key \/ Fault
  <2>1. UNCHANGED <<code, inWindow, stage>>
    BY <1>5, Zenon DEF Tick, Key, Fault, race
  <2> QED
    BY <1>0, <1>5, <2>1, InterruptLocks, WindowSwitches, ZenonT(60)
<1>6. CASE Call
  <2>1. /\ Idle(current) /\ current # Driver /\ UNCHANGED <<current, stage, inWindow>>
        /\ \E c \in {PrintCode, SendCode, SendAsyncCode, ReceiveCode, TryReadCode,
                     RedirectedCode} : code' = [code EXCEPT ![current] = c]
    <3>1. Driver \notin Clients
      BY PreemptionConstants DEF Clients, Driver
    <3>2. current \in Clients /\ Idle(current) /\ UNCHANGED <<current, stage, inWindow>>
      BY <1>6, Zenon DEF Call, race
    <3>3. \E c \in {PrintCode, SendCode, SendAsyncCode, ReceiveCode, TryReadCode,
                   RedirectedCode} : code' = [code EXCEPT ![current] = c]
      BY <1>6, ZenonT(30) DEF Call
    <3> QED
      BY <3>1, <3>2, <3>3, ZenonT(30)
  <2>2. PICK c \in {PrintCode, SendCode, SendAsyncCode, ReceiveCode, TryReadCode,
                    RedirectedCode} : code' = [code EXCEPT ![current] = c]
    BY <2>1, Zenon
  <2>3. WindowsInRegions(c)
    BY <2>2, PrintStarts, SendStarts, SendAsyncStarts, ReceiveStarts, TryReadStarts,
       RedirectedStarts, ZenonT(60)
  <2>4. code'[current] = c /\ \A t \in Tasks \ {current} : code'[t] = code[t]
    BY <1>0, <2>2, Zenon DEF PreemptTypeOK
  <2>5. ~InWindow(code[current], 1)
    BY <2>1, EmptyQuiet, ZenonT(60) DEF Idle
  <2> QED
    BY <1>0, <2>1, <2>3, <2>4, <2>5, ZenonT(60) DEF WindowInv
<1>7. CASE Prompt \/ Timeslice \/ Wait \/ PreemptRace
  <2>1. current = Driver /\ code[Driver] = << >> /\ inWindow' = inWindow
    BY <1>7, SMTT(30) DEF Prompt, Timeslice, Wait, PreemptRace, Idle, race
  <2>2. ~inWindow
    BY <1>0, <2>1, EmptyQuiet, Zenon DEF WindowInv
  <2>3. \A t \in Tasks : WindowsInRegions(code'[t]) \/ (t = Driver /\ stage' = "vulnerable")
    <3>1. \A t \in Tasks : WindowsInRegions(code[t])
      BY <1>0, <2>1, EmptyQuiet, Zenon DEF WindowInv
    <3>2. CASE Timeslice
      BY <3>1, <3>2, BusyStarts, Zenon DEF Timeslice
    <3>3. CASE Prompt \/ Wait
      BY <1>0, <3>1, <3>3, ReadByteStarts, PrintStarts, RedirectStarts, WaitStarts, ZenonT(30)
         DEF Prompt, Wait, PreemptTypeOK
    <3>4. CASE PreemptRace
      BY <1>0, <3>1, <3>4, GuardedStarts, BootGuardedStarts, ZenonT(60) DEF PreemptRace, PreemptTypeOK
    <3> QED
      BY <1>7, <3>2, <3>3, <3>4, Zenon
  <2> QED
    BY <2>1, <2>2, <2>3, SMTT(30) DEF WindowInv
<1>8. CASE UNCHANGED preemptVars
  BY <1>0, <1>8, WindowSwitches, SMTT(30) DEF preemptVars, race
<1> QED
  BY <1>1, <1>2, <1>3, <1>4, <1>5, <1>6, <1>7, <1>8, ZenonT(30) DEF PreemptNext, TaskStep

-----------------------------------------------------------------------------
(* The race *)

\* The driver goes on in one of the stages of preempt-race.
LEMMA DriverRuns ==
    ASSUME PreemptInv, NEW op, Runs(op), current = Driver
    PROVE  /\ stage = "vulnerable" =>
                 /\ RestOf(code'[Driver], VulnerableCode)
                 /\ \E n \in 1 .. 7 : /\ Len(code[Driver]) = n /\ Len(code'[Driver]) = n - 1
                                      /\ n = 7 <=> op = "install"
                                      /\ n = 6 <=> op = "arm_adversary"
                                      /\ n = 5 <=> op = "reset"
                                      /\ n = 4 <=> op = "open"
                                      /\ n = 3 <=> op = "spin"
                                      /\ n = 2 <=> op = "close"
                                      /\ n = 1 <=> op = "use"
           /\ stage = "guarded" =>
                 /\ \/ RestOf(code'[Driver], GuardedCode)
                    \/ RestOf(code'[Driver], BootGuardedCode)
                 /\ \E n \in 1 .. 9 : /\ Len(code[Driver]) = n /\ Len(code'[Driver]) = n - 1
                                      /\ n = 9 <=> op = "install"
                                      /\ n = 8 <=> op = "arm_adversary"
                 /\ op \notin {"yield", "compute", "done"}
<1>1. /\ code[Driver] \in Code /\ code[Driver] # << >> /\ code[Driver][1][1] = op
      /\ code'[Driver] = Tail(code[Driver])
  BY Zenon DEF Runs
<1>2. CASE stage = "vulnerable"
  <2>1. RestOf(code[Driver], VulnerableCode)
    BY <1>2, Zenon DEF PreemptInv, RaceInv
  <2> QED
    BY <1>1, <1>2, <2>1, VulnerableAt, ZenonT(60)
<1>3. CASE stage = "guarded"
  <2>1. PICK p \in {GuardedCode, BootGuardedCode} : RestOf(code[Driver], p)
    BY <1>3, Zenon DEF PreemptInv, RaceInv
  <2> QED
    BY <1>1, <1>3, <2>1, GuardedAt, ZenonT(60)
<1> QED
  BY <1>2, <1>3, Zenon

\* What RaceInv says of a stage, with n instructions left.
FirstStage(n) ==
    /\ n \in 4 .. 6 => capThere /\ ~ownTick
    /\ n \in 4 .. 5 => pending /\ ~fired
    /\ n \in 1 .. 3 => /\ capThere <=> ~ownTick
                       /\ fired <=> ownTick
                       /\ pending <=> ~ownTick
    /\ n \in 2 .. 3 /\ ~ownTick => inWindow /\ current = Driver

SecondStage(n) == (n <= 8 => capThere) /\ (n <= 7 => pending /\ ~fired)

\* RaceInv, stage by stage.
LEMMA RaceStages ==
    RaceInv <=>
        /\ \A t \in Tasks \ {Driver} : NoDemonstration(code[t])
        /\ stage = "vulnerable" => /\ RestOf(code[Driver], VulnerableCode)
                                   /\ FirstStage(Len(code[Driver]))
        /\ stage = "guarded" => /\ \/ RestOf(code[Driver], GuardedCode)
                                   \/ RestOf(code[Driver], BootGuardedCode)
                                /\ SecondStage(Len(code[Driver]))
        /\ RaceVerdicts
BY ZenonT(60) DEF RaceInv, FirstStage, SecondStage

\* The other tasks never get code of the demonstrations.
LEMMA OthersOnly ==
    ASSUME PreemptInv, NEW op, Runs(op)
    PROVE  \A t \in Tasks \ {Driver} : NoDemonstration(code'[t])
BY CodeKept, SMTT(30) DEF PreemptInv, RaceInv

\* Another task executes: it has the processor because no window of the driver
\* is open in the first stage, or a tick has landed in it.
LEMMA RaceOthers ==
    ASSUME PreemptInv, current # Driver, code'[Driver] = code[Driver],
           \A t \in Tasks \ {Driver} : NoDemonstration(code'[t]),
           UNCHANGED <<stage, pending, fired, capThere, ownTick, verdict>>
    PROVE  RaceInv'
<1>1. RaceInv
  BY ZenonT(60) DEF PreemptInv
<1>2. stage' = "vulnerable" => FirstStage(Len(code[Driver]))'
  BY <1>1, RaceStages, SMTT(30) DEF FirstStage
<1>3. stage' = "guarded" => SecondStage(Len(code[Driver]))'
  BY <1>1, RaceStages, SMTT(30) DEF SecondStage
<1>4. RaceVerdicts'
  BY <1>1, SMTT(30) DEF RaceInv, RaceVerdicts
<1> QED
  BY <1>1, <1>2, <1>3, <1>4, ZenonT(30) DEF RaceInv, FirstStage, SecondStage

\* An instruction of the driver's that the race is not about.
LEMMA RaceQuiet ==
    ASSUME PreemptInv, current = Driver, NEW op, Runs(op),
           op \notin {"install", "arm_adversary", "reset", "open", "close", "use", "done"},
           UNCHANGED <<stage, inWindow, pending, fired, capThere, ownTick, verdict>>,
           current' = current \/ op \in {"yield", "compute"}
    PROVE  RaceInv'
<1>1. RaceInv
  BY Zenon DEF PreemptInv
<1>2. \A t \in Tasks \ {Driver} : NoDemonstration(code'[t])
  BY OthersOnly, Zenon
<1>3. ASSUME stage' = "vulnerable"
      PROVE  RestOf(code'[Driver], VulnerableCode) /\ FirstStage(Len(code[Driver]))'
  <2>1. PICK n \in 1 .. 7 : /\ Len(code[Driver]) = n /\ Len(code'[Driver]) = n - 1 /\ n = 3
                            /\ op = "spin" /\ RestOf(code'[Driver], VulnerableCode)
    <3>1. PICK n \in 1 .. 7 : /\ Len(code[Driver]) = n /\ Len(code'[Driver]) = n - 1
                              /\ n \notin {7, 6, 5, 4, 2, 1} /\ (n = 3 <=> op = "spin")
                              /\ RestOf(code'[Driver], VulnerableCode)
      BY <1>3, DriverRuns, SMTT(30)
    <3> QED
      BY <3>1, SMTT(30)
  <2>2. FirstStage(3)
    BY <1>1, <1>3, <2>1, ZenonT(60) DEF RaceInv, FirstStage
  <2>3. FirstStage(2)'
    BY <2>1, <2>2 DEF FirstStage
  <2> QED
    BY <2>1, <2>3, SMTT(30)
<1>4. ASSUME stage' = "guarded"
      PROVE  /\ RestOf(code'[Driver], GuardedCode) \/ RestOf(code'[Driver], BootGuardedCode)
             /\ SecondStage(Len(code[Driver]))'
  <2>1. PICK n \in 1 .. 9 : /\ Len(code[Driver]) = n /\ Len(code'[Driver]) = n - 1
                            /\ n # 9 /\ n # 8
    BY <1>4, DriverRuns, ZenonT(30)
  <2>2. SecondStage(n)
    BY <1>1, <1>4, <2>1, ZenonT(60) DEF RaceInv, SecondStage
  <2>3. SecondStage(n - 1)'
    BY <2>1, <2>2, SMTT(30) DEF SecondStage
  <2> QED
    BY <1>4, <2>1, <2>3, DriverRuns, ZenonT(60)
<1>5. RaceVerdicts'
  BY <1>1, Zenon DEF RaceInv, RaceVerdicts
<1> QED
  BY <1>2, <1>3, <1>4, <1>5, ZenonT(60) DEF RaceInv, FirstStage, SecondStage

\* The driver opens and closes its window.
LEMMA RaceWindow ==
    ASSUME PreemptInv, Window
    PROVE  RaceInv'
<1>0. PreemptTypeOK /\ LockInv /\ RaceInv /\ Driver \in Tasks
  BY Zenon DEF PreemptInv, Tasks
<1>1. PICK op \in {"open", "close"} : /\ Runs(op) /\ (op = "open" <=> inWindow')
                                      /\ UNCHANGED <<current, stage, pending, fired, capThere,
                                                     ownTick, verdict>>
  BY <1>0, Running, ZenonT(30) DEF Window
<1>2. \A t \in Tasks \ {Driver} : NoDemonstration(code'[t])
  BY <1>1, OthersOnly, SMTT(30)
<1>3. CASE current # Driver
  BY <1>0, <1>1, <1>2, <1>3, RaceOthers, SMTT(30) DEF Runs
<1>4. CASE current = Driver
  <2>1. ASSUME stage' = "vulnerable"
        PROVE  RestOf(code'[Driver], VulnerableCode) /\ FirstStage(Len(code[Driver]))'
    <3>1. PICK n \in 1 .. 7 : /\ Len(code[Driver]) = n /\ Len(code'[Driver]) = n - 1
                              /\ (n = 4 <=> op = "open") /\ (n = 2 <=> op = "close")
                              /\ RestOf(code'[Driver], VulnerableCode)
      BY <1>1, <1>4, <2>1, DriverRuns, SMTT(30)
    <3>2. FirstStage(n)
      BY <1>0, <1>1, <2>1, <3>1, ZenonT(30) DEF RaceInv, FirstStage
    <3>3. CASE op = "open"
      <4>1. n = 4 /\ inWindow' /\ current' = Driver
        BY <1>1, <1>4, <3>1, <3>3, ZenonT(60)
      <4>2. FirstStage(3)'
        BY <1>1, <3>2, <4>1, SMTT(30) DEF FirstStage
      <4> QED
        BY <3>1, <4>1, <4>2, SMTT(30)
    <3>4. CASE op = "close"
      <4>1. n = 2
        BY <1>1, <3>1, <3>4, ZenonT(30)
      <4>2. FirstStage(1)'
        BY <1>1, <3>2, <4>1, SMTT(30) DEF FirstStage
      <4> QED
        BY <3>1, <4>1, <4>2, SMTT(30)
    <3> QED
      BY <1>1, <3>3, <3>4, SMTT(30)
  <2>2. ASSUME stage' = "guarded"
        PROVE  /\ RestOf(code'[Driver], GuardedCode) \/ RestOf(code'[Driver], BootGuardedCode)
               /\ SecondStage(Len(code[Driver]))'
    <3>1. PICK n \in 1 .. 9 : /\ Len(code[Driver]) = n /\ Len(code'[Driver]) = n - 1
                              /\ n # 9 /\ n # 8
      BY <1>1, <1>4, <2>2, DriverRuns, ZenonT(30)
    <3>2. SecondStage(n)
      BY <1>0, <1>1, <2>2, <3>1, ZenonT(60) DEF RaceInv, SecondStage
    <3>3. SecondStage(n - 1)'
      BY <1>1, <3>1, <3>2, SMTT(30) DEF SecondStage
    <3> QED
      BY <1>1, <1>4, <2>2, <3>1, <3>3, DriverRuns, SMTT(30)
  <2>3. RaceVerdicts'
    BY <1>0, <1>1, SMTT(30) DEF RaceInv, RaceVerdicts
  <2> QED
    BY <1>2, <2>1, <2>2, <2>3, ZenonT(30) DEF RaceInv, FirstStage, SecondStage
<1> QED
  BY <1>3, <1>4, Zenon

\* The driver installs the capability and arms the revoker: the others do not.
LEMMA RacePrepare ==
    ASSUME PreemptInv, Prepare
    PROVE  RaceInv'
<1>0. PreemptTypeOK /\ LockInv /\ RaceInv /\ Driver \in Tasks
  BY Zenon DEF PreemptInv, Tasks
<1>1. PICK op \in {"install", "arm_adversary", "reset"} :
         /\ Runs(op) /\ ownTick' = FALSE /\ UNCHANGED <<current, stage, inWindow, verdict>>
         /\ op = "install" => capThere' = TRUE /\ UNCHANGED <<pending, fired>>
         /\ op = "arm_adversary" => pending' = TRUE /\ fired' = FALSE /\ capThere' = capThere
         /\ op = "reset" => UNCHANGED <<capThere, pending, fired>>
  BY <1>0, Running, SMTT(30) DEF Prepare
<1>2. current = Driver
  <2>1. 1 \in 1 .. Len(code[current]) /\ code[current][1][1] = op /\ current \in Tasks
    BY <1>1, TailCode, SMTT(30) DEF Runs
  <2> QED
    BY <1>0, <1>1, <2>1, SMTT(30) DEF RaceInv, NoDemonstration
<1>3. ASSUME stage' = "vulnerable"
      PROVE  RestOf(code'[Driver], VulnerableCode) /\ FirstStage(Len(code[Driver]))'
  <2>1. PICK n \in 1 .. 7 : /\ Len(code[Driver]) = n /\ Len(code'[Driver]) = n - 1
                            /\ (n = 7 <=> op = "install") /\ (n = 6 <=> op = "arm_adversary")
                            /\ (n = 5 <=> op = "reset") /\ RestOf(code'[Driver], VulnerableCode)
    BY <1>1, <1>2, <1>3, DriverRuns, SMTT(30)
  <2>2. FirstStage(n)
    BY <1>0, <1>1, <1>3, <2>1, ZenonT(30) DEF RaceInv, FirstStage
  <2>3. n \in 5 .. 7 /\ (n # 7 => capThere) /\ (n = 5 => pending /\ ~fired)
    BY <1>1, <2>1, <2>2, SMTT(30) DEF FirstStage
  <2>4. FirstStage(n - 1)'
    BY <1>1, <2>1, <2>3, SMTT(30) DEF FirstStage
  <2> QED
    BY <2>1, <2>4, SMTT(30)
<1>4. ASSUME stage' = "guarded"
      PROVE  /\ RestOf(code'[Driver], GuardedCode) \/ RestOf(code'[Driver], BootGuardedCode)
             /\ SecondStage(Len(code[Driver]))'
  <2>1. PICK n \in 1 .. 9 : /\ Len(code[Driver]) = n /\ Len(code'[Driver]) = n - 1
                            /\ (n = 9 <=> op = "install") /\ (n = 8 <=> op = "arm_adversary")
    BY <1>1, <1>2, <1>4, DriverRuns, ZenonT(30)
  <2>2. SecondStage(n)
    BY <1>0, <1>1, <1>4, <2>1, ZenonT(30) DEF RaceInv, SecondStage
  <2>3. SecondStage(n - 1)'
    BY <1>1, <2>1, <2>2, SMTT(30) DEF SecondStage
  <2> QED
    BY <1>1, <1>2, <1>4, <2>1, <2>3, DriverRuns, ZenonT(30)
<1>5. RaceVerdicts'
  BY <1>0, <1>1, ZenonT(60) DEF RaceInv, RaceVerdicts
<1>6. \A t \in Tasks \ {Driver} : NoDemonstration(code'[t])
  BY <1>1, OthersOnly, SMTT(30)
<1> QED
  BY <1>3, <1>4, <1>5, <1>6, SMTT(30) DEF RaceInv, FirstStage, SecondStage

\* The driver uses the capability.
LEMMA RaceUse ==
    ASSUME PreemptInv, Use
    PROVE  RaceInv'
<1>0. PreemptTypeOK /\ LockInv /\ RaceInv /\ Driver \in Tasks
  BY Zenon DEF PreemptInv, Tasks
<1>1. /\ Runs("use")
      /\ verdict' = [stage |-> stage, gone |-> ~capThere, fired |-> fired, tick |-> ownTick]
      /\ UNCHANGED <<current, stage, inWindow, pending, fired, capThere, ownTick>>
  BY <1>0, Running, ZenonT(30) DEF Use
<1>2. current = Driver
  <2>1. /\ code[current] \in Code /\ code[current] # << >> /\ code[current][1][1] = "use"
        /\ current \in Tasks
    BY <1>1, Zenon DEF Runs
  <2>2. 1 \in 1 .. Len(code[current])
    BY <2>1, FirstPosition, Zenon
  <2> QED
    BY <1>0, <2>1, <2>2, Zenon DEF RaceInv, NoDemonstration
<1>3. ASSUME stage = "vulnerable"
      PROVE  /\ RestOf(code'[Driver], VulnerableCode) /\ FirstStage(Len(code[Driver]))'
             /\ (capThere <=> ~ownTick) /\ (fired <=> ownTick)
  <2>1. PICK n \in 1 .. 7 : /\ Len(code[Driver]) = n /\ Len(code'[Driver]) = n - 1
                            /\ n = 1 /\ RestOf(code'[Driver], VulnerableCode)
    BY <1>1, <1>2, <1>3, DriverRuns, SMTT(30)
  <2>2. FirstStage(1)
    BY <1>0, <1>3, <2>1, ZenonT(30) DEF RaceInv, FirstStage
  <2>3. FirstStage(0)'
    BY DEF FirstStage
  <2>4. (capThere <=> ~ownTick) /\ (fired <=> ownTick)
    BY <2>2 DEF FirstStage
  <2> QED
    BY <2>1, <2>3, <2>4, SMTT(30)
<1>4. ASSUME stage = "guarded"
      PROVE  /\ RestOf(code'[Driver], GuardedCode) \/ RestOf(code'[Driver], BootGuardedCode)
             /\ SecondStage(Len(code[Driver]))' /\ capThere /\ ~fired
  <2>1. PICK n \in 1 .. 9 : /\ Len(code[Driver]) = n /\ Len(code'[Driver]) = n - 1
                            /\ n # 9 /\ n # 8
    BY <1>1, <1>2, <1>4, DriverRuns, SMTT(30)
  <2>2. SecondStage(n)
    BY <1>0, <1>4, <2>1, ZenonT(60) DEF RaceInv, SecondStage
  <2>3. SecondStage(n - 1)' /\ capThere /\ ~fired
    BY <1>1, <2>1, <2>2, SMTT(30) DEF SecondStage
  <2> QED
    BY <1>1, <1>2, <1>4, <2>1, <2>3, DriverRuns, ZenonT(30)
<1>5. RaceVerdicts'
  <2>1. /\ verdict'.stage = stage /\ (verdict'.gone <=> ~capThere)
        /\ (verdict'.fired <=> fired) /\ (verdict'.tick <=> ownTick)
    BY <1>1, Zenon
  <2> QED
    BY <1>3, <1>4, <2>1, ZenonT(60) DEF RaceVerdicts
<1>6. \A t \in Tasks \ {Driver} : NoDemonstration(code'[t])
  BY <1>1, OthersOnly, SMTT(30)
<1> QED
  BY <1>1, <1>3, <1>4, <1>5, <1>6, ZenonT(30) DEF RaceInv, FirstStage, SecondStage

\* The revoker runs in a tick only in the window of the first stage.
LEMMA FiresInWindow ==
    ASSUME PreemptInv, MaySwitch, inWindow
    PROVE  /\ stage = "vulnerable" /\ Len(code[Driver]) \in 2 .. 3
           /\ code[Driver] \in Code /\ code[Driver] # << >>
<1>1. ~InRegion(code[current], 1)
  BY DEF PreemptInv, LockInv, MaySwitch
<1>2. stage = "vulnerable" /\ InWindow(code[Driver], 1)
  BY <1>1, Zenon DEF PreemptInv, WindowInv
<1>3. code[Driver] \in Code /\ code[Driver] # << >>
  BY <1>2, EmptyQuiet, ZenonT(30) DEF PreemptInv, PreemptTypeOK, Tasks, Code
<1> QED
  BY <1>2, <1>3, VulnerableAt, SMTT(30) DEF PreemptInv, RaceInv

\* A tick.
LEMMA RaceTick ==
    ASSUME PreemptInv, Tick
    PROVE  RaceInv'
<1>0. /\ PreemptTypeOK /\ LockInv /\ RaceInv /\ Driver \in Tasks
      /\ {armed, inWindow, pending, fired, capThere, ownTick} \subseteq BOOLEAN
      /\ code[Driver] \in Code
  BY Zenon DEF PreemptInv, PreemptTypeOK, Tasks, Code
<1>1. /\ ownTick' = (ownTick \/ InOwnWindow)
      /\ UNCHANGED <<code, holder, preemptCount, armed, inWindow, stage, verdict, stuck>>
      /\ MaySwitch /\ Fires => ~capThere' /\ fired' /\ ~pending'
      /\ ~(MaySwitch /\ Fires) => UNCHANGED <<capThere, fired, pending>>
      /\ current' # current => MaySwitch
  BY Zenon DEF Tick
<1>2. \A t \in Tasks \ {Driver} : NoDemonstration(code'[t])
  BY <1>0, <1>1, ZenonT(30) DEF RaceInv
<1>3. ASSUME stage' = "vulnerable"
      PROVE  RestOf(code'[Driver], VulnerableCode) /\ FirstStage(Len(code[Driver]))'
  <2>1. RestOf(code[Driver], VulnerableCode) /\ FirstStage(Len(code[Driver]))
    BY <1>0, <1>1, <1>3, RaceStages, ZenonT(30)
  <2>2. CASE code[Driver] = << >>
    BY <1>1, <2>1, <2>2, SMTT(30) DEF FirstStage
  <2>3. CASE code[Driver] # << >>
    <3>1. PICK n \in 1 .. 7 : n = Len(code[Driver])
      BY <1>0, <2>1, <2>3, VulnerableAt, SMTT(30)
    <3>2. /\ ~InRegion(code[Driver], 1) /\ ~Holds(code[Driver])
          /\ n = 3 <=> code[Driver][1][1] = "spin"
          /\ n = 2 <=> code[Driver][1][1] = "close"
          /\ code[Driver][1] = Head(code[Driver])
      BY <1>0, <2>1, <2>3, <3>1, VulnerableAt, TailCode, ZenonT(30)
    <3>3. FirstStage(n)
      BY <2>1, <3>1, ZenonT(60)
    <3>4. InOwnWindow <=> current = Driver /\ n \in 2 .. 3
      <4>1. stage = "vulnerable"
        BY <1>1, <1>3, ZenonT(30)
      <4>2. n \in 2 .. 3 <=> n = 2 \/ n = 3
        BY <3>1, SMTT(30)
      <4>3. Head(code[Driver])[1] \in {"spin", "close"} <=> n = 2 \/ n = 3
        BY <3>2, ZenonT(30)
      <4> QED
        BY <2>3, <4>1, <4>2, <4>3, ZenonT(30) DEF InOwnWindow
    <3>5. CASE n \in 4 .. 7 \/ n = 1
      <4>1. ~(MaySwitch /\ Fires)
        <5>1. MaySwitch /\ Fires => n \in 2 .. 3
          BY <3>1, FiresInWindow, Zenon DEF Fires
        <5>2. n \notin 2 .. 3
          BY <3>5, SMTT(30)
        <5> QED
          BY <5>1, <5>2, ZenonT(30)
      <4>2. FirstStage(n)'
        BY <1>0, <1>1, <3>3, <3>4, <3>5, <4>1, SMTT(30) DEF FirstStage
      <4> QED
        BY <1>1, <2>1, <3>1, <4>2, Zenon
    <3>6. CASE n \in 2 .. 3 /\ ownTick
      <4>1. ~pending
        BY <3>3, <3>6 DEF FirstStage
      <4>2. ~(MaySwitch /\ Fires) /\ ownTick'
        BY <1>1, <3>6, <4>1, ZenonT(30) DEF Fires
      <4>3. FirstStage(n)'
        BY <1>1, <3>3, <3>6, <4>2, SMTT(30) DEF FirstStage
      <4> QED
        BY <1>1, <2>1, <3>1, <4>3, ZenonT(30)
    <3>7. CASE n \in 2 .. 3 /\ ~ownTick
      <4>1. inWindow /\ current = Driver /\ pending
        BY <3>3, <3>7, SMTT(30) DEF FirstStage
      <4>2. holder["SCHEDULER"] = None /\ preemptCount = 0
        BY <1>0, <3>2, <4>1, SMTT(30) DEF LockInv, Locks
      <4>3. armed
        BY <1>0, <1>1, <1>3, ZenonT(60) DEF LockInv
      <4>4. MaySwitch /\ Fires
        BY <4>1, <4>2, <4>3, ZenonT(30) DEF MaySwitch, Fires
      <4>5. ~capThere' /\ fired' /\ ~pending' /\ ownTick'
        BY <1>1, <3>4, <3>7, <4>1, <4>4, ZenonT(30)
      <4>6. FirstStage(n)'
        BY <3>7, <4>5, SMTT(30) DEF FirstStage
      <4> QED
        BY <1>1, <2>1, <3>1, <4>6, Zenon
    <3> QED
      BY <3>5, <3>6, <3>7, SMTT(30)
  <2> QED
    BY <2>2, <2>3, Zenon
<1>4. ASSUME stage' = "guarded"
      PROVE  /\ RestOf(code'[Driver], GuardedCode) \/ RestOf(code'[Driver], BootGuardedCode)
             /\ SecondStage(Len(code[Driver]))'
  <2>1. ~(MaySwitch /\ Fires)
    BY <1>1, <1>4, FiresInWindow, ZenonT(30) DEF Fires
  <2>2. /\ RestOf(code[Driver], GuardedCode) \/ RestOf(code[Driver], BootGuardedCode)
        /\ SecondStage(Len(code[Driver]))
    BY <1>0, <1>1, <1>4, RaceStages, ZenonT(60)
  <2>3. UNCHANGED <<code, capThere, fired, pending>>
    BY <1>1, <2>1, ZenonT(30)
  <2> QED
    BY <2>2, <2>3, Zenon DEF SecondStage
<1>5. RaceVerdicts'
  BY <1>0, <1>1, ZenonT(30) DEF RaceInv, RaceVerdicts
<1> QED
  BY <1>2, <1>3, <1>4, <1>5, SMTT(30) DEF RaceInv, FirstStage, SecondStage

\* The next thing an idle driver does.
LEMMA RaceIdle ==
    ASSUME PreemptInv, Prompt \/ Timeslice \/ Wait \/ PreemptRace
    PROVE  RaceInv'
<1>0. /\ PreemptTypeOK /\ RaceInv /\ Driver \in Tasks /\ code \in [Tasks -> Code]
      /\ current = Driver /\ verdict' = verdict
  BY ZenonT(30) DEF PreemptInv, PreemptTypeOK, Tasks, Code, Prompt, Timeslice, Wait, PreemptRace, Idle, race
<1>1. RaceVerdicts'
  BY <1>0, ZenonT(60) DEF RaceInv, RaceVerdicts
<1>2. CASE Prompt \/ Timeslice \/ Wait
  <2>1. stage' \in {"prompt", "slicing"}
    BY <1>2, SMTT(30) DEF Prompt, Timeslice, Wait
  <2>2. \A t \in Tasks \ {Driver} : NoDemonstration(code'[t])
    BY <1>0, <1>2, BusyStarts, SMTT(30) DEF Prompt, Timeslice, Wait, RaceInv
  <2> QED
    BY <1>1, <2>1, <2>2, SMTT(30) DEF RaceInv
<1>3. CASE PreemptRace
  <2>1. /\ stage' \in {"prompt", "vulnerable", "guarded"}
        /\ stage' = "vulnerable" => code'[Driver] = VulnerableCode
        /\ stage' = "guarded" => code'[Driver] \in {GuardedCode, BootGuardedCode}
        /\ \A t \in Tasks \ {Driver} : code'[t] = code[t]
    BY <1>0, <1>3, ZenonT(30) DEF PreemptRace
  <2>2. \A t \in Tasks \ {Driver} : NoDemonstration(code'[t])
    BY <1>0, <2>1, ZenonT(30) DEF RaceInv
  <2>3. stage' = "vulnerable" => /\ RestOf(code'[Driver], VulnerableCode)
                                 /\ Len(code'[Driver]) = 7
    BY <2>1, VulnerableStarts, RestOfItself, ZenonT(30) DEF Startable
  <2>4. stage' = "guarded" => /\ \/ RestOf(code'[Driver], GuardedCode)
                                 \/ RestOf(code'[Driver], BootGuardedCode)
                              /\ Len(code'[Driver]) = 9
    BY <2>1, GuardedStarts, BootGuardedStarts, RestOfItself, ZenonT(60) DEF Startable
  <2> QED
    <3>1. FirstStage(7)' /\ SecondStage(9)'
      BY DEF FirstStage, SecondStage
    <3>2. stage' = "vulnerable" => FirstStage(Len(code[Driver]))'
      BY <2>3, <3>1, ZenonT(30)
    <3>3. stage' = "guarded" => SecondStage(Len(code[Driver]))'
      BY <2>4, <3>1, ZenonT(30)
    <3> QED
      BY <1>1, <2>2, <2>3, <2>4, <3>2, <3>3, ZenonT(30) DEF RaceInv, FirstStage, SecondStage
<1> QED
  BY <1>2, <1>3, SMTT(30)

\* Every step keeps what is known of the demonstration.
LEMMA RaceStep ==
    ASSUME PreemptInv, [PreemptNext]_preemptVars
    PROVE  RaceInv'
<1>0. /\ PreemptTypeOK /\ LockInv /\ RaceInv /\ Driver \in Tasks /\ current \in Tasks
      /\ code \in [Tasks -> Code]
  BY ZenonT(30) DEF PreemptInv, PreemptTypeOK, Tasks, Code
<1>1. CASE \/ Lock \/ Unlock \/ EnterCritical \/ ExitCritical \/ Start \/ Spin
           \/ YieldCpu \/ Compute
  <2>1. PICK op :
           /\ Runs(op)
           /\ op \notin {"install", "arm_adversary", "reset", "open", "close", "use", "done"}
           /\ UNCHANGED <<stage, inWindow, pending, fired, capThere, ownTick, verdict>>
           /\ current' = current \/ op \in {"yield", "compute"}
    <3>1. CASE Lock
      BY <1>0, <3>1, Running, SMTT(30) DEF Lock, race
    <3>2. CASE Unlock
      BY <1>0, <3>2, Running, SMTT(30) DEF Unlock, race
    <3>3. CASE EnterCritical
      BY <1>0, <3>3, Running, SMTT(30) DEF EnterCritical, race
    <3>4. CASE ExitCritical
      BY <1>0, <3>4, Running, SMTT(30) DEF ExitCritical, race
    <3>5. CASE Start \/ Spin \/ YieldCpu \/ Compute
      BY <1>0, <3>5, Running, ZenonT(30) DEF Start, Spin, YieldCpu, Compute, race
    <3> QED
      BY <1>1, <3>1, <3>2, <3>3, <3>4, <3>5, ZenonT(30)
  <2>2. CASE current = Driver
    BY <2>1, <2>2, RaceQuiet, SMTT(30)
  <2>3. CASE current # Driver
    <3>1. code'[Driver] = code[Driver]
      BY <1>0, <2>1, <2>3, ZenonT(60) DEF Runs
    <3> QED
      BY <2>1, <2>3, <3>1, OthersOnly, RaceOthers, SMTT(30)
  <2> QED
    BY <2>2, <2>3, Zenon
<1>2. CASE Done
  <2>1. Runs("done") /\ stage' \in {stage, "prompt"} /\ verdict' = verdict
    BY <1>0, <1>2, Running, Zenon DEF Done, race
  <2>2. stage' \notin {"vulnerable", "guarded"}
    BY <2>1, DoneByDriver, ZenonT(30)
  <2>3. RaceVerdicts'
    BY <1>0, <2>1, ZenonT(30) DEF RaceInv, RaceVerdicts
  <2> QED
    BY <2>1, <2>2, <2>3, OthersOnly, ZenonT(30) DEF RaceInv
<1>3. CASE Call \/ Fault
  <2>1. Driver \notin Clients
    BY PreemptionConstants, SMTT(30) DEF Clients, Driver
  <2>2. /\ current \in Clients
        /\ UNCHANGED <<stage, inWindow, pending, fired, capThere, ownTick, verdict>>
    BY <1>3, ZenonT(30) DEF Call, Fault, race
  <2>3. /\ code'[Driver] = code[Driver]
        /\ \A t \in Tasks \ {Driver} : NoDemonstration(code'[t])
    <3>1. CASE Fault
      BY <1>0, <3>1, SMTT(30) DEF Fault, RaceInv
    <3>2. CASE Call
      <4>1. PICK c \in {PrintCode, SendCode, SendAsyncCode, ReceiveCode, TryReadCode,
                        RedirectedCode} : code' = [code EXCEPT ![current] = c]
        BY <3>2, ZenonT(30) DEF Call
      <4>2. NoDemonstration(c)
        BY <4>1, PrintStarts, SendStarts, SendAsyncStarts, ReceiveStarts, TryReadStarts,
           RedirectedStarts, SMTT(30)
      <4> QED
        BY <1>0, <2>1, <2>2, <4>1, <4>2, ZenonT(30) DEF RaceInv
    <3> QED
      BY <1>3, <3>1, <3>2, SMTT(30)
  <2> QED
    BY <2>1, <2>2, <2>3, RaceOthers, SMTT(30)
<1>4. CASE Key \/ UNCHANGED preemptVars
  <2>1. UNCHANGED <<code, current, stage, inWindow, pending, fired, capThere, ownTick, verdict>>
    BY <1>4, ZenonT(30) DEF Key, preemptVars, race
  <2> QED
    BY <1>0, <2>1, ZenonT(30) DEF RaceInv, RaceVerdicts
<1> QED
  BY <1>1, <1>2, <1>3, <1>4, RaceWindow, RacePrepare, RaceUse, RaceTick, RaceIdle, ZenonT(30)
     DEF PreemptNext, TaskStep

-----------------------------------------------------------------------------
(* The types *)

\* Every step keeps the types.
LEMMA TypeStep ==
    ASSUME PreemptInv, [PreemptNext]_preemptVars
    PROVE  PreemptTypeOK'
<1>0. /\ PreemptTypeOK /\ LockInv /\ current \in Tasks /\ code \in [Tasks -> Code]
      /\ holder \in [Locks -> Tasks \cup {None}]
      /\ Driver \in Tasks
  BY ZenonT(30) DEF PreemptInv, PreemptTypeOK, Code, Tasks
<1>1. preemptCount' \in {0, 1}
  BY <1>0, LockStep, Zenon DEF LockInv
<1>2. current' \in Tasks
  <2>1. (\E st : Reschedule(st)) \/ current' = current
    BY Zenon DEF PreemptNext, TaskStep, Lock, Unlock, EnterCritical, ExitCritical, Window, YieldCpu,
           Start, Compute, Prepare, Spin, Use, Done, Call, Prompt, Timeslice, Wait,
           PreemptRace, Tick, Key, Fault, preemptVars
  <2> QED
    BY <1>0, <2>1, PickTask, ZenonT(30)
<1>3. code' \in [Tasks -> Code]
  <2>1. ASSUME NEW op, At(op) PROVE code' \in [Tasks -> Code]
    BY <1>0, <2>1, Running, Zenon DEF Runs
  <2>2. ASSUME NEW c, Startable(c), NEW t, code' = [code EXCEPT ![t] = c]
        PROVE  code' \in [Tasks -> Code]
    BY <1>0, <2>2, ZenonT(30) DEF Startable
  <2>3. CASE Call
    <3>1. PICK c \in {PrintCode, SendCode, SendAsyncCode, ReceiveCode, TryReadCode,
                      RedirectedCode} : code' = [code EXCEPT ![current] = c]
      BY <2>3, ZenonT(30) DEF Call
    <3> QED
      BY <2>2, <3>1, PrintStarts, SendStarts, SendAsyncStarts, ReceiveStarts, TryReadStarts,
         RedirectedStarts, ZenonT(30)
  <2>4. CASE Prompt \/ Wait \/ PreemptRace
    <3>1. \/ \E c \in {ReadByteCode, PrintCode, RedirectCode, WaitCode, VulnerableCode,
                       GuardedCode, BootGuardedCode} : code' = [code EXCEPT ![Driver] = c]
          \/ code' = code
      BY <2>4, ZenonT(30) DEF Prompt, Wait, PreemptRace
    <3> QED
      BY <1>0, <2>2, <3>1, ReadByteStarts, PrintStarts, RedirectStarts, WaitStarts,
         VulnerableStarts, GuardedStarts, BootGuardedStarts, ZenonT(30)
  <2>5. CASE Timeslice
    BY <1>0, <2>5, BusyStarts, ZenonT(30) DEF Timeslice, Startable
  <2>6. CASE Tick \/ Key \/ Fault \/ UNCHANGED preemptVars
    BY <1>0, <2>6, ZenonT(30) DEF Tick, Key, Fault, preemptVars
  <2>7. CASE \/ Lock \/ Unlock \/ EnterCritical \/ ExitCritical \/ Window \/ YieldCpu
             \/ Start \/ Compute \/ Prepare \/ Spin \/ Use \/ Done
    BY <2>1, <2>7, ZenonT(30) DEF Lock, Unlock, EnterCritical, ExitCritical, Window, YieldCpu,
       Start, Compute, Prepare, Spin, Use, Done
  <2> QED
    BY <2>3, <2>4, <2>5, <2>6, <2>7, ZenonT(30) DEF PreemptNext, TaskStep
<1>4. holder' \in [Locks -> Tasks \cup {None}]
  <2>1. CASE Lock \/ Unlock
    BY <1>0, <2>1, Zenon DEF Lock, Unlock
  <2>2. CASE ~(Lock \/ Unlock)
    <3>1. holder' = holder
      BY <2>2, ZenonT(30) DEF PreemptNext, TaskStep, EnterCritical, ExitCritical, Window, YieldCpu,
           Start, Compute, Prepare, Spin, Use, Done, Call, Prompt, Timeslice, Wait,
           PreemptRace, Tick, Key, Fault, preemptVars
    <3> QED
      BY <1>0, <3>1, ZenonT(30)
  <2> QED
    BY <2>1, <2>2, ZenonT(30)
<1>5. stage' \in {"prompt", "slicing", "vulnerable", "guarded"}
  <2>1. stage' \in {stage, "prompt", "slicing", "vulnerable", "guarded"}
    BY Zenon DEF PreemptNext, TaskStep, Lock, Unlock, EnterCritical, ExitCritical, Window, YieldCpu,
           Start, Compute, Prepare, Spin, Use, Done, Call, Prompt, Timeslice, Wait,
           PreemptRace, Tick, Key, Fault, preemptVars
  <2> QED
    BY <1>0, <2>1, ZenonT(30) DEF PreemptTypeOK
<1>6. {armed', inWindow', pending', fired', capThere', ownTick'} \subseteq BOOLEAN
  <2>1. {armed, inWindow, pending, fired, capThere, ownTick} \subseteq BOOLEAN
    BY <1>0, Zenon DEF PreemptTypeOK
  <2>2. CASE Tick
    BY <2>1, <2>2, ZenonT(30) DEF Tick
  <2>3. CASE ~Tick
    BY <2>1, <2>3, ZenonT(30) DEF PreemptNext, TaskStep, Lock, Unlock, EnterCritical, ExitCritical, Window,
           YieldCpu, Start, Compute, Prepare, Spin, Use, Done, Call, Prompt, Timeslice, Wait,
           PreemptRace, Key, Fault, preemptVars, race
  <2> QED
    BY <2>2, <2>3, ZenonT(30)
<1> QED
  BY <1>1, <1>2, <1>3, <1>4, <1>5, <1>6, SMTT(30) DEF PreemptTypeOK, Code

-----------------------------------------------------------------------------
(* What holds in every reachable state *)

\* The shell at its prompt, with preemption disarmed.
LEMMA InitPreempt == PreemptInit => PreemptInv
<1> SUFFICES ASSUME PreemptInit PROVE PreemptInv
  BY Zenon
<1>1. Driver \in Tasks
  BY Zenon DEF Tasks
<1>2. \A t \in Tasks : code[t] = << >>
  BY Zenon DEF PreemptInit
<1>3. PreemptTypeOK
  BY <1>1, EmptyQuiet, ZenonT(30) DEF PreemptInit, PreemptTypeOK, Code
<1>4. LockInv
  BY <1>1, <1>2, EmptyQuiet, SMTT(30) DEF PreemptInit, LockInv
<1>5. WindowInv
  BY <1>2, EmptyQuiet, SMTT(30) DEF PreemptInit, WindowInv
<1>6. RaceInv
  BY <1>2, EmptyQuiet, ZenonT(30) DEF PreemptInit, RaceInv, RaceVerdicts
<1> QED
  BY <1>3, <1>4, <1>5, <1>6, ZenonT(30) DEF PreemptInv

\* Only the task that executes has locks or is in a region, and the revoker of
\* preempt-race strikes in the preemptible window alone: the inductive invariant
\* of the instructions, the timer, the keyboard and the exceptions, for any
\* number of tasks.
THEOREM Discipline == PreemptSpec => []PreemptInv
<1>1. PreemptInv /\ [PreemptNext]_preemptVars => PreemptInv'
  BY TypeStep, LockStep, WindowStep, RaceStep, ZenonT(30) DEF PreemptInv
<1> QED
  BY <1>1, InitPreempt, PTL DEF PreemptSpec

\* Nobody spins on a lock but the keyboard's handler, when a key arrives in
\* the middle of try_read (preempt_reschedule, _print, keyboard_isr).
THEOREM NoSpinning == PreemptSpec => []NobodySpins
<1>1. PreemptInv => NobodySpins
  <2> SUFFICES ASSUME PreemptInv PROVE NobodySpins
    BY Zenon
  <2>1. /\ current \in Tasks /\ code[current] \in Code /\ LockInv
        /\ Disciplined(code[current])
    BY ZenonT(30) DEF PreemptInv, PreemptTypeOK, LockInv, Code
  <2>2. ASSUME code[current] # << >>, Head(code[current])[1] = "lock"
        PROVE  holder[Head(code[current])[2]] = None
    <3>1. Head(code[current]) = code[current][1] /\ 1 \in 1 .. Len(code[current])
      BY <2>1, <2>2, FirstPosition, ZenonT(30)
    <3>2. code[current][1][2] \in Locks
      BY <2>1, <2>2, <3>1, ZenonT(30) DEF Disciplined
    <3>3. ~Holds(code[current])
      BY <2>2, <3>1, SMTT(30) DEF Holds
    <3> QED
      BY <2>1, <3>1, <3>2, <3>3, ZenonT(30) DEF LockInv
  <2> QED
    BY <2>1, <2>2, ZenonT(30) DEF NobodySpins, LockInv
<1> QED
  BY <1>1, Discipline, PTL

\* What `sched preempt-race` and the boot demonstration report is what the
\* preemptible and the non-preemptible window do.
THEOREM Verdicts == PreemptSpec => []RaceVerdicts
<1>1. PreemptInv => RaceVerdicts
  BY Zenon DEF PreemptInv, RaceInv
<1> QED
  BY <1>1, Discipline, PTL

\* The processor changes hands only outside regions and critical sections
\* (on_tick_should_switch, preempt_reschedule, yield_cpu).
THEOREM SwitchesOutside == PreemptSpec => SwitchesOutsideRegions
<1>1. PreemptInv /\ [PreemptNext]_preemptVars =>
         [current' # current => preemptCount = 0 /\ \A l \in Locks : holder[l] = None]_preemptVars
  BY LockStep, Zenon DEF PreemptInv, Free
<1> QED
  BY <1>1, Discipline, PTL DEF PreemptSpec, SwitchesOutsideRegions

-----------------------------------------------------------------------------
(* Revocation in one critical section *)

\* The cells are finitely many.
LEMMA CellsFinite == IsFiniteSet(Cells) /\ Cardinality(Cells) = NCells
<1>1. NCells - 1 \in Int /\ 0 \in Int
  BY RevocationConstants
<1> QED
  BY <1>1, RevocationConstants, FS_Interval, SMTT(30) DEF Cells

\* At most NCells - 1 cells besides the root's own can be emptied.
LEMMA OtherCells ==
    ASSUME NEW c \in Cells, NEW D \in SUBSET (Cells \ {c})
    PROVE  IsFiniteSet(D) /\ Cardinality(D) \in Nat /\ Cardinality(D) <= NCells - 1
<1>1. IsFiniteSet(Cells \ {c}) /\ Cardinality(Cells \ {c}) = NCells - 1
  BY CellsFinite, FS_RemoveElement, SMTT(30)
<1>2. IsFiniteSet(D) /\ Cardinality(D) <= Cardinality(Cells \ {c})
  BY <1>1, FS_Subset, Zenon
<1> QED
  BY <1>1, <1>2, FS_CardinalityType, SMTT(30)

\* The tables before the first revocation.
LEMMA InitInv == Init => IndInv
<1> SUFFICES ASSUME Init PROVE IndInv
  BY Zenon
<1>1. revoked \in Seq(Ids) /\ Len(revoked) = 0
  BY DEF Init
<1>2. table \in Tables /\ before \in Tables /\ running \in BOOLEAN /\ changed \in BOOLEAN /\ ~running
  BY ZenonT(60) DEF Init
<1>3. pos \in 0 .. NCells /\ Len(revoked) <= REVOKED_IDS_CAP /\ Len(revoked) < REVOKED_IDS_CAP
  BY <1>1, RevocationConstants, SMTT(30) DEF Init, REVOKED_IDS_CAP
<1> QED
  BY <1>1, <1>2, <1>3, ZenonT(60) DEF IndInv, TypeOK, NeverTruncated

\* IsRevoked after the step, of an id that is known before it.
IsRevokedNext(i) == \E n \in 1 .. Len(revoked') : revoked'[n] = i

\* kernel_revoke and the seeding of REVOKED_IDS start a cascade.
LEMMA BeginInv ==
    ASSUME IndInv, NEW c \in Cells, Begin(c)
    PROVE  IndInv'
<1> USE DEF IndInv
<1>1. table[c] \in Cap /\ table[c].id \in Ids
  BY Zenon DEF TypeOK, Tables, Cap, Begin
<1>2. /\ before' = table /\ table' = [table EXCEPT ![c] = NoCap] /\ revoked' = <<table[c].id>>
      /\ pos' = 0 /\ changed' = FALSE /\ running' = TRUE
  BY ZenonT(30) DEF Begin
<1>3. TypeOK' /\ NeverTruncated'
  <2>1. revoked' \in Seq(Ids) /\ Len(revoked') = 1
    BY <1>1, <1>2, SMTT(30)
  <2>2. table' \in Tables /\ before' \in Tables
    BY <1>2, Zenon DEF TypeOK, Tables
  <2>3. running' \in BOOLEAN /\ changed' \in BOOLEAN
    BY <1>2, ZenonT(60)
  <2>4. /\ pos' \in 0 .. NCells
        /\ Len(revoked') <= REVOKED_IDS_CAP /\ Len(revoked') < REVOKED_IDS_CAP
    BY <1>2, <2>1, RevocationConstants, SMTT(30) DEF REVOKED_IDS_CAP
  <2> QED
    BY <2>1, <2>2, <2>3, <2>4, ZenonT(60) DEF TypeOK, NeverTruncated, REVOKED_IDS_CAP
<1>4. Removed(c)' = {}
  BY <1>2, Zenon DEF TypeOK, Tables, Removed
<1>5. Len(revoked') = 1 /\ revoked'[1] = table[c].id
  BY <1>2, ZenonT(60)
<1>6. Len(revoked') = 1 + Cardinality(Removed(c)')
  BY <1>4, <1>5, FS_EmptySet, SMTT(30)
<1>7. Cascade(c)'
  <2>1. before'[c] # NoCap /\ table'[c] = NoCap /\ IsRevokedNext(before'[c].id)
    BY <1>2, <1>5, SMTT(30) DEF Begin, TypeOK, Tables, IsRevokedNext
  <2>2. \A d \in Cells : table'[d] = before'[d] \/ table'[d] = NoCap
    BY <1>2, ZenonT(60) DEF TypeOK, Tables
  <2>3. \A S \in SUBSET Ids :
            before'[c].id \in S => \A n \in 1 .. Len(revoked') : revoked'[n] \in S
    BY <1>2, <1>5, SMTT(30)
  <2> QED
    BY <1>2, <1>4, <1>6, <2>1, <2>2, <2>3, SMTT(30) DEF Cascade, IsRevoked, IsRevokedNext
<1> QED
  BY <1>3, <1>7, SMTT(30)

\* A visit that removes a derived capability, or passes a cell by.
LEMMA VisitInv ==
    ASSUME IndInv, Visit
    PROVE  IndInv'
<1> USE DEF IndInv
<1>1. running /\ pos \in Cells /\ pos' = pos + 1 /\ UNCHANGED <<before, running>>
  BY RevocationConstants DEF Visit, TypeOK, Cells
<1>2. PICK c \in Cells : Cascade(c)
  BY <1>1, Zenon
<1>3. pos \in Int /\ pos' \in 0 .. NCells /\ \A d \in 0 .. (pos' - 1) : d \in 0 .. (pos - 1) \/ d = pos
  BY <1>1, RevocationConstants, SMTT(30) DEF TypeOK, Cells
<1>4. Len(revoked) \in Nat /\ \A n \in 1 .. Len(revoked) : revoked[n] \in Ids
  BY DEF TypeOK
<1>5. CASE UNCHANGED <<table, revoked, changed>>
            /\ (table[pos] # NoCap => table[pos].origin = 0 \/ ~IsRevoked(table[pos].origin))
  <2>1. ~IsRevoked(0)
    BY <1>4, RevocationConstants, SMTT(30) DEF IsRevoked, Ids
  <2>2. ~changed => \A d \in 0 .. (pos' - 1) : table[d] # NoCap => ~IsRevoked(table[d].origin)
    BY <1>2, <1>3, <1>5, <2>1, ZenonT(60) DEF Cascade
  <2>3. Removed(c)' = Removed(c)
    BY <1>1, <1>5, SMTT(30) DEF Removed
  <2>4. Cascade(c)'
    BY <1>1, <1>2, <1>5, <2>2, <2>3, ZenonT(30) DEF Cascade, IsRevoked
  <2>5. TypeOK' /\ NeverTruncated'
    BY <1>1, <1>3, <1>5, ZenonT(30) DEF TypeOK, NeverTruncated
  <2> QED
    BY <2>4, <2>5, SMTT(30)
<1>6. CASE /\ table[pos] # NoCap /\ IsRevoked(table[pos].origin)
           /\ table' = [table EXCEPT ![pos] = NoCap]
           /\ revoked' = Append(revoked, table[pos].id)
           /\ changed' = TRUE
  <2>1. /\ table[pos] = before[pos] /\ pos # c
        /\ before[pos] \in Cap /\ before[pos].id \in Ids
    BY <1>1, <1>2, <1>6, SMTT(30) DEF Cascade, TypeOK, Tables, Cap
  <2>2. /\ Len(revoked') = Len(revoked) + 1
        /\ revoked'[Len(revoked')] = before[pos].id
        /\ \A n \in 1 .. Len(revoked) : revoked'[n] = revoked[n]
        /\ \A n \in 1 .. Len(revoked') : n \in 1 .. Len(revoked) \/ n = Len(revoked')
    BY <1>4, <1>6, <2>1, SMTT(30) DEF TypeOK
  <2>3. \A i : IsRevoked(i) => IsRevokedNext(i)
    BY <1>4, <2>2, SMTT(30) DEF IsRevoked, IsRevokedNext
  <2>4. IsRevokedNext(before[pos].id)
    BY <1>4, <2>2, SMTT(30) DEF IsRevokedNext
  <2>5. Removed(c)' = Removed(c) \cup {pos} /\ pos \notin Removed(c)
    BY <1>1, <1>6, <2>1, SMTT(30) DEF Removed, TypeOK, Tables
  <2>6. Removed(c) \in SUBSET (Cells \ {c}) /\ Removed(c)' \in SUBSET (Cells \ {c})
    BY ZenonT(30) DEF Removed
  <2>7. IsFiniteSet(Removed(c)) /\ Cardinality(Removed(c)) \in Nat
    BY <2>6, OtherCells, SMTT(30)
  <2>8. Cardinality(Removed(c)') = Cardinality(Removed(c)) + 1
    BY <2>5, <2>7, FS_AddElement, SMTT(30)
  <2>9. Cascade(c)'
    <3>1. before'[c] # NoCap /\ table'[c] = NoCap /\ IsRevokedNext(before[c].id)
      BY <1>1, <1>2, <1>6, <2>3, ZenonT(30) DEF Cascade, TypeOK, Tables
    <3>2. \A d \in Cells : table'[d] = before'[d] \/ table'[d] = NoCap
      BY <1>1, <1>2, <1>6, ZenonT(30) DEF Cascade, TypeOK, Tables
    <3>3. \A d \in Removed(c)' : IsRevokedNext(before[d].origin) /\ IsRevokedNext(before[d].id)
      BY <1>1, <1>2, <1>6, <2>1, <2>3, <2>4, <2>5, ZenonT(30) DEF Cascade
    <3>4. ASSUME NEW S \in SUBSET Ids, before[c].id \in S, ClosedUnderLineage(before, S)
          PROVE  \A n \in 1 .. Len(revoked') : revoked'[n] \in S
      <4>1. \A n \in 1 .. Len(revoked) : revoked[n] \in S
        BY <1>2, <3>4, Zenon DEF Cascade
      <4>2. before[pos].origin \in S
        BY <1>6, <2>1, <4>1, Zenon DEF IsRevoked
      <4>3. before[pos].id \in S
        BY <1>1, <1>6, <2>1, <3>4, <4>2, ZenonT(30) DEF ClosedUnderLineage
      <4> QED
        BY <2>2, <4>1, <4>3, ZenonT(30)
    <3>5. Len(revoked') = 1 + Cardinality(Removed(c)')
      <4>1. Len(revoked) = 1 + Cardinality(Removed(c))
        BY <1>2, Zenon DEF Cascade
      <4>2. Len(revoked') = Len(revoked) + 1
        BY <2>2, ZenonT(60)
      <4> QED
        BY <2>7, <2>8, <4>1, <4>2, SMTT(30)
    <3> QED
      BY <1>1, <1>6, <3>1, <3>2, <3>3, <3>4, <3>5, ZenonT(60) DEF Cascade, IsRevoked, IsRevokedNext
  <2>10. TypeOK'
    BY <1>1, <1>3, <1>4, <1>6, <2>1, <2>2, RevocationConstants, SMTT(30)
       DEF TypeOK, Tables, NeverTruncated, REVOKED_IDS_CAP
  <2>11. NeverTruncated'
    <3>1. Cardinality(Removed(c)') \in Nat /\ Cardinality(Removed(c)') <= NCells - 1
      BY <2>6, OtherCells, SMTT(30)
    <3>2. Len(revoked') = 1 + Cardinality(Removed(c)')
      BY <2>9, SMTT(30) DEF Cascade
    <3> QED
      BY <3>1, <3>2, RevocationConstants, SMTT(30) DEF NeverTruncated, REVOKED_IDS_CAP
  <2> QED
    BY <2>9, <2>10, <2>11, SMTT(30)
<1> QED
  BY <1>5, <1>6, ZenonT(60) DEF Visit, NeverTruncated

\* What a finished cascade leaves in the tables is what Revocation's one step
\* leaves: REVOKED_IDS is closed under lineage because the last pass changed
\* nothing, and least because only descendants of the root were added.
LEMMA FixpointReached ==
    ASSUME TypeOK, NEW c \in Cells, Cascade(c), pos = NCells, ~changed
    PROVE  table = Wiped(before, c, RevokedIds(before, before[c].id))
<1> DEFINE gone == {i \in Ids : IsRevoked(i)}
           root == before[c].id
<1>a. /\ before \in [Cells -> Cap \cup {NoCap}] /\ table \in [Cells -> Cap \cup {NoCap}]
      /\ \A d \in Cells : before[d] # NoCap => before[d].id \in Ids /\ before[d].origin \in Ids \cup {0}
      /\ Len(revoked) \in Nat /\ \A n \in 1 .. Len(revoked) : revoked[n] \in Ids
  BY SMTT(30) DEF TypeOK, Tables, Cap
<1>b. ~IsRevoked(0)
  BY <1>a, RevocationConstants, SMTT(30) DEF IsRevoked, Ids
<1>1. \A d \in Cells : table[d] # NoCap => ~IsRevoked(table[d].origin)
  BY RevocationConstants, SMTT(30) DEF Cascade, Cells
<1>2. ClosedUnderLineage(before, gone)
  <2> SUFFICES ASSUME NEW d \in Cells, before[d] # NoCap, IsRevoked(before[d].origin)
               PROVE  IsRevoked(before[d].id)
    BY <1>a, SMTT(30) DEF ClosedUnderLineage
  <2>1. table[d] = NoCap
    BY <1>1, SMTT(30) DEF Cascade
  <2> QED
    BY <2>1, ZenonT(30) DEF Cascade, Removed
<1>3. root \in gone
  BY <1>a, SMTT(30) DEF Cascade
<1>4. RevokedIds(before, root) = gone
  <2>1. \A i \in RevokedIds(before, root) : i \in gone
    BY <1>2, <1>3, SMTT(30) DEF RevokedIds
  <2>2. \A i \in gone, S \in SUBSET Ids : root \in S /\ ClosedUnderLineage(before, S) => i \in S
    BY Zenon DEF Cascade, IsRevoked
  <2>3. \A i \in gone : i \in RevokedIds(before, root)
    BY <2>2, SMTT(30) DEF RevokedIds
  <2> QED
    BY <2>1, <2>3, SMTT(30)
<1> HIDE DEF gone
<1>5. \A d \in Cells :
          table[d] = IF d = c \/ (before[d] # NoCap /\ before[d].origin \in gone)
                     THEN NoCap ELSE before[d]
  <2> SUFFICES ASSUME NEW d \in Cells
               PROVE  table[d] = IF d = c \/ (before[d] # NoCap /\ before[d].origin \in gone)
                                 THEN NoCap ELSE before[d]
    BY ZenonT(30)
  <2>1. CASE d = c
    BY <2>1, ZenonT(30) DEF Cascade
  <2>2. CASE d # c /\ before[d] # NoCap /\ table[d] = NoCap
    BY <1>a, <1>b, <2>2, SMTT(30) DEF Cascade, Removed, gone
  <2>3. CASE d # c /\ table[d] # NoCap
    <3>1. table[d] = before[d] /\ ~IsRevoked(before[d].origin)
      BY <1>1, <2>3, ZenonT(30) DEF Cascade
    <3> QED
      BY <2>3, <3>1, SMTT(30) DEF gone
  <2>4. CASE d # c /\ before[d] = NoCap
    BY <2>4, SMTT(30) DEF Cascade
  <2> QED
    BY <2>1, <2>2, <2>3, <2>4, SMTT(30)
<1> QED
  BY <1>a, <1>4, <1>5, ZenonT(60) DEF Wiped

\* Every step of the call preserves the invariant.
LEMMA StepInv ==
    ASSUME IndInv, [Next]_vars
    PROVE  IndInv'
<1>1. CASE NextPass
  <2>1. UNCHANGED <<table, before, running, revoked>> /\ pos' = 0 /\ changed' = FALSE
    BY <1>1, ZenonT(30) DEF NextPass
  <2>2. changed' \in BOOLEAN
    BY <2>1, ZenonT(60)
  <2>3. pos' \in 0 .. NCells /\ \A d : d \notin 0 .. (pos' - 1)
    BY <2>1, RevocationConstants, SMTT(30)
  <2>4. TypeOK' /\ NeverTruncated'
    BY <2>1, <2>2, <2>3, SMTT(30) DEF IndInv, TypeOK, NeverTruncated
  <2>5. ASSUME NEW c \in Cells, Cascade(c) PROVE Cascade(c)'
    <3>1. Removed(c)' = Removed(c)
      BY <2>1, Zenon DEF Removed
    <3> QED
      BY <2>1, <2>3, <2>5, <3>1, SMTT(30) DEF Cascade, IsRevoked
  <2> QED
    BY <2>1, <2>4, <2>5, SMTT(30) DEF IndInv
<1>2. CASE Finish
  <2>1. UNCHANGED <<table, before, revoked, pos, changed>> /\ ~running' /\ running' \in BOOLEAN
    BY <1>2, ZenonT(60) DEF Finish
  <2> QED
    BY <2>1, ZenonT(30) DEF IndInv, TypeOK, NeverTruncated
<1>3. CASE UNCHANGED vars
  <2>1. UNCHANGED <<table, before, running, revoked, pos, changed>>
    BY <1>3, Zenon DEF vars
  <2>2. TypeOK' /\ NeverTruncated'
    BY <2>1, SMTT(30) DEF IndInv, TypeOK, NeverTruncated
  <2>3. ASSUME NEW c \in Cells, Cascade(c) PROVE Cascade(c)'
    <3>1. Removed(c)' = Removed(c)
      BY <2>1, ZenonT(30) DEF Removed
    <3> QED
      BY <2>1, <2>3, <3>1, ZenonT(30) DEF Cascade, IsRevoked
  <2> QED
    BY <2>1, <2>2, <2>3, SMTT(30) DEF IndInv
<1> QED
  BY <1>1, <1>2, <1>3, BeginInv, VisitInv, SMTT(30) DEF Next

\* IndInv holds in every state of the call.
THEOREM Invariance == Spec => []IndInv
BY InitInv, StepInv, PTL DEF Spec

\* Type correctness of the passes.
THEOREM TypeCorrect == Spec => []TypeOK
BY Invariance, PTL DEF IndInv

\* REVOKED_IDS never fills up, so no derived capability is skipped.
THEOREM NoTruncation == Spec => []NeverTruncated
BY Invariance, PTL DEF IndInv

\* The passes of propagate_revocation implement the atomic revocation.
THEOREM CascadeIsAtomic == Spec => Implements
<1>1. Init => R!Init
  BY Zenon DEF Init, R!Init, R!Tables, R!WellFormed, R!Cells, R!Cap, R!Ids,
         Tables, WellFormed, Cells, Cap, Ids
<1>2. ASSUME IndInv, [Next]_vars
      PROVE  [R!Next]_(IF running THEN before ELSE table)
  <2> DEFINE bar == IF running THEN before ELSE table
  <2>1. CASE \E c \in Cells : Begin(c)
    BY <2>1, SMTT(30) DEF Begin
  <2>2. CASE Visit \/ NextPass
    BY <2>2, SMTT(30) DEF Visit, NextPass
  <2>3. CASE Finish
    <3>1. PICK c \in Cells : Cascade(c)
      BY <1>2, <2>3, SMTT(30) DEF Finish, IndInv
    <3>2. table = Wiped(before, c, RevokedIds(before, before[c].id))
      BY <1>2, <2>3, <3>1, FixpointReached, SMTT(30) DEF Finish, IndInv
    <3>3. bar = before /\ bar' = table
      BY <2>3, ZenonT(30) DEF Finish
    <3>4. R!Revoke(c)
      BY <3>1, <3>2, <3>3, ZenonT(60)
         DEF Cascade, R!Revoke, R!Wiped, R!RevokedIds, R!ClosedUnderLineage, R!Cells, R!Ids,
             Wiped, RevokedIds, ClosedUnderLineage, Cells, Ids
    <3> QED
      BY <3>4, SMTT(30) DEF R!Next, R!Cells, Cells
  <2>4. CASE UNCHANGED vars
    BY <2>4, Zenon DEF vars
  <2> QED
    BY <1>2, <2>1, <2>2, <2>3, <2>4, SMTT(30) DEF Next
<1> QED
  BY <1>1, <1>2, Invariance, PTL DEF Spec, Implements, R!Spec

\* What the passes still may do: remove a capability for every free place of
\* REVOKED_IDS and go over the tables once more, and visit the cells ahead.
PassesLeft == 2 * (REVOKED_IDS_CAP - Len(revoked)) + (IF changed THEN 1 ELSE 0)
CellsAhead == NCells - pos

\* Every step inside the lock leaves less to do: fewer passes, or as many and
\* fewer cells ahead.
Shrinks ==
    running /\ running' =>
       \/ PassesLeft' < PassesLeft
       \/ PassesLeft' = PassesLeft /\ CellsAhead' < CellsAhead

\* The loop of propagate_revocation cannot go on for ever: the passes left and
\* the cells ahead are natural numbers, and every step of the loop decreases
\* them.
THEOREM CascadeShrinks == Spec => [](PassesLeft \in Nat /\ CellsAhead \in Nat) /\ [][Shrinks]_vars
<1> DEFINE free == REVOKED_IDS_CAP - Len(revoked)
           more == IF changed THEN 1 ELSE 0
<1>1. ASSUME IndInv PROVE free \in Nat /\ more \in {0, 1} /\ CellsAhead \in Nat /\ pos \in Nat
  <2>1. /\ Len(revoked) \in Nat /\ Len(revoked) <= REVOKED_IDS_CAP /\ pos \in 0 .. NCells
        /\ NCells \in Nat /\ REVOKED_IDS_CAP \in Nat
    BY <1>1, RevocationConstants DEF IndInv, TypeOK, REVOKED_IDS_CAP
  <2> QED
    BY <2>1 DEF CellsAhead
<1>2. IndInv => PassesLeft \in Nat /\ CellsAhead \in Nat
  <2> SUFFICES ASSUME IndInv PROVE PassesLeft \in Nat
    BY <1>1, Zenon
  <2>1. free \in Nat /\ more \in {0, 1} /\ PassesLeft = 2 * free + more
    BY <1>1, Zenon DEF PassesLeft
  <2> HIDE DEF free, more
  <2> QED
    BY <2>1
<1>3. ASSUME IndInv, IndInv', [Next]_vars PROVE [Shrinks]_vars
  <2>1. PassesLeft = 2 * free + more /\ PassesLeft' = 2 * free' + more'
    BY Zenon DEF PassesLeft
  <2>2. free \in Nat /\ more \in {0, 1} /\ CellsAhead \in Nat /\ pos \in Nat
    BY <1>1, <1>3, Zenon
  <2>3. free' \in Nat /\ more' \in {0, 1}
    <3>1. Len(revoked') \in Nat /\ Len(revoked') <= REVOKED_IDS_CAP /\ REVOKED_IDS_CAP \in Nat
      BY <1>3, RevocationConstants DEF IndInv, TypeOK, REVOKED_IDS_CAP
    <3> QED
      BY <3>1, SMTT(30)
  <2>4. CASE Visit
    <3>0. pos' = pos + 1
      BY <2>4, Zenon DEF Visit
    <3>a. CellsAhead' < CellsAhead
      BY <2>2, <3>0, RevocationConstants, SMTT(30) DEF CellsAhead
    <3>1. CASE revoked' = Append(revoked, table[pos].id)
      <4>1. Len(revoked') = Len(revoked) + 1 /\ Len(revoked) \in Nat
        <5>1. revoked \in Seq(Ids)
          BY <1>3, Zenon DEF IndInv, TypeOK
        <5> QED
          BY <3>1, <5>1
      <4>2. free' = free - 1
        BY <4>1, RevocationConstants, SMTT(30) DEF REVOKED_IDS_CAP
      <4>3. \A f, g \in Nat : \A m, n \in {0, 1} : g = f - 1 => 2 * g + n < 2 * f + m
        OBVIOUS
      <4> HIDE DEF free, more
      <4>4. 2 * free' + more' < 2 * free + more
        BY <2>2, <2>3, <4>2, <4>3, ZenonT(60)
      <4> QED
        BY <2>1, <4>4, Zenon DEF Shrinks
    <3>2. CASE UNCHANGED <<revoked, changed>>
      <4>1. PassesLeft' = PassesLeft
        <5>1. revoked' = revoked /\ changed' = changed
          BY <3>2, Zenon
        <5> QED
          BY <5>1, Zenon DEF PassesLeft
      <4> QED
        BY <3>a, <4>1, Zenon DEF Shrinks
    <3> QED
      BY <2>4, <3>1, <3>2, Zenon DEF Visit
  <2>5. CASE NextPass
    <3>1. free' = free /\ more = 1 /\ more' = 0
      BY <2>5, Zenon DEF NextPass
    <3> HIDE DEF free, more
    <3> QED
      BY <2>1, <2>2, <3>1, SMTT(30) DEF Shrinks
  <2>6. CASE \E c \in Cells : Begin(c)
    BY <2>6, Zenon DEF Begin, Shrinks
  <2>7. CASE Finish
    BY <2>7, Zenon DEF Finish, Shrinks
  <2> QED
    BY <1>3, <2>4, <2>5, <2>6, <2>7, ZenonT(60) DEF Next
<1> QED
  BY <1>2, <1>3, Invariance, PTL DEF Spec

=============================================================================
