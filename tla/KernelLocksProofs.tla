------------------------- MODULE KernelLocksProofs -------------------------
(***************************************************************************)
(* KernelLocks for any number of nested traps, any size of the keyboard    *)
(* buffer and of the screen and any text: no path locks a mutex it has,    *)
(* but where a failing kalloc::alloc drops its value, no handler finds a   *)
(* mutex locked, the interrupt controller is acknowledged for the right    *)
(* interrupt, and the screen shows the text.                               *)
(*                                                                         *)
(* A path is a sequence of steps, put together from smaller ones.  What    *)
(* makes a path safe is stated for a path and the state in which it runs,  *)
(* so that it can be put together from what holds for its parts.           *)
(***************************************************************************)
EXTENDS KernelLocks, SequenceTheorems, WellFoundedInduction, NaturalsInduction, TLAPS

Mutexes ==
  {"CONSOLE", "BUFF", "temp_page", "NEXT_FREE_PHYS", "PHYS_BUMP_ALLOC", "kvirt ALLOCATOR",
   "ALLOCATOR", "CURRENT_TASK", "TASKS", "TASK_STATES", "TASK_FUTURES", "TASK_HANDLES", "future", "io"}

Others == {"pop", "print", "write", "writing", "wait"}
PlainOps == {"save", "cli", "sti", "restore", "take", "clear", "loop", "poll", "call", "push"} \cup Others
Args == Mutexes \cup {"", "drive", "no drive"} \cup Buffers

\* The steps of a path but the acknowledgement, and all steps.
Plain == {x \in [op : PlainOps, arg : Args] : x.op = "write" => x.arg \in Buffers}
Steps == {x \in [op : PlainOps \cup {"eoi"}, arg : Args] : x.op = "write" => x.arg \in Buffers}

\* A path c that is about to run while the mutexes of h are locked and the flag is
\* f, with the flags sv saved.
Situations == Seq(Steps) \X (SUBSET Mutexes) \X Seq(BOOLEAN) \X BOOLEAN

\* The first step of the path is safe and leads into R; no mutex is locked when the
\* flag is set or the path has ended.  A mutex that is locked is taken only where
\* NoRecursiveLock says so, and nothing follows.  What Choose and Push put before the
\* rest is safe by itself.
SafeStep(R, c, h, sv, f) ==
  CASE c[1].op = "save" -> <<Tail(c), h, <<f>> \o sv, f>> \in R
    [] c[1].op = "cli" -> <<Tail(c), h, sv, FALSE>> \in R
    [] c[1].op = "sti" -> <<Tail(c), h, sv, TRUE>> \in R
    [] c[1].op = "restore" -> /\ sv # <<>>
                              /\ \E g \in BOOLEAN : /\ g <=> (f \/ sv[1])
                                                    /\ <<Tail(c), h, Tail(sv), g>> \in R
    [] c[1].op = "take" -> \/ c[1].arg \in Mutexes \ h /\ <<Tail(c), h \cup {c[1].arg}, sv, f>> \in R
                           \/ c[1].arg = "ALLOCATOR" /\ h \in Recursive
    [] c[1].op = "clear" -> <<Tail(c), h \ {c[1].arg}, sv, f>> \in R
    [] c[1].op = "loop" -> h = {} /\ <<Tail(c), h, sv, f>> \in R
    [] c[1].op = "poll" -> h = {"future"} /\ <<Tail(c), h, sv, f>> \in R
    [] c[1].op = "call" -> h = {"future"} /\ <<Tail(c), h, sv, f>> \in R
    [] c[1].op = "push" -> "CONSOLE" \notin h /\ <<Tail(c), h, sv, f>> \in R
    [] OTHER -> <<Tail(c), h, sv, f>> \in R

Follows(R, c, h, sv, f) ==
  /\ h # {} => ~f
  /\ c = <<>> => h = {}
  /\ c # <<>> => SafeStep(R, c, h, sv, f)

\* The situations from which a path is safe to its end: the largest set that leads
\* into itself.
Consistent(R) ==
  \A c \in Seq(Steps), h \in SUBSET Mutexes, sv \in Seq(BOOLEAN), f \in BOOLEAN :
    <<c, h, sv, f>> \in R => Follows(R, c, h, sv, f)
Safe == UNION {R \in SUBSET Situations : Consistent(R)}

\* Follows is monotone.
LEMMA FollowsMonotone ==
  ASSUME NEW R, NEW Q, R \subseteq Q, NEW c, NEW h, NEW sv, NEW f, Follows(R, c, h, sv, f)
  PROVE  Follows(Q, c, h, sv, f)
  <1>1. ASSUME SafeStep(R, c, h, sv, f), c[1].op = "restore"
        PROVE  SafeStep(Q, c, h, sv, f)
    <2>1. sv # <<>> /\ \E g \in BOOLEAN : (g <=> (f \/ sv[1])) /\ <<Tail(c), h, Tail(sv), g>> \in R
      BY <1>1 DEF SafeStep
    <2>2. PICK g \in BOOLEAN : (g <=> (f \/ sv[1])) /\ <<Tail(c), h, Tail(sv), g>> \in R
      BY <2>1
    <2>3. <<Tail(c), h, Tail(sv), g>> \in Q
      BY <2>2
    <2>4. \E k \in BOOLEAN : (k <=> (f \/ sv[1])) /\ <<Tail(c), h, Tail(sv), k>> \in Q
      BY <2>2, <2>3
    <2> QED BY <1>1, <2>1, <2>4 DEF SafeStep
  <1>2. ASSUME SafeStep(R, c, h, sv, f), c[1].op # "restore"
        PROVE  SafeStep(Q, c, h, sv, f)
    BY <1>2 DEF SafeStep
  <1> QED BY <1>1, <1>2 DEF Follows

\* A safe path stays safe when its first step is made.
LEMMA SafeFollows ==
  ASSUME NEW c \in Seq(Steps), NEW h \in SUBSET Mutexes, NEW sv \in Seq(BOOLEAN), NEW f \in BOOLEAN,
         <<c, h, sv, f>> \in Safe
  PROVE  Follows(Safe, c, h, sv, f)
  <1>1. PICK R \in SUBSET Situations : Consistent(R) /\ <<c, h, sv, f>> \in R
    BY DEF Safe
  <1>2. Follows(R, c, h, sv, f)
    BY <1>1 DEF Consistent
  <1>3. R \subseteq Safe
    BY <1>1 DEF Safe
  <1> QED BY <1>2, <1>3, FollowsMonotone

\* A path whose first step is safe and leads to a safe path is safe.
LEMMA SafeIfFollows ==
  ASSUME NEW c \in Seq(Steps), NEW h \in SUBSET Mutexes, NEW sv \in Seq(BOOLEAN), NEW f \in BOOLEAN,
         Follows(Safe, c, h, sv, f)
  PROVE  <<c, h, sv, f>> \in Safe
  <1> DEFINE x == <<c, h, sv, f>>
             Q == Safe \cup {x}
  <1>1. x \in Situations
    BY DEF Situations
  <1>2. Safe \subseteq Situations
    BY DEF Safe
  <1>3. Consistent(Q)
    <2> SUFFICES ASSUME NEW c2 \in Seq(Steps), NEW h2 \in SUBSET Mutexes, NEW sv2 \in Seq(BOOLEAN),
                        NEW f2 \in BOOLEAN, <<c2, h2, sv2, f2>> \in Q
        PROVE  Follows(Q, c2, h2, sv2, f2)
      BY DEF Consistent
    <2>1. Follows(Safe, c2, h2, sv2, f2)
      <3>1. CASE <<c2, h2, sv2, f2>> \in Safe
        BY <3>1, SafeFollows
      <3>2. CASE <<c2, h2, sv2, f2>> = x
        <4>1. c2 = c /\ h2 = h /\ sv2 = sv /\ f2 = f
          BY <3>2
        <4> QED BY <4>1
      <3> QED BY <3>1, <3>2
    <2> QED BY <2>1, FollowsMonotone
  <1>4. Q \in SUBSET Situations
    BY <1>1, <1>2
  <1> HIDE DEF Q
  <1>5. Q \subseteq Safe
    BY <1>3, <1>4 DEF Safe
  <1> QED BY <1>5 DEF Q

-----------------------------------------------------------------------------
(* Parts of paths.                                                         *)

\* A sequence with a first element.
LEMMA ConsFacts ==
  ASSUME NEW S, NEW x \in S, NEW c \in Seq(S)
  PROVE  /\ <<x>> \o c \in Seq(S) /\ <<x>> \o c # <<>>
         /\ (<<x>> \o c)[1] = x /\ Tail(<<x>> \o c) = c
  <1>1. <<x>> \in Seq(S) /\ Len(<<x>>) = 1 /\ <<x>>[1] = x
    OBVIOUS
  <1>2. Len(c) \in Nat
    OBVIOUS
  <1>3. /\ <<x>> \o c \in Seq(S) /\ Len(<<x>> \o c) = 1 + Len(c)
        /\ \A i \in 1 .. 1 + Len(c) : (<<x>> \o c)[i] = IF i <= 1 THEN <<x>>[i] ELSE c[i - 1]
    BY <1>1, ConcatProperties
  <1>4. <<x>> \o c # <<>>
    BY <1>2, <1>3, EmptySeq
  <1>5. /\ Tail(<<x>> \o c) \in Seq(S) /\ Len(Tail(<<x>> \o c)) = Len(<<x>> \o c) - 1
        /\ \A i \in 1 .. Len(Tail(<<x>> \o c)) : Tail(<<x>> \o c)[i] = (<<x>> \o c)[i + 1]
    BY <1>3, <1>4, HeadTailProperties
  <1>6. Len(Tail(<<x>> \o c)) = Len(c)
    BY <1>2, <1>3, <1>5
  <1>7. \A i \in 1 .. Len(c) : Tail(<<x>> \o c)[i] = c[i]
    BY <1>2, <1>3, <1>5, <1>6
  <1>8. Tail(<<x>> \o c) = c
    BY <1>5, <1>6, <1>7, SeqEqual
  <1>9. (<<x>> \o c)[1] = x
    BY <1>1, <1>2, <1>3
  <1> QED BY <1>3, <1>4, <1>8, <1>9

\* A part of a path that runs while the mutexes of h are locked, and leaves the locks,
\* the saved flags and the flag as they were; and one that does with the flag clear.
Runs(b, h) ==
  /\ b \in Seq(Plain)
  /\ \A rest \in Seq(Steps), sv \in Seq(BOOLEAN), f \in BOOLEAN :
       <<rest, h, sv, f>> \in Safe => <<b \o rest, h, sv, f>> \in Safe
RunsOff(b, h) ==
  /\ b \in Seq(Plain)
  /\ \A rest \in Seq(Steps), sv \in Seq(BOOLEAN) :
       <<rest, h, sv, FALSE>> \in Safe => <<b \o rest, h, sv, FALSE>> \in Safe

\* The part locks some of the mutexes of U: it runs whenever they are free.
Balanced(b, U) == b \in Seq(Plain) /\ \A h \in SUBSET Mutexes : h \cap U = {} => Runs(b, h)

\* A plain path is a path.
LEMMA PlainSteps ==
  ASSUME NEW b \in Seq(Plain)
  PROVE  b \in Seq(Steps)
  <1>1. Plain \subseteq Steps
    BY DEF Plain, Steps
  <1> QED BY <1>1, SeqMonotonic

\* Sequences of one and of two steps.
LEMMA ShortSeq ==
  ASSUME NEW S, NEW x \in S, NEW y \in S
  PROVE  <<x>> \in Seq(S) /\ <<x, y>> \in Seq(S)
  OBVIOUS

\* Two steps one after the other.
LEMMA PairConcat ==
  ASSUME NEW S, NEW x \in S, NEW y \in S
  PROVE  <<x>> \o <<y>> = <<x, y>>
  <1>1. <<x>> \in Seq(S) /\ <<y>> \in Seq(S) /\ <<x, y>> \in Seq(S)
    BY ShortSeq
  <1>2. <<x>> \o <<y>> \in Seq(S) /\ Len(<<x>> \o <<y>>) = 2
    BY <1>1, ConcatProperties
  <1>3. (<<x>> \o <<y>>)[1] = x /\ (<<x>> \o <<y>>)[2] = y
    BY <1>1, ConcatProperties
  <1>4. Len(<<x, y>>) = 2 /\ \A i \in 1 .. 2 : (<<x>> \o <<y>>)[i] = <<x, y>>[i]
    BY <1>3
  <1> QED BY <1>1, <1>2, <1>4, SeqEqual

\* It does not matter which parts of a path are joined first.
LEMMA PlainAssociative ==
  ASSUME NEW a \in Seq(Plain), NEW b \in Seq(Plain), NEW c \in Seq(Plain)
  PROVE  (a \o b) \o c = a \o (b \o c)
  BY ConcatAssociative

\* A part that runs whatever the flag is, runs with the flag clear.
LEMMA RunsWithFlagClear ==
  ASSUME NEW b, NEW h, Runs(b, h)
  PROVE  RunsOff(b, h)
  BY DEF Runs, RunsOff

\* A balanced part runs when its mutexes are free.
LEMMA BalancedRuns ==
  ASSUME NEW b, NEW U, NEW h \in SUBSET Mutexes, h \cap U = {}, Balanced(b, U)
  PROVE  Runs(b, h)
  BY DEF Balanced

\* A part that needs some mutexes free may be used where more of them are.
LEMMA BalancedGrows ==
  ASSUME NEW b, NEW U, NEW V, U \subseteq V, Balanced(b, U)
  PROVE  Balanced(b, V)
  BY DEF Balanced

\* No step at all.
LEMMA EmptyBalanced ==
  ASSUME NEW U
  PROVE  Balanced(<<>>, U)
  BY ConcatEmptySeq DEF Balanced, Runs

\* Two parts one after the other.
LEMMA ConcatRuns ==
  ASSUME NEW a, NEW b, NEW h, Runs(a, h), Runs(b, h)
  PROVE  Runs(a \o b, h)
  <1>1. a \in Seq(Plain) /\ b \in Seq(Plain) /\ a \in Seq(Steps) /\ b \in Seq(Steps)
    BY PlainSteps DEF Runs
  <1>2. a \o b \in Seq(Plain)
    BY <1>1, ConcatProperties
  <1>3. ASSUME NEW rest \in Seq(Steps), NEW sv \in Seq(BOOLEAN), NEW f \in BOOLEAN, <<rest, h, sv, f>> \in Safe
        PROVE  <<(a \o b) \o rest, h, sv, f>> \in Safe
    <2>1. (a \o b) \o rest = a \o (b \o rest) /\ b \o rest \in Seq(Steps)
      BY <1>1, ConcatAssociative, ConcatProperties
    <2>2. <<b \o rest, h, sv, f>> \in Safe
      BY <1>3 DEF Runs
    <2>3. <<a \o (b \o rest), h, sv, f>> \in Safe
      BY <1>3, <2>1, <2>2 DEF Runs
    <2> QED BY <2>1, <2>3
  <1> QED BY <1>2, <1>3 DEF Runs

\* The same for balanced parts, and for more of them.
LEMMA ConcatBalanced ==
  ASSUME NEW a, NEW b, NEW U, Balanced(a, U), Balanced(b, U)
  PROVE  Balanced(a \o b, U)
  <1>1. a \o b \in Seq(Plain)
    BY ConcatProperties DEF Balanced
  <1>2. ASSUME NEW h \in SUBSET Mutexes, h \cap U = {} PROVE Runs(a \o b, h)
    BY <1>2, BalancedRuns, ConcatRuns
  <1> QED BY <1>1, <1>2 DEF Balanced

LEMMA Balanced3 ==
  ASSUME NEW a, NEW b, NEW c, NEW U, Balanced(a, U), Balanced(b, U), Balanced(c, U)
  PROVE  Balanced((a \o b) \o c, U)
  BY ConcatBalanced

LEMMA Balanced4 ==
  ASSUME NEW a, NEW b, NEW c, NEW d, NEW U,
         Balanced(a, U), Balanced(b, U), Balanced(c, U), Balanced(d, U)
  PROVE  Balanced(((a \o b) \o c) \o d, U)
  BY Balanced3, ConcatBalanced

\* critical::begin and the drop of the Critical around a part: the flag is clear in
\* it, and as it was before after it.
LEMMA SectionRuns ==
  ASSUME NEW b, NEW h \in SUBSET Mutexes, RunsOff(b, h)
  PROVE  Runs(section(b), h)
  <1> DEFINE s0 == Step("save", "")
             s1 == Step("cli", "")
             s2 == Step("restore", "")
  <1>1. s0 \in Plain /\ s1 \in Plain /\ s2 \in Plain /\ Plain \subseteq Steps
    BY DEF Step, Plain, Steps, PlainOps, Args, Others
  <1>x. s0.op = "save" /\ s1.op = "cli" /\ s2.op = "restore"
    BY DEF Step
  <1>2. b \in Seq(Plain) /\ b \in Seq(Steps)
    BY PlainSteps DEF RunsOff
  <1>3. section(b) = (<<s0, s1>> \o b) \o <<s2>>
    BY DEF section, begin, end
  <1> HIDE DEF s0, s1, s2
  <1>4. <<s0, s1>> \in Seq(Plain) /\ <<s2>> \in Seq(Plain) /\ <<s0>> \in Seq(Plain) /\ <<s1>> \in Seq(Plain)
    BY <1>1
  <1>5. <<s0, s1>> = <<s0>> \o <<s1>>
    BY <1>1, PairConcat
  <1>6. section(b) \in Seq(Plain)
    BY <1>2, <1>3, <1>4, ConcatProperties
  <1>7. ASSUME NEW rest \in Seq(Steps), NEW sv \in Seq(BOOLEAN), NEW f \in BOOLEAN,
               <<rest, h, sv, f>> \in Safe
        PROVE  <<section(b) \o rest, h, sv, f>> \in Safe
    <2> DEFINE d == <<s2>> \o rest
               e == b \o d
               g == <<s1>> \o e
    <2>1. d \in Seq(Steps) /\ d # <<>> /\ d[1] = s2 /\ Tail(d) = rest
      BY <1>1, ConsFacts
    <2>2. e \in Seq(Steps)
      BY <1>2, <2>1, ConcatProperties
    <2>3. section(b) \o rest = <<s0>> \o g
      <3>1. /\ <<s0, s1>> \in Seq(Steps) /\ <<s2>> \in Seq(Steps) /\ <<s0>> \in Seq(Steps)
            /\ <<s1>> \in Seq(Steps)
        BY <1>1
      <3>2. section(b) \o rest = (<<s0, s1>> \o b) \o (<<s2>> \o rest)
        BY <1>2, <1>3, <3>1, ConcatAssociative, ConcatProperties
      <3>3. @ = <<s0, s1>> \o (b \o d)
        BY <1>2, <3>1, ConcatAssociative, ConcatProperties
      <3>4. @ = <<s0>> \o (<<s1>> \o e)
        <4>1. (<<s0>> \o <<s1>>) \o e = <<s0>> \o (<<s1>> \o e)
          BY <2>2, <3>1, ConcatAssociative, SMTT(30)
        <4> QED BY <1>5, <4>1
      <3> QED BY <3>2, <3>3, <3>4
    <2>4. g \in Seq(Steps) /\ g # <<>> /\ g[1] = s1 /\ Tail(g) = e
      BY <1>1, <2>2, ConsFacts
    <2>5. /\ <<s0>> \o g \in Seq(Steps) /\ <<s0>> \o g # <<>> /\ (<<s0>> \o g)[1] = s0
          /\ Tail(<<s0>> \o g) = g
      BY <1>1, <2>4, ConsFacts
    <2>6. /\ <<f>> \o sv \in Seq(BOOLEAN) /\ <<f>> \o sv # <<>>
          /\ (<<f>> \o sv)[1] = f /\ Tail(<<f>> \o sv) = sv
      BY ConsFacts
    <2>7. h # {} => ~f
      BY <1>7, SafeFollows DEF Follows
    <2> HIDE DEF d, e, g
    <2>8. <<d, h, <<f>> \o sv, FALSE>> \in Safe
      <3>1. \E k \in BOOLEAN : /\ k <=> (FALSE \/ (<<f>> \o sv)[1])
                               /\ <<Tail(d), h, Tail(<<f>> \o sv), k>> \in Safe
        BY <1>7, <2>1, <2>6
      <3>2. SafeStep(Safe, d, h, <<f>> \o sv, FALSE)
        BY <1>x, <2>1, <2>6, <3>1 DEF SafeStep
      <3>3. Follows(Safe, d, h, <<f>> \o sv, FALSE)
        BY <2>1, <3>2 DEF Follows
      <3> QED BY <2>1, <2>6, <3>3, SafeIfFollows
    <2>9. <<e, h, <<f>> \o sv, FALSE>> \in Safe
      BY <1>7, <2>1, <2>6, <2>8 DEF RunsOff, e
    <2>10. <<g, h, <<f>> \o sv, f>> \in Safe
      <3>1. SafeStep(Safe, g, h, <<f>> \o sv, f)
        BY <1>x, <2>4, <2>9 DEF SafeStep
      <3>2. Follows(Safe, g, h, <<f>> \o sv, f)
        BY <2>4, <2>7, <3>1 DEF Follows
      <3> QED BY <2>4, <2>6, <3>2, SafeIfFollows
    <2>11. <<<<s0>> \o g, h, sv, f>> \in Safe
      <3>1. SafeStep(Safe, <<s0>> \o g, h, sv, f)
        BY <1>x, <2>5, <2>10 DEF SafeStep
      <3>2. Follows(Safe, <<s0>> \o g, h, sv, f)
        BY <2>5, <2>7, <3>1 DEF Follows
      <3> QED BY <2>5, <3>2, SafeIfFollows
    <2> QED BY <2>3, <2>11
  <1> QED BY <1>6, <1>7 DEF Runs

\* The same for balanced parts.
LEMMA SectionBalanced ==
  ASSUME NEW b, NEW U, Balanced(b, U)
  PROVE  Balanced(section(b), U)
  <1>1. ASSUME NEW h \in SUBSET Mutexes, h \cap U = {} PROVE Runs(section(b), h)
    BY <1>1, BalancedRuns, RunsWithFlagClear, SectionRuns
  <1>2. begin \in Seq(Plain) /\ end \in Seq(Plain) /\ b \in Seq(Plain)
    <2>1. Step("save", "") \in Plain /\ Step("cli", "") \in Plain /\ Step("restore", "") \in Plain
      BY DEF Step, Plain, PlainOps, Args
    <2>2. <<Step("save", ""), Step("cli", "")>> \in Seq(Plain) /\ <<Step("restore", "")>> \in Seq(Plain)
      BY <2>1, ShortSeq
    <2> QED BY <2>2 DEF begin, end, Balanced
  <1>3. section(b) \in Seq(Plain)
    BY <1>2, ConcatProperties DEF section
  <1> QED BY <1>1, <1>3 DEF Balanced

\* A mutex that is locked in a critical section, used and freed in it.
held(m, b) == (<<Step("take", m)>> \o b) \o <<Step("clear", m)>>

\* The body of a critical section with the mutex taken before it and cleared after it.
LEMMA HeldRuns ==
  ASSUME NEW b, NEW h \in SUBSET Mutexes, NEW m \in Mutexes \ h, RunsOff(b, h \cup {m})
  PROVE  RunsOff(held(m, b), h)
  <1> DEFINE s1 == Step("take", m)
             s2 == Step("clear", m)
  <1>1. s1 \in Plain /\ s2 \in Plain /\ Plain \subseteq Steps
    BY DEF Step, Plain, Steps, PlainOps, Args, Others
  <1>2. s1.op = "take" /\ s1.arg = m /\ s2.op = "clear" /\ s2.arg = m
    BY DEF Step
  <1>3. b \in Seq(Plain) /\ b \in Seq(Steps)
    BY PlainSteps DEF RunsOff
  <1>4. held(m, b) = (<<s1>> \o b) \o <<s2>>
    BY DEF held
  <1> HIDE DEF s1, s2
  <1>5. <<s1>> \in Seq(Plain) /\ <<s2>> \in Seq(Plain) /\ <<s1>> \in Seq(Steps) /\ <<s2>> \in Seq(Steps)
    BY <1>1
  <1>6. held(m, b) \in Seq(Plain)
    BY <1>3, <1>4, <1>5, ConcatProperties
  <1>7. ASSUME NEW rest \in Seq(Steps), NEW sv \in Seq(BOOLEAN), <<rest, h, sv, FALSE>> \in Safe
        PROVE  <<held(m, b) \o rest, h, sv, FALSE>> \in Safe
    <2> DEFINE d == <<s2>> \o rest
               e == b \o d
    <2>1. d \in Seq(Steps) /\ d # <<>> /\ d[1] = s2 /\ Tail(d) = rest
      BY <1>1, ConsFacts
    <2>2. e \in Seq(Steps)
      BY <1>3, <2>1, ConcatProperties
    <2>3. /\ <<s1>> \o e \in Seq(Steps) /\ <<s1>> \o e # <<>> /\ (<<s1>> \o e)[1] = s1
          /\ Tail(<<s1>> \o e) = e
      BY <1>1, <2>2, ConsFacts
    <2>4. held(m, b) \o rest = <<s1>> \o e
      <3>1. held(m, b) \o rest = (<<s1>> \o b) \o (<<s2>> \o rest)
        BY <1>3, <1>4, <1>5, ConcatAssociative, ConcatProperties
      <3>2. (<<s1>> \o b) \o d = <<s1>> \o (b \o d)
        BY <1>3, <1>5, <2>1, ConcatAssociative
      <3> QED BY <3>1, <3>2
    <2> HIDE DEF d, e
    <2>5. h \cup {m} \in SUBSET Mutexes /\ (h \cup {m}) \ {m} = h /\ m \notin h
      BY <1>7
    <2>6. <<d, h \cup {m}, sv, FALSE>> \in Safe
      <3>1. SafeStep(Safe, d, h \cup {m}, sv, FALSE)
        BY <1>2, <1>7, <2>1, <2>5 DEF SafeStep
      <3>2. Follows(Safe, d, h \cup {m}, sv, FALSE)
        BY <2>1, <3>1 DEF Follows
      <3> QED BY <2>1, <2>5, <3>2, SafeIfFollows
    <2>7. <<e, h \cup {m}, sv, FALSE>> \in Safe
      BY <2>1, <2>5, <2>6 DEF RunsOff, e
    <2>8. <<<<s1>> \o e, h, sv, FALSE>> \in Safe
      <3>1. SafeStep(Safe, <<s1>> \o e, h, sv, FALSE)
        BY <1>2, <2>3, <2>5, <2>7 DEF SafeStep
      <3>2. Follows(Safe, <<s1>> \o e, h, sv, FALSE)
        BY <2>3, <3>1 DEF Follows
      <3> QED BY <2>3, <3>2, SafeIfFollows
    <2> QED BY <2>4, <2>8
  <1> QED BY <1>6, <1>7 DEF RunsOff

\* A part that may be joined with the next one first.
Rejoins(x) == \A y, z \in Seq(Plain) : (x \o y) \o z = x \o (y \o z)

\* Mutex::lock, what is done with the guard, and its drop are a critical section.
LEMMA WithIsSection ==
  ASSUME NEW b \in Seq(Plain), NEW m \in Mutexes
  PROVE  With(m, b) = section(held(m, b)) /\ With(m, b) \in Seq(Plain)
  <1> DEFINE s1 == <<Step("take", m)>>
             s2 == <<Step("clear", m)>>
             bg == begin
             en == end
  <1>1. s1 \in Seq(Plain) /\ s2 \in Seq(Plain) /\ bg \in Seq(Plain) /\ en \in Seq(Plain)
    <2>1. Step("take", m) \in Plain /\ Step("clear", m) \in Plain
      BY DEF Step, Plain, PlainOps, Args
    <2>2. Step("save", "") \in Plain /\ Step("cli", "") \in Plain /\ Step("restore", "") \in Plain
      BY DEF Step, Plain, PlainOps, Args
    <2>3. s1 \in Seq(Plain) /\ s2 \in Seq(Plain)
      BY <2>1
    <2>4. <<Step("save", ""), Step("cli", "")>> \in Seq(Plain) /\ <<Step("restore", "")>> \in Seq(Plain)
      BY <2>2, ShortSeq
    <2>5. bg \in Seq(Plain) /\ en \in Seq(Plain)
      BY <2>4 DEF begin, end
    <2> QED BY <2>3, <2>5
  <1>2. b \in Seq(Plain)
    OBVIOUS
  <1>3. With(m, b) = ((bg \o s1) \o b) \o (s2 \o en)
    BY DEF With, lock, drop
  <1>4. section(held(m, b)) = (bg \o ((s1 \o b) \o s2)) \o en
    BY DEF section, held
  <1> HIDE DEF s1, s2, bg, en
  <1>5. With(m, b) = section(held(m, b))
    <2>0. \A x \in Seq(Plain) : Rejoins(x)
      BY PlainAssociative DEF Rejoins
    <2> DEFINE q == s1 \o b
               p == (bg \o s1) \o b
    <2>1. bg \o s1 \in Seq(Plain)
      BY <1>1, ConcatProperties
    <2>2. q \in Seq(Plain) /\ p \in Seq(Plain)
      BY <1>1, <1>2, <2>1, ConcatProperties
    <2>3. Rejoins(bg) /\ Rejoins(p)
      BY <1>1, <2>0, <2>2
    <2>4. p = bg \o q
      BY <1>1, <1>2, <2>3 DEF Rejoins
    <2> HIDE DEF p, q
    <2>5. (p \o s2) \o en = p \o (s2 \o en)
      BY <1>1, <2>3 DEF Rejoins
    <2>6. (bg \o q) \o s2 = bg \o (q \o s2)
      BY <1>1, <2>2, <2>3 DEF Rejoins
    <2>7. p \o (s2 \o en) = (bg \o (q \o s2)) \o en
      BY <2>4, <2>5, <2>6
    <2> QED BY <1>3, <1>4, <2>7 DEF p, q
  <1>6. With(m, b) \in Seq(Plain)
    <2>1. (bg \o s1) \o b \in Seq(Plain) /\ s2 \o en \in Seq(Plain)
      BY <1>1, <1>2, ConcatProperties
    <2> QED BY <1>3, <2>1, ConcatProperties
  <1> QED BY <1>5, <1>6

\* A guard that is made while its mutex is free.
LEMMA WithRuns ==
  ASSUME NEW b, NEW h \in SUBSET Mutexes, NEW m \in Mutexes \ h, Runs(b, h \cup {m})
  PROVE  Runs(With(m, b), h)
  <1>1. RunsOff(held(m, b), h)
    BY RunsWithFlagClear, HeldRuns
  <1>2. With(m, b) = section(held(m, b))
    BY WithIsSection DEF Runs
  <1> QED BY <1>1, <1>2, SectionRuns

\* The same for balanced parts.
LEMMA WithBalanced ==
  ASSUME NEW b, NEW U, NEW V, NEW m \in Mutexes \ U, U \cup {m} \subseteq V, Balanced(b, U)
  PROVE  Balanced(With(m, b), V)
  <1>1. ASSUME NEW h \in SUBSET Mutexes, h \cap V = {} PROVE Runs(With(m, b), h)
    <2>1. h \cup {m} \in SUBSET Mutexes /\ (h \cup {m}) \cap U = {} /\ m \in Mutexes \ h
      BY <1>1
    <2>2. Runs(b, h \cup {m})
      BY <2>1, BalancedRuns
    <2> QED BY <2>1, <2>2, WithRuns
  <1>2. With(m, b) \in Seq(Plain)
    BY WithIsSection DEF Balanced
  <1> QED BY <1>1, <1>2 DEF Balanced

\* The steps that have nothing to do with locks.
LEMMA StepBalanced ==
  ASSUME NEW op \in Others, NEW arg \in Args, op = "write" => arg \in Buffers
  PROVE  Balanced(<<Step(op, arg)>>, {})
  <1> DEFINE s == Step(op, arg)
  <1>1. s \in Plain /\ s \in Steps /\ s.op = op
    BY DEF Step, Plain, Steps, PlainOps
  <1> HIDE DEF s
  <1>2. <<s>> \in Seq(Plain)
    BY <1>1
  <1>3. ASSUME NEW rest \in Seq(Steps), NEW h \in SUBSET Mutexes, NEW sv \in Seq(BOOLEAN),
               NEW f \in BOOLEAN, <<rest, h, sv, f>> \in Safe
        PROVE  <<<<s>> \o rest, h, sv, f>> \in Safe
    <2>1. /\ <<s>> \o rest \in Seq(Steps) /\ <<s>> \o rest # <<>> /\ (<<s>> \o rest)[1] = s
          /\ Tail(<<s>> \o rest) = rest
      BY <1>1, ConsFacts
    <2>2. h # {} => ~f
      BY <1>3, SafeFollows DEF Follows
    <2>3. SafeStep(Safe, <<s>> \o rest, h, sv, f)
      BY <1>1, <1>3, <2>1 DEF SafeStep, Others
    <2>4. Follows(Safe, <<s>> \o rest, h, sv, f)
      BY <2>1, <2>2, <2>3 DEF Follows
    <2> QED BY <2>1, <2>4, SafeIfFollows
  <1> QED BY <1>2, <1>3 DEF Balanced, Runs, s

\* The push into BUFF, which prints when the buffer is full.
LEMMA PushBalanced ==
  Balanced(<<Step("push", "")>>, {"CONSOLE"})
  <1> DEFINE s == Step("push", "")
  <1>1. s \in Plain /\ s \in Steps /\ s.op = "push"
    BY DEF Step, Plain, Steps, PlainOps, Args
  <1> HIDE DEF s
  <1>2. <<s>> \in Seq(Plain)
    BY <1>1
  <1>3. ASSUME NEW rest \in Seq(Steps), NEW h \in SUBSET Mutexes, NEW sv \in Seq(BOOLEAN),
               NEW f \in BOOLEAN, h \cap {"CONSOLE"} = {}, <<rest, h, sv, f>> \in Safe
        PROVE  <<<<s>> \o rest, h, sv, f>> \in Safe
    <2>1. /\ <<s>> \o rest \in Seq(Steps) /\ <<s>> \o rest # <<>> /\ (<<s>> \o rest)[1] = s
          /\ Tail(<<s>> \o rest) = rest
      BY <1>1, ConsFacts
    <2>2. h # {} => ~f
      BY <1>3, SafeFollows DEF Follows
    <2>3. SafeStep(Safe, <<s>> \o rest, h, sv, f)
      BY <1>1, <1>3, <2>1 DEF SafeStep
    <2>4. Follows(Safe, <<s>> \o rest, h, sv, f)
      BY <2>1, <2>2, <2>3 DEF Follows
    <2> QED BY <2>1, <2>4, SafeIfFollows
  <1> QED BY <1>2, <1>3 DEF Balanced, Runs, s

-----------------------------------------------------------------------------
(* The paths of the kernel, from the innermost locks outwards.             *)

\* temp_map locks the temporary page by itself.
LEMMA TempMapBalanced ==
  Balanced(temp_map, {"temp_page"})
  <1> DEFINE x == Step("take", "temp_page")
             y == Step("clear", "temp_page")
  <1>1. x \in Plain /\ y \in Plain
    BY DEF Step, Plain, PlainOps, Args, Mutexes
  <1>2. temp_map = section(<<x, y>>) /\ held("temp_page", <<>>) = (<<x>> \o <<>>) \o <<y>>
    BY DEF temp_map, held
  <1> HIDE DEF x, y
  <1>3. <<x>> \in Seq(Plain) /\ <<y>> \in Seq(Plain) /\ <<x, y>> \in Seq(Plain)
    BY <1>1, ShortSeq
  <1>4. (<<x>> \o <<>>) \o <<y>> = <<x, y>>
    <2>1. <<x>> \o <<>> = <<x>>
      BY <1>3, ConcatEmptySeq
    <2>2. <<x>> \o <<y>> = <<x, y>>
      BY <1>1, PairConcat
    <2> QED BY <2>1, <2>2
  <1>5. With("temp_page", <<>>) = section(held("temp_page", <<>>))
    <2>1. <<>> \in Seq(Plain) /\ "temp_page" \in Mutexes
      BY DEF Mutexes
    <2> QED BY <2>1, WithIsSection
  <1>6. "temp_page" \in Mutexes \ {} /\ {} \cup {"temp_page"} \subseteq {"temp_page"}
    BY DEF Mutexes
  <1>7. Balanced(With("temp_page", <<>>), {"temp_page"})
    BY <1>6, EmptyBalanced, WithBalanced
  <1> QED BY <1>2, <1>4, <1>5, <1>7

\* A mutex that is locked and freed with nothing in between.
LEMMA BriefBalanced ==
  ASSUME NEW m \in Mutexes, NEW V, m \in V
  PROVE  Balanced(With(m, <<>>), V)
  <1>1. Balanced(<<>>, {})
    BY EmptyBalanced
  <1>2. m \in Mutexes \ {} /\ {} \cup {m} \subseteq V
    OBVIOUS
  <1> QED BY <1>1, <1>2, WithBalanced

PhysLocks == {"NEXT_FREE_PHYS", "PHYS_BUMP_ALLOC", "temp_page"}
PageLocks == PhysLocks \cup {"kvirt ALLOCATOR"}
HeapLocks == PageLocks \cup {"ALLOCATOR"}

\* The physical allocator, with and without memory: it locks the temporary page.
LEMMA PhysBalanced ==
  /\ Balanced(alloc_freelist, PhysLocks) /\ Balanced(alloc_new, PhysLocks)
  /\ Balanced(exhausted, PhysLocks) /\ Balanced(drop_phys, PhysLocks)
  /\ Balanced(temp_map, PhysLocks)
  /\ Balanced(page_map, PhysLocks) /\ Balanced(map_fails, PhysLocks)
  <1>1. Balanced(With("NEXT_FREE_PHYS", temp_map), PhysLocks)
    <2>1. "NEXT_FREE_PHYS" \in Mutexes \ {"temp_page"} /\ {"temp_page"} \cup {"NEXT_FREE_PHYS"} \subseteq PhysLocks
      BY DEF Mutexes, PhysLocks
    <2> QED BY <2>1, TempMapBalanced, WithBalanced
  <1>2. Balanced(With("PHYS_BUMP_ALLOC", temp_map), PhysLocks)
    <2>1. "PHYS_BUMP_ALLOC" \in Mutexes \ {"temp_page"} /\ {"temp_page"} \cup {"PHYS_BUMP_ALLOC"} \subseteq PhysLocks
      BY DEF Mutexes, PhysLocks
    <2> QED BY <2>1, TempMapBalanced, WithBalanced
  <1>3. Balanced(With("NEXT_FREE_PHYS", <<>>), PhysLocks) /\ Balanced(With("PHYS_BUMP_ALLOC", <<>>), PhysLocks)
    <2>1. /\ "NEXT_FREE_PHYS" \in Mutexes /\ "NEXT_FREE_PHYS" \in PhysLocks
          /\ "PHYS_BUMP_ALLOC" \in Mutexes /\ "PHYS_BUMP_ALLOC" \in PhysLocks
      BY DEF Mutexes, PhysLocks
    <2> QED BY <2>1, BriefBalanced
  <1>4. Balanced(alloc_freelist, PhysLocks) /\ Balanced(drop_phys, PhysLocks)
    BY <1>1 DEF alloc_freelist, drop_phys
  <1>5. Balanced(alloc_new, PhysLocks) /\ Balanced(exhausted, PhysLocks)
    BY <1>2, <1>3, ConcatBalanced DEF alloc_new, exhausted
  <1>6. Balanced(page_map, PhysLocks)
    BY <1>5, SectionBalanced DEF page_map
  <1>7. Balanced(map_fails, PhysLocks)
    BY <1>4, <1>5, ConcatBalanced, SectionBalanced DEF map_fails
  <1>8. Balanced(temp_map, PhysLocks)
    <2>1. {"temp_page"} \subseteq PhysLocks
      BY DEF PhysLocks
    <2> QED BY <2>1, TempMapBalanced, BalancedGrows
  <1> QED BY <1>4, <1>5, <1>6, <1>7, <1>8

\* The pages of the heap.
LEMMA PagesBalanced ==
  /\ Balanced(alloc_page, PageLocks)
  /\ \A x \in alloc_page_fails : Balanced(x, PageLocks)
  <1>1. "kvirt ALLOCATOR" \in Mutexes /\ "kvirt ALLOCATOR" \in PageLocks /\ PhysLocks \subseteq PageLocks
    BY DEF Mutexes, PageLocks
  <1>2. Balanced(With("kvirt ALLOCATOR", <<>>), PageLocks)
    BY <1>1, BriefBalanced
  <1>3. /\ Balanced(alloc_freelist, PageLocks) /\ Balanced(page_map, PageLocks)
        /\ Balanced(map_fails, PageLocks) /\ Balanced(exhausted, PageLocks)
    BY <1>1, PhysBalanced, BalancedGrows
  <1>4. Balanced(new_page, PageLocks)
    BY <1>2, <1>3, Balanced3 DEF new_page
  <1>5. Balanced(alloc_page, PageLocks)
    BY <1>3, <1>4, ConcatBalanced DEF alloc_page
  <1>6. /\ Balanced(With("kvirt ALLOCATOR", <<>>) \o exhausted, PageLocks)
        /\ Balanced(new_page \o map_fails, PageLocks)
    BY <1>2, <1>3, <1>4, ConcatBalanced
  <1> QED BY <1>5, <1>6 DEF alloc_page_fails

\* The heap locks its own mutex, then that of the addresses.
LEMMA HeapBalanced ==
  /\ Balanced(dealloc, HeapLocks)
  /\ \A h \in heap_alloc \cup heap_fails \cup kalloc_fails(drop_phys) : Balanced(h, HeapLocks)
  <1>1. "ALLOCATOR" \in Mutexes \ PageLocks /\ PageLocks \cup {"ALLOCATOR"} \subseteq HeapLocks
    BY DEF Mutexes, PhysLocks, PageLocks, HeapLocks
  <1>2. ASSUME NEW b, Balanced(b, PageLocks) PROVE Balanced(With("ALLOCATOR", b), HeapLocks)
    BY <1>1, <1>2, WithBalanced
  <1>3. Balanced(With("ALLOCATOR", <<>>), HeapLocks)
    BY <1>2, EmptyBalanced
  <1>4. \A h \in heap_alloc : Balanced(h, HeapLocks)
    BY <1>2, <1>3, PagesBalanced DEF heap_alloc
  <1>5. \A h \in heap_fails : Balanced(h, HeapLocks)
    BY <1>2, PagesBalanced DEF heap_fails
  <1>6. ASSUME NEW h \in kalloc_fails(drop_phys) PROVE Balanced(h, HeapLocks)
    <2>1. PICK x \in alloc_page_fails : h = With("ALLOCATOR", x \o drop_phys)
      BY DEF kalloc_fails
    <2>2. PhysLocks \subseteq PageLocks
      BY DEF PageLocks
    <2>3. Balanced(x, PageLocks) /\ Balanced(drop_phys, PageLocks)
      BY <2>2, PhysBalanced, PagesBalanced, BalancedGrows
    <2>4. Balanced(x \o drop_phys, PageLocks)
      BY <2>3, ConcatBalanced
    <2> QED BY <1>2, <2>1, <2>4
  <1> QED BY <1>3, <1>4, <1>5, <1>6 DEF dealloc

\* A block that is freed with ALLOCATOR locked, where NoRecursiveLock allows it.
LEMMA RecursiveRuns ==
  ASSUME NEW h \in Recursive
  PROVE  Runs(dealloc, h)
  <1> DEFINE s1 == Step("take", "ALLOCATOR")
             s2 == Step("clear", "ALLOCATOR")
  <1>0. h \in SUBSET Mutexes /\ "ALLOCATOR" \in Mutexes /\ <<>> \in Seq(Plain)
    <2>1. {"future", "TASK_FUTURES", "ALLOCATOR"} \subseteq Mutexes
      BY DEF Mutexes
    <2>2. h \subseteq {"future", "TASK_FUTURES", "ALLOCATOR"}
      BY DEF Recursive
    <2> QED BY <2>1, <2>2
  <1>1. s1 \in Plain /\ s2 \in Plain /\ Plain \subseteq Steps
    BY <1>0 DEF Step, Plain, Steps, PlainOps, Args
  <1>2. s1.op = "take" /\ s1.arg = "ALLOCATOR"
    BY DEF Step
  <1>3. held("ALLOCATOR", <<>>) = (<<s1>> \o <<>>) \o <<s2>>
    BY DEF held
  <1> HIDE DEF s1, s2
  <1>4. <<s1>> \in Seq(Plain) /\ <<s2>> \in Seq(Plain) /\ <<s1>> \in Seq(Steps) /\ <<s2>> \in Seq(Steps)
    BY <1>1
  <1>5. held("ALLOCATOR", <<>>) = <<s1>> \o <<s2>> /\ <<s1>> \o <<s2>> \in Seq(Plain)
    BY <1>3, <1>4, ConcatEmptySeq, ConcatProperties
  <1>6. ASSUME NEW rest \in Seq(Steps), NEW sv \in Seq(BOOLEAN)
        PROVE  <<(<<s1>> \o <<s2>>) \o rest, h, sv, FALSE>> \in Safe
    <2> DEFINE d == <<s2>> \o rest
    <2>1. d \in Seq(Steps)
      BY <1>4, ConcatProperties
    <2>2. (<<s1>> \o <<s2>>) \o rest = <<s1>> \o d
      BY <1>4, ConcatAssociative
    <2> HIDE DEF d
    <2>3. <<s1>> \o d \in Seq(Steps) /\ <<s1>> \o d # <<>> /\ (<<s1>> \o d)[1] = s1
      BY <1>1, <2>1, ConsFacts
    <2>4. SafeStep(Safe, <<s1>> \o d, h, sv, FALSE)
      BY <1>2, <2>3 DEF SafeStep
    <2>5. Follows(Safe, <<s1>> \o d, h, sv, FALSE)
      BY <2>3, <2>4 DEF Follows
    <2>6. <<<<s1>> \o d, h, sv, FALSE>> \in Safe
      BY <1>0, <2>3, <2>5, SafeIfFollows
    <2> QED BY <2>2, <2>6
  <1>7. RunsOff(held("ALLOCATOR", <<>>), h)
    BY <1>5, <1>6 DEF RunsOff
  <1>8. dealloc = section(held("ALLOCATOR", <<>>))
    BY <1>0, WithIsSection DEF dealloc
  <1> QED BY <1>0, <1>7, <1>8, SectionRuns

\* So kalloc::alloc runs when it fails and drops a value that owns a block, with the
\* mutexes locked that are in open_file or in spawn.
LEMMA DropsRun ==
  ASSUME NEW h, h \cup {"ALLOCATOR"} \in Recursive, "ALLOCATOR" \notin h,
         NEW x \in kalloc_fails(dealloc)
  PROVE  Runs(x, h)
  <1>1. PICK y \in alloc_page_fails : x = With("ALLOCATOR", y \o dealloc)
    BY DEF kalloc_fails
  <1>2. /\ h \cup {"ALLOCATOR"} \in SUBSET Mutexes /\ (h \cup {"ALLOCATOR"}) \cap PageLocks = {}
        /\ h \in SUBSET Mutexes /\ "ALLOCATOR" \in Mutexes \ h
    BY DEF Recursive, Mutexes, PageLocks, PhysLocks
  <1>3. Runs(y, h \cup {"ALLOCATOR"})
    BY <1>2, PagesBalanced, BalancedRuns
  <1>4. Runs(dealloc, h \cup {"ALLOCATOR"})
    BY RecursiveRuns
  <1>5. Runs(y \o dealloc, h \cup {"ALLOCATOR"})
    BY <1>3, <1>4, ConcatRuns
  <1> QED BY <1>1, <1>2, <1>5, WithRuns

PollLocks == Mutexes \ {"future"}
InPoll(b) == Balanced(b, PollLocks)
Maps == {"TASK_HANDLES", "TASK_STATES", "TASK_FUTURES", "TASKS"}

\* What is balanced, runs with only the future locked.
LEMMA InPollRuns ==
  ASSUME NEW b, InPoll(b)
  PROVE  Runs(b, {"future"})
  <1>1. {"future"} \in SUBSET Mutexes /\ {"future"} \cap PollLocks = {}
    BY DEF Mutexes, PollLocks
  <1> QED BY <1>1, BalancedRuns DEF InPoll

\* The parts of a poll that lock no map, and the short critical sections of the
\* scheduler and of the objects.
LEMMA PartsInPoll ==
  /\ Balanced(println, {"CONSOLE"}) /\ Balanced(current, {"CURRENT_TASK"})
  /\ InPoll(<<>>) /\ InPoll(println) /\ InPoll(current) /\ InPoll(dealloc)
  /\ InPoll(alloc_freelist) /\ InPoll(alloc_new) /\ InPoll(exhausted) /\ InPoll(drop_phys)
  /\ InPoll(temp_map) /\ InPoll(page_map) /\ InPoll(map_fails)
  /\ \A h \in heap_alloc \cup heap_fails \cup kalloc_fails(drop_phys) : InPoll(h)
  /\ InPoll(get_page_ctx) /\ InPoll(get) /\ InPoll(resume)
  <1>1. Balanced(println, {"CONSOLE"})
    <2>1. "CONSOLE" \in Mutexes \ {} /\ {} \cup {"CONSOLE"} \subseteq {"CONSOLE"}
      BY DEF Mutexes
    <2>2. Balanced(<<Step("print", "")>>, {})
      BY StepBalanced DEF Others, Args
    <2>3. Balanced(With("CONSOLE", <<Step("print", "")>>), {"CONSOLE"})
      BY <2>1, <2>2, WithBalanced
    <2> QED BY <2>3 DEF println
  <1>2. Balanced(current, {"CURRENT_TASK"})
    <2>1. "CURRENT_TASK" \in Mutexes /\ "CURRENT_TASK" \in {"CURRENT_TASK"}
      BY DEF Mutexes
    <2> QED BY <2>1, BriefBalanced DEF current
  <1>3. /\ {"CONSOLE"} \subseteq PollLocks /\ {"CURRENT_TASK"} \subseteq PollLocks
        /\ HeapLocks \subseteq PollLocks /\ PhysLocks \subseteq PollLocks
    BY DEF Mutexes, PhysLocks, PageLocks, HeapLocks, PollLocks
  <1>4. InPoll(<<>>) /\ InPoll(println) /\ InPoll(current)
    BY <1>1, <1>2, <1>3, EmptyBalanced, BalancedGrows DEF InPoll
  <1>5. InPoll(dealloc) /\ \A h \in heap_alloc \cup heap_fails \cup kalloc_fails(drop_phys) : InPoll(h)
    BY <1>3, HeapBalanced, BalancedGrows DEF InPoll
  <1>6. /\ InPoll(alloc_freelist) /\ InPoll(alloc_new) /\ InPoll(exhausted) /\ InPoll(drop_phys)
        /\ InPoll(temp_map) /\ InPoll(page_map) /\ InPoll(map_fails)
    BY <1>3, PhysBalanced, BalancedGrows DEF InPoll
  <1>7. InPoll(get_page_ctx)
    <2>1. "TASKS" \in Mutexes \ {"CURRENT_TASK"} /\ {"CURRENT_TASK"} \cup {"TASKS"} \subseteq PollLocks
      BY DEF Mutexes, PollLocks
    <2> QED BY <1>2, <2>1, WithBalanced DEF get_page_ctx, InPoll
  <1>8. \A m \in Maps : InPoll(With(m, <<>>))
    <2>1. \A m \in Maps : m \in Mutexes /\ m \in PollLocks
      BY DEF Mutexes, PollLocks, Maps
    <2> QED BY <2>1, BriefBalanced DEF InPoll
  <1>9. InPoll(resume)
    BY <1>8 DEF resume, Maps
  <1>10. InPoll(get)
    BY <1>4, <1>8, ConcatBalanced DEF get, InPoll, Maps
  <1> QED BY <1>1, <1>2, <1>4, <1>5, <1>6, <1>7, <1>9, <1>10

\* The heap is used with a map locked.
LEMMA MapInPoll ==
  ASSUME NEW b, Balanced(b, HeapLocks), NEW m \in Maps
  PROVE  InPoll(With(m, b))
  <1>1. m \in Mutexes \ HeapLocks /\ HeapLocks \cup {m} \subseteq PollLocks
    BY DEF Mutexes, PhysLocks, PageLocks, HeapLocks, PollLocks, Maps
  <1> QED BY <1>1, WithBalanced DEF InPoll

\* Two parts of a poll one after the other, and one in a critical section.
LEMMA ConcatInPoll ==
  ASSUME NEW a, NEW b, InPoll(a), InPoll(b)
  PROVE  InPoll(a \o b)
  BY ConcatBalanced DEF InPoll

LEMMA SectionInPoll ==
  ASSUME NEW b, InPoll(b)
  PROVE  InPoll(section(b))
  BY SectionBalanced DEF InPoll

\* object::put, with and without memory for the handle.
LEMMA PutsInPoll ==
  ASSUME NEW p \in put \cup put_fails(<<>>) \cup put_fails(drop_phys \o dealloc)
  PROVE  InPoll(p)
  <1>1. "TASK_HANDLES" \in Maps /\ PhysLocks \subseteq HeapLocks
    BY DEF Maps, HeapLocks, PageLocks
  <1>2. Balanced(<<>>, HeapLocks) /\ Balanced(drop_phys \o dealloc, HeapLocks)
    <2>1. Balanced(drop_phys, HeapLocks)
      BY <1>1, PhysBalanced, BalancedGrows
    <2> QED BY <2>1, HeapBalanced, EmptyBalanced, ConcatBalanced
  <1>3. ASSUME NEW b, Balanced(b, HeapLocks) PROVE InPoll(current \o With("TASK_HANDLES", b))
    <2>1. InPoll(With("TASK_HANDLES", b))
      BY <1>1, <1>3, MapInPoll
    <2> QED BY <2>1, PartsInPoll, ConcatInPoll
  <1>4. ASSUME NEW o, Balanced(o, HeapLocks), NEW q \in put_fails(o) PROVE InPoll(q)
    <2>1. PICK x \in heap_fails : q = current \o With("TASK_HANDLES", x \o o)
      BY <1>4 DEF put_fails
    <2>2. Balanced(x \o o, HeapLocks)
      BY <1>4, HeapBalanced, ConcatBalanced
    <2> QED BY <1>3, <2>1, <2>2
  <1>5. CASE p \in put
    <2>1. PICK x \in heap_alloc : p = current \o With("TASK_HANDLES", x)
      BY <1>5 DEF put
    <2>2. Balanced(x, HeapLocks)
      BY HeapBalanced
    <2> QED BY <1>3, <2>1, <2>2
  <1> QED BY <1>2, <1>4, <1>5

\* The disk, whether there is a drive or not.
LEMMA DiskInPoll ==
  ASSUME NEW drive \in {"drive", "no drive"}
  PROVE  InPoll(disk(drive))
  <1>1. Balanced(<<Step("wait", drive)>>, {})
    BY StepBalanced DEF Others, Args
  <1>2. "io" \in Mutexes \ {} /\ {} \cup {"io"} \subseteq PollLocks
    BY DEF Mutexes, PollLocks
  <1> QED BY <1>1, <1>2, WithBalanced DEF disk, InPoll

\* The calls on pages.
LEMMA PageCallsInPoll ==
  ASSUME NEW c \in page_calls
  PROVE  InPoll(c)
  <1>1. ASSUME NEW w, InPoll(w) PROVE InPoll(println \o section(w))
    BY <1>1, PartsInPoll, SectionInPoll, ConcatInPoll
  <1>2. /\ InPoll(alloc_freelist \o page_map) /\ InPoll(alloc_freelist \o map_fails)
        /\ InPoll(println \o drop_phys)
    BY PartsInPoll, ConcatInPoll
  <1>3. PICK w \in {alloc_freelist \o page_map, alloc_freelist \o map_fails, exhausted,
                    page_map, println \o drop_phys} : c = println \o section(w)
    BY DEF page_calls
  <1>4. InPoll(w)
    BY <1>2, <1>3, PartsInPoll
  <1> QED BY <1>1, <1>3, <1>4

\* open_file runs, and so it does when it has no memory for the file it has opened.
LEMMA OpenFileRuns ==
  ASSUME NEW c \in open_file
  PROVE  Runs(c, {"future"})
  <1> DEFINE entry == get_page_ctx \o disk("drive")
             opened == ((entry \o dealloc) \o println) \o dealloc
  <1>0. {"future"} \in SUBSET Mutexes
    BY DEF Mutexes
  <1>1. InPoll(entry) /\ InPoll(opened) /\ InPoll(opened \o dealloc)
    <2>1. InPoll(disk("drive"))
      BY DiskInPoll
    <2>2. InPoll(entry)
      BY <2>1, PartsInPoll, ConcatInPoll
    <2>3. InPoll(opened)
      <3>1. InPoll(entry \o dealloc)
        BY <2>2, PartsInPoll, ConcatInPoll
      <3>2. InPoll((entry \o dealloc) \o println)
        BY <3>1, PartsInPoll, ConcatInPoll
      <3> QED BY <3>2, PartsInPoll, ConcatInPoll
    <2> QED BY <2>2, <2>3, PartsInPoll, ConcatInPoll
  <1>2. PICK w \in {entry \o x : x \in heap_fails}
                     \cup {opened \o x : x \in kalloc_fails(dealloc)}
                     \cup {(opened \o dealloc) \o p : p \in put \cup put_fails(<<>>)} :
             c = println \o section(w)
    BY DEF open_file
  <1> HIDE DEF entry, opened
  <1>3. Runs(w, {"future"})
    <2>1. CASE w \in {entry \o x : x \in heap_fails}
      <3>1. PICK x \in heap_fails : w = entry \o x
        BY <2>1
      <3>2. InPoll(w)
        BY <1>1, <3>1, PartsInPoll, ConcatInPoll
      <3> QED BY <3>2, InPollRuns
    <2>2. CASE w \in {opened \o x : x \in kalloc_fails(dealloc)}
      <3>1. PICK x \in kalloc_fails(dealloc) : w = opened \o x
        BY <2>2
      <3>2. {"future"} \cup {"ALLOCATOR"} \in Recursive /\ "ALLOCATOR" \notin {"future"}
        BY DEF Recursive
      <3>3. Runs(x, {"future"})
        BY <3>2, DropsRun
      <3> QED BY <1>1, <3>1, <3>3, InPollRuns, ConcatRuns
    <2>3. CASE w \in {(opened \o dealloc) \o p : p \in put \cup put_fails(<<>>)}
      <3>1. PICK p \in put \cup put_fails(<<>>) : w = (opened \o dealloc) \o p
        BY <2>3
      <3>2. InPoll(w)
        BY <1>1, <3>1, PutsInPoll, ConcatInPoll
      <3> QED BY <3>2, InPollRuns
    <2> QED BY <1>2, <2>1, <2>2, <2>3
  <1>4. Runs(section(w), {"future"})
    BY <1>0, <1>3, RunsWithFlagClear, SectionRuns
  <1>5. Runs(println, {"future"})
    BY PartsInPoll, InPollRuns
  <1> QED BY <1>2, <1>4, <1>5, ConcatRuns

\* File::read and write.
LEMMA FilesInPoll ==
  /\ \A c \in read_file : InPoll(c)
  /\ InPoll(read_console)
  /\ \A b \in Buffers : InPoll(write_console(b))
  <1>1. ASSUME NEW w, InPoll(w) PROVE InPoll(get \o section(w))
    BY <1>1, PartsInPoll, SectionInPoll, ConcatInPoll
  <1>2. ASSUME NEW c \in read_file PROVE InPoll(c)
    <2>1. PICK w \in heap_fails \cup {((h \o disk("drive")) \o dealloc) \o With("TASK_STATES", <<>>) : h \in heap_alloc} :
            c = get \o section(w)
      BY DEF read_file
    <2>2. CASE w \in heap_fails
      BY <1>1, <2>1, <2>2, PartsInPoll
    <2>3. CASE w \notin heap_fails
      <3>1. PICK h \in heap_alloc : w = ((h \o disk("drive")) \o dealloc) \o resume
        BY <2>1, <2>3 DEF resume
      <3>2. InPoll(h \o disk("drive"))
        BY DiskInPoll, PartsInPoll, ConcatInPoll
      <3>3. InPoll((h \o disk("drive")) \o dealloc)
        BY <3>2, PartsInPoll, ConcatInPoll
      <3>4. InPoll(w)
        BY <3>1, <3>3, PartsInPoll, ConcatInPoll
      <3> QED BY <1>1, <2>1, <3>4
    <2> QED BY <2>2, <2>3
  <1>3. ASSUME NEW m \in {"BUFF", "CONSOLE"}, NEW b, Balanced(b, {}) PROVE InPoll(get \o section(With(m, b)))
    <2>1. m \in Mutexes \ {} /\ {} \cup {m} \subseteq PollLocks
      BY DEF Mutexes, PollLocks
    <2>2. InPoll(With(m, b))
      BY <1>3, <2>1, WithBalanced DEF InPoll
    <2> QED BY <1>1, <2>2
  <1>4. InPoll(read_console)
    <2>1. Balanced(<<Step("pop", "")>>, {})
      BY StepBalanced DEF Others, Args
    <2> QED BY <1>3, <2>1 DEF read_console
  <1>5. ASSUME NEW b \in Buffers PROVE InPoll(write_console(b))
    <2> DEFINE x == Step("write", b)
               y == Step("writing", "")
    <2>1. Balanced(<<x>>, {}) /\ Balanced(<<y>>, {})
      <3>1. "write" \in Others /\ b \in Args /\ "writing" \in Others /\ "" \in Args /\ "writing" # "write"
        BY DEF Others, Args
      <3>2. Balanced(<<x>>, {})
        BY <3>1, StepBalanced
      <3>3. Balanced(<<y>>, {})
        BY <3>1, StepBalanced
      <3> QED BY <3>2, <3>3
    <2>2. x \in Plain /\ y \in Plain
      BY DEF Step, Plain, PlainOps, Others, Args
    <2>3. write_console(b) = get \o section(With("CONSOLE", <<x, y>>))
      BY DEF write_console
    <2> HIDE DEF x, y
    <2>4. <<x>> \o <<y>> = <<x, y>>
      BY <2>2, PairConcat
    <2>5. Balanced(<<x, y>>, {})
      BY <2>1, <2>4, ConcatBalanced
    <2> QED BY <1>3, <2>3, <2>5
  <1> QED BY <1>2, <1>4, <1>5

\* Object::new of a page context.
LEMMA ContextInPoll ==
  ASSUME NEW c \in create_page_context
  PROVE  InPoll(c)
  <1> DEFINE ctx == alloc_freelist \o temp_map
  <1>1. InPoll(ctx) /\ InPoll(ctx \o dealloc)
    BY PartsInPoll, ConcatInPoll
  <1>2. \/ c = exhausted
        \/ \E x \in kalloc_fails(drop_phys) : c = ctx \o x
        \/ \E p \in put \cup put_fails(drop_phys \o dealloc) : c = (ctx \o dealloc) \o p
    BY DEF create_page_context
  <1> HIDE DEF ctx
  <1>3. CASE c = exhausted
    BY <1>3, PartsInPoll
  <1>4. CASE \E x \in kalloc_fails(drop_phys) : c = ctx \o x
    BY <1>1, <1>4, PartsInPoll, ConcatInPoll
  <1>5. CASE \E p \in put \cup put_fails(drop_phys \o dealloc) : c = (ctx \o dealloc) \o p
    BY <1>1, <1>5, PutsInPoll, ConcatInPoll
  <1> QED BY <1>2, <1>3, <1>4, <1>5

\* A spawn that has the memory it needs.
LEMMA SpawnInPoll ==
  ASSUME NEW s \in spawn
  PROVE  InPoll(s)
  <1>1. PICK h \in heap_alloc :
          s = ((h \o With("TASK_STATES", h)) \o With("TASK_FUTURES", h \o h)) \o With("TASKS", h)
    BY DEF spawn
  <1>2. Balanced(h, HeapLocks) /\ Balanced(h \o h, HeapLocks) /\ InPoll(h)
    BY HeapBalanced, ConcatBalanced, PartsInPoll
  <1>3. "TASK_STATES" \in Maps /\ "TASK_FUTURES" \in Maps /\ "TASKS" \in Maps
    BY DEF Maps
  <1>4. InPoll(With("TASK_STATES", h)) /\ InPoll(With("TASK_FUTURES", h \o h)) /\ InPoll(With("TASKS", h))
    BY <1>2, <1>3, MapInPoll
  <1>5. InPoll(h \o With("TASK_STATES", h))
    BY <1>2, <1>4, ConcatInPoll
  <1>6. InPoll((h \o With("TASK_STATES", h)) \o With("TASK_FUTURES", h \o h))
    BY <1>4, <1>5, ConcatInPoll
  <1> QED BY <1>1, <1>4, <1>6, ConcatInPoll

\* A spawn that fails, wherever it does.
LEMMA SpawnFailsRun ==
  ASSUME NEW s \in spawn_fails
  PROVE  Runs(s, {"future"})
  <1> DEFINE states == With("TASK_STATES", dealloc)
             two == dealloc \o dealloc
  <1>0. "TASK_STATES" \in Maps /\ "TASK_FUTURES" \in Maps /\ "TASKS" \in Maps
    BY DEF Maps
  <1>1. Balanced(dealloc, HeapLocks) /\ Balanced(two, HeapLocks) /\ Balanced(<<>>, HeapLocks)
    BY HeapBalanced, EmptyBalanced, ConcatBalanced
  <1>2. InPoll(states) /\ InPoll(dealloc) /\ InPoll(dealloc \o states)
    BY <1>0, <1>1, MapInPoll, PartsInPoll, ConcatInPoll
  <1>3. ASSUME NEW f, Balanced(f, HeapLocks) PROVE InPoll(roll_back(f))
    <2>1. InPoll(With("TASKS", <<>>)) /\ InPoll(With("TASK_FUTURES", f))
      BY <1>0, <1>1, <1>3, MapInPoll
    <2>2. InPoll(With("TASKS", <<>>) \o With("TASK_FUTURES", f))
      BY <2>1, ConcatInPoll
    <2>3. InPoll((With("TASKS", <<>>) \o With("TASK_FUTURES", f)) \o With("TASK_STATES", dealloc))
      BY <1>2, <2>2, ConcatInPoll
    <2> QED BY <2>3 DEF roll_back
  <1>4. InPoll(roll_back(<<>>)) /\ InPoll(roll_back(two))
    BY <1>1, <1>3
  <1>5. \/ s \in heap_fails
        \/ \E x \in heap_fails : s = ((dealloc \o With("TASK_STATES", x)) \o dealloc) \o roll_back(<<>>)
        \/ \E x \in kalloc_fails(dealloc) : s = (dealloc \o states) \o With("TASK_FUTURES", x)
        \/ \E x \in heap_fails : s = ((dealloc \o states) \o With("TASK_FUTURES", ((dealloc \o x) \o dealloc) \o dealloc))
                                       \o roll_back(<<>>)
        \/ \E x \in heap_fails : s = (((dealloc \o states) \o With("TASK_FUTURES", two)) \o With("TASKS", x))
                                       \o roll_back(two)
    BY DEF spawn_fails
  <1> HIDE DEF states, two
  <1>6. CASE s \in heap_fails
    BY <1>6, PartsInPoll, InPollRuns
  <1>7. ASSUME NEW x \in heap_fails, s = ((dealloc \o With("TASK_STATES", x)) \o dealloc) \o roll_back(<<>>)
        PROVE  Runs(s, {"future"})
    <2>1. InPoll(With("TASK_STATES", x))
      BY <1>0, HeapBalanced, MapInPoll
    <2>2. InPoll(dealloc \o With("TASK_STATES", x))
      BY <1>2, <2>1, ConcatInPoll
    <2>3. InPoll((dealloc \o With("TASK_STATES", x)) \o dealloc)
      BY <1>2, <2>2, ConcatInPoll
    <2>4. InPoll(s)
      BY <1>4, <1>7, <2>3, ConcatInPoll
    <2> QED BY <2>4, InPollRuns
  <1>8. ASSUME NEW x \in kalloc_fails(dealloc), s = (dealloc \o states) \o With("TASK_FUTURES", x)
        PROVE  Runs(s, {"future"})
    <2>1. /\ ({"future"} \cup {"TASK_FUTURES"}) \cup {"ALLOCATOR"} \in Recursive
          /\ "ALLOCATOR" \notin {"future"} \cup {"TASK_FUTURES"}
      <3>1. ({"future"} \cup {"TASK_FUTURES"}) \cup {"ALLOCATOR"} = {"future", "TASK_FUTURES", "ALLOCATOR"}
        OBVIOUS
      <3> QED BY <3>1 DEF Recursive
    <2>2. Runs(x, {"future"} \cup {"TASK_FUTURES"})
      BY <1>8, <2>1, DropsRun
    <2>3. {"future"} \in SUBSET Mutexes /\ "TASK_FUTURES" \in Mutexes \ {"future"}
      BY DEF Mutexes
    <2>4. Runs(With("TASK_FUTURES", x), {"future"})
      BY <2>2, <2>3, WithRuns
    <2>5. Runs(dealloc \o states, {"future"})
      BY <1>2, InPollRuns
    <2> QED BY <1>8, <2>4, <2>5, ConcatRuns
  <1>9. ASSUME NEW x \in heap_fails,
               s = ((dealloc \o states) \o With("TASK_FUTURES", ((dealloc \o x) \o dealloc) \o dealloc)) \o roll_back(<<>>)
        PROVE  Runs(s, {"future"})
    <2> DEFINE b == ((dealloc \o x) \o dealloc) \o dealloc
    <2>1. Balanced(x, HeapLocks)
      BY <1>9, HeapBalanced
    <2>2. Balanced(b, HeapLocks)
      BY <1>1, <2>1, Balanced4
    <2>3. s = ((dealloc \o states) \o With("TASK_FUTURES", b)) \o roll_back(<<>>)
      BY <1>9
    <2> HIDE DEF b
    <2>4. InPoll(With("TASK_FUTURES", b))
      BY <1>0, <2>2, MapInPoll
    <2>5. InPoll((dealloc \o states) \o With("TASK_FUTURES", b))
      BY <1>2, <2>4, ConcatInPoll
    <2>6. InPoll(s)
      BY <1>4, <2>3, <2>5, ConcatInPoll
    <2> QED BY <2>6, InPollRuns
  <1>10. ASSUME NEW x \in heap_fails,
                s = (((dealloc \o states) \o With("TASK_FUTURES", two)) \o With("TASKS", x)) \o roll_back(two)
         PROVE  Runs(s, {"future"})
    <2>1. InPoll(With("TASK_FUTURES", two)) /\ InPoll(With("TASKS", x))
      BY <1>0, <1>1, <1>10, HeapBalanced, MapInPoll
    <2>2. InPoll((dealloc \o states) \o With("TASK_FUTURES", two))
      BY <1>2, <2>1, ConcatInPoll
    <2>3. InPoll(((dealloc \o states) \o With("TASK_FUTURES", two)) \o With("TASKS", x))
      BY <2>1, <2>2, ConcatInPoll
    <2>4. InPoll(s)
      BY <1>4, <1>10, <2>3, ConcatInPoll
    <2> QED BY <2>4, InPollRuns
  <1> QED BY <1>5, <1>6, <1>7, <1>8, <1>9, <1>10

\* A system call runs in a poll, with only the future locked.
LEMMA CallsRun ==
  ASSUME NEW c \in Calls
  PROVE  Runs(c, {"future"})
  <1>1. \/ c \in page_calls \cup read_file \cup {read_console} \cup {write_console(b) : b \in Buffers}
                  \cup create_page_context
        \/ c \in open_file
        \/ \E p \in put \cup put_fails(<<>>) : c = get \o p \/ c = get_page_ctx \o p
        \/ c = ((current \o With("TASK_HANDLES", dealloc)) \o drop_phys) \o dealloc
        \/ c = get \o drop_phys
        \/ \E s \in spawn \cup spawn_fails : c = (get \o get_page_ctx) \o s
    BY DEF Calls
  <1>2. CASE c \in page_calls \cup read_file \cup {read_console} \cup {write_console(b) : b \in Buffers}
                     \cup create_page_context
    <2>1. InPoll(c)
      BY <1>2, PageCallsInPoll, FilesInPoll, ContextInPoll
    <2> QED BY <2>1, InPollRuns
  <1>3. CASE c \in open_file
    BY <1>3, OpenFileRuns
  <1>4. CASE \E p \in put \cup put_fails(<<>>) : c = get \o p \/ c = get_page_ctx \o p
    <2>1. PICK p \in put \cup put_fails(<<>>) : c = get \o p \/ c = get_page_ctx \o p
      BY <1>4
    <2>2. InPoll(p)
      BY PutsInPoll
    <2>3. InPoll(c)
      BY <2>1, <2>2, PartsInPoll, ConcatInPoll
    <2> QED BY <2>3, InPollRuns
  <1>5. CASE c = ((current \o With("TASK_HANDLES", dealloc)) \o drop_phys) \o dealloc
    <2>1. InPoll(With("TASK_HANDLES", dealloc))
      BY HeapBalanced, MapInPoll DEF Maps
    <2>2. InPoll(current \o With("TASK_HANDLES", dealloc))
      BY <2>1, PartsInPoll, ConcatInPoll
    <2>3. InPoll((current \o With("TASK_HANDLES", dealloc)) \o drop_phys)
      BY <2>2, PartsInPoll, ConcatInPoll
    <2>4. InPoll(c)
      BY <1>5, <2>3, PartsInPoll, ConcatInPoll
    <2> QED BY <2>4, InPollRuns
  <1>6. CASE c = get \o drop_phys
    <2>1. InPoll(c)
      BY <1>6, PartsInPoll, ConcatInPoll
    <2> QED BY <2>1, InPollRuns
  <1>7. CASE \E s \in spawn \cup spawn_fails : c = (get \o get_page_ctx) \o s
    <2>1. PICK s \in spawn \cup spawn_fails : c = (get \o get_page_ctx) \o s
      BY <1>7
    <2>2. Runs(s, {"future"})
      BY SpawnInPoll, InPollRuns, SpawnFailsRun
    <2>3. Runs(get \o get_page_ctx, {"future"})
      BY PartsInPoll, ConcatInPoll, InPollRuns
    <2> QED BY <2>1, <2>2, <2>3, ConcatRuns
  <1> QED BY <1>1, <1>2, <1>3, <1>4, <1>5, <1>6, <1>7

\* The steps that Choose replaces run where their choices do.
LEMMA ChoiceRuns ==
  /\ Runs(<<Step("poll", "")>>, {"future"}) /\ Runs(<<Step("call", "")>>, {"future"})
  /\ Runs(<<Step("loop", "")>>, {})
  <1>1. ASSUME NEW op \in {"poll", "call", "loop"}, NEW h \in SUBSET Mutexes,
               op = "loop" => h = {}, op # "loop" => h = {"future"}
        PROVE  Runs(<<Step(op, "")>>, h)
    <2> DEFINE s == Step(op, "")
    <2>1. s \in Plain /\ s \in Steps /\ s.op = op
      BY DEF Step, Plain, Steps, PlainOps, Args
    <2> HIDE DEF s
    <2>2. <<s>> \in Seq(Plain)
      BY <2>1
    <2>3. ASSUME NEW rest \in Seq(Steps), NEW sv \in Seq(BOOLEAN), NEW f \in BOOLEAN, <<rest, h, sv, f>> \in Safe
          PROVE  <<<<s>> \o rest, h, sv, f>> \in Safe
      <3>1. /\ <<s>> \o rest \in Seq(Steps) /\ <<s>> \o rest # <<>> /\ (<<s>> \o rest)[1] = s
            /\ Tail(<<s>> \o rest) = rest
        BY <2>1, ConsFacts
      <3>2. h # {} => ~f
        BY <2>3, SafeFollows DEF Follows
      <3>3. SafeStep(Safe, <<s>> \o rest, h, sv, f)
        BY <1>1, <2>1, <2>3, <3>1 DEF SafeStep
      <3>4. Follows(Safe, <<s>> \o rest, h, sv, f)
        BY <3>1, <3>2, <3>3 DEF Follows
      <3> QED BY <3>1, <3>4, SafeIfFollows
    <2> QED BY <2>2, <2>3 DEF Runs, s
  <1>2. {"future"} \in SUBSET Mutexes /\ {} \in SUBSET Mutexes
    BY DEF Mutexes
  <1> QED BY <1>1, <1>2

\* A poll of a task runs with the future locked.
LEMMA PollsRun ==
  ASSUME NEW p \in Polls
  PROVE  Runs(p, {"future"})
  <1>1. Runs(resume, {"future"})
    BY PartsInPoll, InPollRuns
  <1>2. Runs(resume \o <<Step("call", "")>>, {"future"})
    BY <1>1, ChoiceRuns, ConcatRuns
  <1>3. Runs(((resume \o <<Step("call", "")>>) \o resume) \o resume, {"future"})
    BY <1>1, <1>2, ConcatRuns
  <1> QED BY <1>1, <1>3 DEF Polls

\* A work item, for any poll, runs with nothing locked.
LEMMA ItemsRun ==
  /\ Runs(user_item, {})
  /\ \A b : Runs(b, {"future"}) => Runs(kernel_item(b), {})
  <1>0. {} \in SUBSET Mutexes /\ {} \cap Mutexes = {}
    OBVIOUS
  <1>1. ASSUME NEW w, NEW U, Balanced(w, U), U \subseteq Mutexes, "TASKS" \notin U, "TASK_STATES" \notin U
        PROVE  Balanced(found(w), Mutexes)
    <2>1. "TASK_STATES" \in Mutexes \ U /\ U \cup {"TASK_STATES"} \subseteq U \cup {"TASK_STATES"}
      BY <1>1 DEF Mutexes
    <2>2. Balanced(With("TASK_STATES", w), U \cup {"TASK_STATES"})
      BY <1>1, <2>1, WithBalanced
    <2>3. "TASKS" \in Mutexes \ (U \cup {"TASK_STATES"}) /\ (U \cup {"TASK_STATES"}) \cup {"TASKS"} \subseteq Mutexes
      BY <1>1 DEF Mutexes
    <2>4. Balanced(With("TASKS", With("TASK_STATES", w)), Mutexes)
      BY <2>2, <2>3, WithBalanced
    <2> QED BY <2>4 DEF found
  <1>2. Runs(set_ctx, {})
    <2>1. "TASKS" \in Mutexes /\ {"CURRENT_TASK"} \subseteq Mutexes /\ PhysLocks \subseteq Mutexes
      BY DEF Mutexes, PhysLocks
    <2>2. Balanced(current, Mutexes) /\ Balanced(drop_phys, Mutexes) /\ Balanced(With("TASKS", <<>>), Mutexes)
      BY <2>1, PartsInPoll, PhysBalanced, BriefBalanced, BalancedGrows
    <2>3. Balanced((current \o With("TASKS", <<>>)) \o drop_phys, Mutexes)
      BY <2>2, Balanced3
    <2> QED BY <1>0, <2>3, BalancedRuns DEF set_ctx
  <1>3. Runs(user_item, {})
    <2>1. Balanced(found(<<>>), Mutexes)
      <3>1. Balanced(<<>>, {})
        BY EmptyBalanced
      <3> QED BY <1>1, <3>1
    <2>2. Runs(found(<<>>), {})
      BY <1>0, <2>1, BalancedRuns
    <2> QED BY <1>2, <2>2, ConcatRuns DEF user_item
  <1>4. ASSUME NEW b, Runs(b, {"future"}) PROVE Runs(kernel_item(b), {})
    <2>1. Balanced(With("TASK_FUTURES", <<>>), {"TASK_FUTURES"}) /\ {"TASK_FUTURES"} \subseteq Mutexes
      BY BriefBalanced DEF Mutexes
    <2>2. Balanced(found(With("TASK_FUTURES", <<>>)), Mutexes)
      BY <1>1, <2>1
    <2>3. Runs(found(With("TASK_FUTURES", <<>>)), {})
      BY <1>0, <2>2, BalancedRuns
    <2>4. Runs(found(With("TASK_FUTURES", <<>>)) \o set_ctx, {})
      BY <1>2, <2>3, ConcatRuns
    <2>5. "future" \in Mutexes \ {} /\ {} \cup {"future"} = {"future"}
      BY DEF Mutexes
    <2>6. Runs(With("future", b), {})
      BY <1>0, <1>4, <2>5, WithRuns
    <2> QED BY <2>4, <2>6, ConcatRuns DEF kernel_item
  <1> QED BY <1>3, <1>4

\* So does what switch goes on with.
LEMMA WorkItemsRun ==
  ASSUME NEW w \in WorkItems
  PROVE  Runs(w, {})
  BY ItemsRun, ChoiceRuns, ConcatRuns DEF WorkItems

\* So does start, whether there is a drive or not.
LEMMA StartRuns ==
  ASSUME NEW drive \in {"drive", "no drive"}
  PROVE  Runs(start(drive), {})
  <1> DEFINE b1 == println \o disk(drive)
             b2 == b1 \o get_page_ctx
             b3 == b2 \o alloc_new
             b4 == b3 \o page_map
             b5 == b4 \o With("TASK_HANDLES", dealloc)
             b6 == b5 \o resume
  <1>1. InPoll(With("TASK_HANDLES", dealloc)) /\ InPoll(disk(drive))
    BY HeapBalanced, MapInPoll, DiskInPoll DEF Maps
  <1>2. start(drive) = (current \o kernel_item(b6)) \o user_item
    BY DEF start
  <1>3. InPoll(b1)
    BY <1>1, PartsInPoll, ConcatInPoll
  <1> HIDE DEF b1
  <1>4. InPoll(b2)
    BY <1>3, PartsInPoll, ConcatInPoll
  <1> HIDE DEF b2
  <1>5. InPoll(b3)
    BY <1>4, PartsInPoll, ConcatInPoll
  <1> HIDE DEF b3
  <1>6. InPoll(b4)
    BY <1>5, PartsInPoll, ConcatInPoll
  <1> HIDE DEF b4
  <1>7. InPoll(b5)
    BY <1>1, <1>6, ConcatInPoll
  <1> HIDE DEF b5
  <1>8. InPoll(b6)
    BY <1>7, PartsInPoll, ConcatInPoll
  <1> HIDE DEF b6
  <1>9. Runs(kernel_item(b6), {})
    BY <1>8, InPollRuns, ItemsRun
  <1>10. Runs(current, {})
    <2>1. {} \in SUBSET Mutexes /\ {} \cap {"CURRENT_TASK"} = {}
      OBVIOUS
    <2> QED BY <2>1, PartsInPoll, BalancedRuns
  <1>11. Runs(current \o kernel_item(b6), {})
    BY <1>9, <1>10, ConcatRuns
  <1> QED BY <1>2, <1>11, ItemsRun, ConcatRuns

-----------------------------------------------------------------------------
(* The handlers.                                                           *)

eoi == Step("eoi", "")
loop == Step("loop", "")
sti == Step("sti", "")

\* The steps of interrupt and switch that are not part of a balanced path.
LEMMA SingleSteps ==
  /\ eoi \in Steps /\ loop \in Steps /\ sti \in Steps /\ loop \in Plain /\ sti \in Plain
  /\ eoi.op = "eoi" /\ loop.op = "loop" /\ sti.op = "sti"
  BY DEF Step, Steps, Plain, PlainOps, Args, eoi, loop, sti

\* A path that has ended, and one that only acknowledges.
LEMMA SafeEnd ==
  /\ \A f \in BOOLEAN : <<<<>>, {}, <<>>, f>> \in Safe
  /\ <<<<eoi>>, {}, <<>>, TRUE>> \in Safe
  <1>1. <<>> \in Seq(Steps) /\ {} \in SUBSET Mutexes /\ <<>> \in Seq(BOOLEAN) /\ TRUE \in BOOLEAN
    OBVIOUS
  <1>3. ASSUME NEW f \in BOOLEAN PROVE <<<<>>, {}, <<>>, f>> \in Safe
    <2>1. Follows(Safe, <<>>, {}, <<>>, f)
      BY DEF Follows
    <2> QED BY <1>1, <2>1, SafeIfFollows
  <1>4. <<eoi>> \in Seq(Steps) /\ <<eoi>> # <<>> /\ <<eoi>>[1] = eoi /\ Tail(<<eoi>>) = <<>>
    <2>1. <<eoi>> \o <<>> = <<eoi>>
      BY SingleSteps, ShortSeq, ConcatEmptySeq
    <2> QED BY <1>1, <2>1, SingleSteps, ConsFacts
  <1>5. SafeStep(Safe, <<eoi>>, {}, <<>>, TRUE)
    BY <1>3, <1>4, SingleSteps DEF SafeStep
  <1>6. Follows(Safe, <<eoi>>, {}, <<>>, TRUE)
    BY <1>4, <1>5 DEF Follows
  <1> QED BY <1>1, <1>3, <1>4, <1>6, SafeIfFollows

\* A path that goes on with a work item, with no mutex locked.
LEMMA SafeLoop ==
  ASSUME NEW rest \in Seq(Steps), NEW sv \in Seq(BOOLEAN), NEW f \in BOOLEAN, <<rest, {}, sv, f>> \in Safe
  PROVE  <<<<loop>> \o rest, {}, sv, f>> \in Safe
  <1>1. /\ <<loop>> \o rest \in Seq(Steps) /\ <<loop>> \o rest # <<>> /\ (<<loop>> \o rest)[1] = loop
        /\ Tail(<<loop>> \o rest) = rest
    BY SingleSteps, ConsFacts
  <1>2. SafeStep(Safe, <<loop>> \o rest, {}, sv, f)
    BY <1>1, SingleSteps DEF SafeStep
  <1>3. Follows(Safe, <<loop>> \o rest, {}, sv, f)
    BY <1>1, <1>2 DEF Follows
  <1>4. {} \in SUBSET Mutexes
    OBVIOUS
  <1> QED BY <1>1, <1>3, <1>4, SafeIfFollows

\* A path that enables interrupts, with no mutex locked.
LEMMA SafeSti ==
  ASSUME NEW rest \in Seq(Steps), <<rest, {}, <<>>, TRUE>> \in Safe
  PROVE  <<<<sti>> \o rest, {}, <<>>, FALSE>> \in Safe
  <1>1. /\ <<sti>> \o rest \in Seq(Steps) /\ <<sti>> \o rest # <<>> /\ (<<sti>> \o rest)[1] = sti
        /\ Tail(<<sti>> \o rest) = rest
    BY SingleSteps, ConsFacts
  <1>2. SafeStep(Safe, <<sti>> \o rest, {}, <<>>, FALSE)
    BY <1>1, SingleSteps DEF SafeStep
  <1>3. Follows(Safe, <<sti>> \o rest, {}, <<>>, FALSE)
    BY <1>1, <1>2 DEF Follows
  <1>4. {} \in SUBSET Mutexes /\ <<>> \in Seq(BOOLEAN)
    OBVIOUS
  <1> QED BY <1>1, <1>3, <1>4, SafeIfFollows

\* A handler acknowledges in its last step, and a system call never.
Shape(irq, code) ==
  IF irq = 2 THEN code \in Seq(Plain)
  ELSE code = <<>> \/ \E c \in Seq(Plain) : code = c \o <<eoi>>

\* What a trap begins with.
Fresh(irq, code) ==
  /\ code \in Seq(Steps) /\ code # <<>>
  /\ <<code, {}, <<>>, FALSE>> \in Safe
  /\ Shape(irq, code)

\* A handler that enables interrupts, goes on and acknowledges.
LEMMA FreshHandler ==
  ASSUME NEW irq \in {0, 1}, NEW b \in Seq(Plain), <<b \o <<eoi>>, {}, <<>>, TRUE>> \in Safe
  PROVE  Fresh(irq, (<<sti>> \o b) \o <<eoi>>)
  <1>1. b \in Seq(Steps) /\ <<sti>> \in Seq(Steps) /\ <<eoi>> \in Seq(Steps) /\ <<sti>> \in Seq(Plain)
    BY SingleSteps, ShortSeq, PlainSteps
  <1>2. (<<sti>> \o b) \o <<eoi>> = <<sti>> \o (b \o <<eoi>>)
    BY <1>1, ConcatAssociative
  <1>3. b \o <<eoi>> \in Seq(Steps)
    BY <1>1, ConcatProperties
  <1>4. <<<<sti>> \o (b \o <<eoi>>), {}, <<>>, FALSE>> \in Safe
    BY <1>3, SafeSti
  <1>5. <<sti>> \o (b \o <<eoi>>) \in Seq(Steps) /\ <<sti>> \o (b \o <<eoi>>) # <<>>
    BY <1>3, SingleSteps, ConsFacts
  <1>6. <<sti>> \o b \in Seq(Plain)
    BY <1>1, ConcatProperties
  <1>7. Shape(irq, (<<sti>> \o b) \o <<eoi>>)
    <2>1. \E c \in Seq(Plain) : (<<sti>> \o b) \o <<eoi>> = c \o <<eoi>>
      BY <1>6
    <2>2. irq # 2
      OBVIOUS
    <2> QED BY ONLY <2>1, <2>2 DEF Shape
  <1> QED BY <1>2, <1>4, <1>5, <1>7 DEF Fresh

\* The paths that interrupts and system calls start.
LEMMA HandlersFresh ==
  /\ Fresh(1, keyboard_interrupt)
  /\ Fresh(0, pit_user) /\ Fresh(0, pit_kernel)
  /\ Fresh(2, dispatch_syscall)
  <1>0. {} \in SUBSET Mutexes /\ <<>> \in Seq(BOOLEAN) /\ <<>> \in Seq(Steps) /\ <<>> \in Seq(Plain)
    OBVIOUS
  <1>1. <<eoi>> \in Seq(Steps) /\ <<loop>> \in Seq(Plain) /\ <<loop>> \in Seq(Steps) /\ <<sti>> \in Seq(Plain)
    BY SingleSteps, ShortSeq
  <1>2. ASSUME NEW b, Balanced(b, Mutexes), NEW rest \in Seq(Steps), <<rest, {}, <<>>, TRUE>> \in Safe
        PROVE  b \in Seq(Plain) /\ b \in Seq(Steps) /\ <<b \o rest, {}, <<>>, TRUE>> \in Safe
    BY <1>0, <1>2, PlainSteps DEF Balanced, Runs
  <1>3. Fresh(1, keyboard_interrupt)
    <2> DEFINE b == With("BUFF", <<Step("push", "")>>)
    <2>1. "BUFF" \in Mutexes \ {"CONSOLE"} /\ {"CONSOLE"} \cup {"BUFF"} \subseteq Mutexes
      BY DEF Mutexes
    <2>2. Balanced(b, Mutexes)
      BY <2>1, PushBalanced, WithBalanced
    <2>3. keyboard_interrupt = (<<sti>> \o b) \o <<eoi>>
      BY DEF keyboard_interrupt, sti, eoi
    <2> HIDE DEF b
    <2>4. b \in Seq(Plain) /\ <<b \o <<eoi>>, {}, <<>>, TRUE>> \in Safe
      BY <1>1, <1>2, <2>2, SafeEnd
    <2> QED BY <2>3, <2>4, FreshHandler
  <1>4. Balanced(save_current_task, Mutexes)
    <2>1. "TASK_STATES" \in Mutexes /\ {"CURRENT_TASK"} \subseteq Mutexes
      BY DEF Mutexes
    <2>2. Balanced(With("TASK_STATES", <<>>), Mutexes)
      BY <2>1, BriefBalanced
    <2>3. Balanced(current, Mutexes)
      BY <2>1, PartsInPoll, BalancedGrows
    <2> QED BY <2>2, <2>3, ConcatBalanced DEF save_current_task
  <1>5. ASSUME NEW rest \in Seq(Steps), <<rest, {}, <<>>, TRUE>> \in Safe
        PROVE  switch \in Seq(Plain) /\ switch \in Seq(Steps) /\ <<switch \o rest, {}, <<>>, TRUE>> \in Safe
    <2>1. switch = save_current_task \o <<loop>>
      BY DEF switch, loop
    <2>2. <<<<loop>> \o rest, {}, <<>>, TRUE>> \in Safe
      BY <1>0, <1>5, SafeLoop
    <2>3. <<loop>> \o rest \in Seq(Steps)
      BY <1>1, ConcatProperties
    <2>4. /\ save_current_task \in Seq(Plain) /\ save_current_task \in Seq(Steps)
          /\ <<save_current_task \o (<<loop>> \o rest), {}, <<>>, TRUE>> \in Safe
      BY <1>2, <1>4, <2>2, <2>3
    <2>5. (save_current_task \o <<loop>>) \o rest = save_current_task \o (<<loop>> \o rest)
      BY <1>1, <2>4, ConcatAssociative
    <2>6. switch \in Seq(Plain)
      BY <1>1, <2>1, <2>4, ConcatProperties
    <2> QED BY <2>1, <2>4, <2>5, <2>6, PlainSteps
  <1>6. Fresh(0, pit_user)
    <2>1. pit_user = (<<sti>> \o switch) \o <<eoi>>
      BY DEF pit_user, sti, eoi
    <2>2. switch \in Seq(Plain) /\ <<switch \o <<eoi>>, {}, <<>>, TRUE>> \in Safe
      BY <1>1, <1>5, SafeEnd
    <2> QED BY <2>1, <2>2, FreshHandler
  <1>7. Fresh(0, pit_kernel)
    <2>1. pit_kernel = <<sti, eoi>>
      BY DEF pit_kernel, sti, eoi
    <2>2. <<sti>> \o <<>> = <<sti>> /\ <<>> \o <<eoi>> = <<eoi>>
      BY <1>1, ConcatEmptySeq
    <2>3. <<sti>> \o <<eoi>> = <<sti, eoi>>
      BY SingleSteps, PairConcat
    <2>4. <<<<>> \o <<eoi>>, {}, <<>>, TRUE>> \in Safe
      BY <2>2, SafeEnd
    <2>5. Fresh(0, (<<sti>> \o <<>>) \o <<eoi>>)
      BY <1>0, <2>4, FreshHandler
    <2> QED BY <2>1, <2>2, <2>3, <2>5
  <1>8. Fresh(2, dispatch_syscall)
    <2> DEFINE a == current
               b == With("TASK_STATES", <<>>)
               c == switch
    <2>1. dispatch_syscall = ((<<sti>> \o a) \o b) \o c
      BY DEF dispatch_syscall, sti
    <2>2. "TASK_STATES" \in Mutexes /\ {"CURRENT_TASK"} \subseteq Mutexes
      BY DEF Mutexes
    <2>3. Balanced(a, Mutexes) /\ Balanced(b, Mutexes)
      BY <2>2, PartsInPoll, BalancedGrows, BriefBalanced
    <2>4. c \in Seq(Plain) /\ c \in Seq(Steps) /\ <<c \o <<>>, {}, <<>>, TRUE>> \in Safe
      BY <1>0, <1>5, SafeEnd
    <2> HIDE DEF a, b, c
    <2>5. <<c, {}, <<>>, TRUE>> \in Safe
      BY <2>4, ConcatEmptySeq
    <2>6. b \in Seq(Plain) /\ b \in Seq(Steps) /\ <<b \o c, {}, <<>>, TRUE>> \in Safe
      BY <1>2, <2>3, <2>4, <2>5
    <2>7. b \o c \in Seq(Plain) /\ b \o c \in Seq(Steps)
      BY <2>4, <2>6, ConcatProperties
    <2>8. a \in Seq(Plain) /\ a \in Seq(Steps) /\ <<a \o (b \o c), {}, <<>>, TRUE>> \in Safe
      BY <1>2, <2>3, <2>6, <2>7
    <2>9. a \o (b \o c) \in Seq(Plain) /\ a \o (b \o c) \in Seq(Steps)
      BY <2>7, <2>8, ConcatProperties
    <2>10. <<<<sti>> \o (a \o (b \o c)), {}, <<>>, FALSE>> \in Safe
      BY <2>8, <2>9, SafeSti
    <2>11. ((<<sti>> \o a) \o b) \o c = <<sti>> \o (a \o (b \o c))
      <3>1. (<<sti>> \o a) \o b = <<sti>> \o (a \o b)
        BY <1>1, <2>6, <2>8, PlainAssociative
      <3>2. a \o b \in Seq(Plain)
        BY <2>6, <2>8, ConcatProperties
      <3>3. (<<sti>> \o (a \o b)) \o c = <<sti>> \o ((a \o b) \o c)
        BY <1>1, <2>4, <3>2, PlainAssociative
      <3>4. (a \o b) \o c = a \o (b \o c)
        BY <2>4, <2>6, <2>8, PlainAssociative
      <3> QED BY <3>1, <3>3, <3>4
    <2>12. <<sti>> \o (a \o (b \o c)) # <<>> /\ <<sti>> \o (a \o (b \o c)) \in Seq(Plain)
      BY <2>9, SingleSteps, ConsFacts
    <2>13. Shape(2, <<sti>> \o (a \o (b \o c)))
      BY <2>12 DEF Shape
    <2> QED BY <2>1, <2>10, <2>11, <2>12, <2>13, PlainSteps DEF Fresh
  <1> QED BY <1>3, <1>6, <1>7, <1>8

-----------------------------------------------------------------------------
(* The shape of a path as it goes on.                                      *)

\* Steps that are not the acknowledgement leave a handler unfinished.
LEMMA TailShape ==
  ASSUME NEW irq, NEW c \in Seq(Steps), c # <<>>, Shape(irq, c), c[1].op # "eoi"
  PROVE  Shape(irq, Tail(c)) /\ (irq # 2 => Tail(c) # <<>>)
  <1>1. CASE irq = 2
    <2>1. c \in Seq(Plain)
      BY <1>1 DEF Shape
    <2>2. Tail(c) \in Seq(Plain)
      BY <2>1, HeadTailProperties
    <2> QED BY <1>1, <2>2 DEF Shape
  <1>2. CASE irq # 2
    <2>1. PICK d \in Seq(Plain) : c = d \o <<eoi>>
      BY <1>2 DEF Shape
    <2>2. d # <<>>
      <3> SUFFICES ASSUME d = <<>> PROVE FALSE
        OBVIOUS
      <3>1. c = <<eoi>>
        BY <2>1, SingleSteps, ShortSeq, ConcatEmptySeq
      <3>2. c[1] = eoi
        BY <3>1
      <3> QED BY <3>2, SingleSteps
    <2> DEFINE x == Head(d)
               e == Tail(d)
    <2>3. x \in Plain /\ e \in Seq(Plain) /\ d = <<x>> \o e
      BY <2>2
    <2> HIDE DEF x, e
    <2>4. x \in Steps /\ e \in Seq(Steps) /\ <<eoi>> \in Seq(Steps) /\ <<x>> \in Seq(Steps)
      <3>1. x \in Steps
        BY <2>3 DEF Plain, Steps
      <3> QED BY <2>3, <3>1, PlainSteps, SingleSteps, ShortSeq
    <2>5. c = <<x>> \o (e \o <<eoi>>)
      BY <2>1, <2>3, <2>4, ConcatAssociative
    <2>6. e \o <<eoi>> \in Seq(Steps) /\ e \o <<eoi>> # <<>>
      <3>1. e \o <<eoi>> \in Seq(Steps) /\ Len(e \o <<eoi>>) = Len(e) + 1
        BY <2>4, ConcatProperties
      <3>2. Len(e) \in Nat
        BY <2>4
      <3>3. Len(e \o <<eoi>>) # 0
        BY <3>1, <3>2
      <3> QED BY <3>1, <3>3, EmptySeq
    <2>7. Tail(c) = e \o <<eoi>>
      BY <2>4, <2>5, <2>6, ConsFacts
    <2>8. Shape(irq, Tail(c))
      BY <1>2, <2>3, <2>7 DEF Shape
    <2> QED BY <2>6, <2>7, <2>8
  <1> QED BY <1>1, <1>2

\* The acknowledgement is the last step.
LEMMA EoiShape ==
  ASSUME NEW irq, NEW c \in Seq(Steps), c # <<>>, Shape(irq, c), c[1].op = "eoi"
  PROVE  irq # 2 /\ Tail(c) = <<>>
  <1>0. \A x \in Plain : x.op # "eoi"
    BY DEF Plain, PlainOps, Others
  <1>1. irq # 2
    <2> SUFFICES ASSUME irq = 2 PROVE FALSE
      OBVIOUS
    <2>1. c \in Seq(Plain)
      BY DEF Shape
    <2>2. c[1] \in Plain
      BY <2>1
    <2> QED BY <1>0, <2>2
  <1>2. PICK d \in Seq(Plain) : c = d \o <<eoi>>
    BY <1>1 DEF Shape
  <1>3. d = <<>>
    <2> SUFFICES ASSUME d # <<>> PROVE FALSE
      OBVIOUS
    <2>1. d \in Seq(Steps) /\ <<eoi>> \in Seq(Steps)
      BY PlainSteps, SingleSteps, ShortSeq
    <2>2. Len(d) \in Nat \ {0} /\ d[1] \in Plain
      BY EmptySeq
    <2>3. Len(<<eoi>>) = 1 /\ 1 \in 1 .. Len(d) + Len(<<eoi>>) /\ 1 <= Len(d)
      BY <2>2
    <2>4. (d \o <<eoi>>)[1] = d[1]
      BY <2>1, <2>3, ConcatProperties
    <2> QED BY <1>0, <1>2, <2>2, <2>4
  <1>4. c = <<eoi>> \o <<>>
    BY <1>2, <1>3, SingleSteps, ShortSeq, ConcatEmptySeq
  <1>5. <<>> \in Seq(Steps)
    OBVIOUS
  <1> QED BY <1>1, <1>4, <1>5, SingleSteps, ConsFacts

\* So do the steps that Choose and Push put before the rest.
LEMMA PrefixShape ==
  ASSUME NEW irq, NEW p \in Seq(Plain), NEW c \in Seq(Steps), Shape(irq, c), irq # 2 => c # <<>>
  PROVE  Shape(irq, p \o c) /\ (irq # 2 => p \o c # <<>>)
  <1>1. CASE irq = 2
    <2>1. c \in Seq(Plain)
      BY <1>1 DEF Shape
    <2>2. p \o c \in Seq(Plain)
      BY <2>1, ConcatProperties
    <2> QED BY <1>1, <2>2 DEF Shape
  <1>2. CASE irq # 2
    <2>1. PICK d \in Seq(Plain) : c = d \o <<eoi>>
      BY <1>2 DEF Shape
    <2>2. p \in Seq(Steps) /\ d \in Seq(Steps) /\ <<eoi>> \in Seq(Steps)
      BY PlainSteps, SingleSteps, ShortSeq
    <2>3. p \o c = (p \o d) \o <<eoi>>
      BY <2>1, <2>2, ConcatAssociative
    <2>4. p \o d \in Seq(Plain)
      BY ConcatProperties
    <2>5. p \o c # <<>>
      BY <1>2, <2>2, ConcatEqualIffEmpty
    <2>6. Shape(irq, p \o c)
      BY <1>2, <2>3, <2>4 DEF Shape
    <2> QED BY <2>5, <2>6
  <1> QED BY <1>1, <1>2

-----------------------------------------------------------------------------
(***************************************************************************)
(* The inductive invariant.  The innermost path is safe with the mutexes   *)
(* that are locked; every other path was interrupted with the flag set, so *)
(* that it has no mutex and is safe when it goes on with none locked and   *)
(* the flag set.                                                           *)
(***************************************************************************)
Frame == [irq : 0 .. 2, code : Seq(Steps), saved : Seq(BOOLEAN)]

ProcessorType ==
  /\ stack \in Seq(Frame)
  /\ flag \in BOOLEAN
  /\ locked \in SUBSET Mutexes
  /\ irr \subseteq {0, 1} /\ isr \subseteq {0, 1}

PathsSafe ==
  /\ panicked => stack # <<>> /\ stack[1].code # <<>> /\ Arg = "ALLOCATOR" /\ locked \in Recursive
  /\ stack = <<>> => flag /\ locked = {}
  /\ stack # <<>> => <<stack[1].code, locked, stack[1].saved, flag>> \in Safe
  /\ \A n \in 2 .. Len(stack) : <<stack[n].code, {}, stack[n].saved, TRUE>> \in Safe

Shapes == \A n \in 1 .. Len(stack) : Shape(stack[n].irq, stack[n].code)

LocksInv == ProcessorType /\ PathsSafe /\ Shapes /\ HandlersNest

\* What the innermost path is.
LEMMA TopFacts ==
  ASSUME LocksInv, stack # <<>>
  PROVE  /\ Len(stack) \in Nat \ {0} /\ DOMAIN stack = 1 .. Len(stack)
         /\ stack[1] \in Frame
         /\ stack[1].code \in Seq(Steps) /\ stack[1].saved \in Seq(BOOLEAN) /\ stack[1].irq \in 0 .. 2
         /\ Follows(Safe, stack[1].code, locked, stack[1].saved, flag)
         /\ Shape(stack[1].irq, stack[1].code)
  <1>1. stack \in Seq(Frame)
    BY DEF LocksInv, ProcessorType
  <1>2. Len(stack) \in Nat \ {0} /\ DOMAIN stack = 1 .. Len(stack) /\ stack[1] \in Frame
    BY <1>1, EmptySeq, LenProperties
  <1>3. stack[1].code \in Seq(Steps) /\ stack[1].saved \in Seq(BOOLEAN) /\ stack[1].irq \in 0 .. 2
    BY <1>2 DEF Frame
  <1>4. Follows(Safe, stack[1].code, locked, stack[1].saved, flag)
    BY <1>3, SafeFollows DEF LocksInv, PathsSafe, ProcessorType
  <1>5. Shape(stack[1].irq, stack[1].code)
    BY <1>2 DEF LocksInv, Shapes
  <1> QED BY <1>2, <1>3, <1>4, <1>5

\* A record with two fields replaced.
LEMMA RecordUpdate ==
  ASSUME NEW r \in Frame, NEW c, NEW sv
  PROVE  [[r EXCEPT !.code = c] EXCEPT !.saved = sv] = [irq |-> r.irq, code |-> c, saved |-> sv]
  <1> DEFINE q == [r EXCEPT !.code = c]
  <1>1. q = [irq |-> r.irq, code |-> c, saved |-> r.saved]
    BY DEF Frame
  <1> HIDE DEF q
  <1>2. q \in [irq : 0 .. 2, code : {c}, saved : Seq(BOOLEAN)] /\ q.irq = r.irq /\ q.code = c
    BY <1>1 DEF Frame
  <1>3. [q EXCEPT !.saved = sv] = [irq |-> q.irq, code |-> q.code, saved |-> sv]
    BY <1>2
  <1>4. [q EXCEPT !.saved = sv] = [irq |-> r.irq, code |-> c, saved |-> sv]
    BY <1>2, <1>3
  <1> QED BY <1>4, Zenon DEF q

\* A step of the innermost path that changes its code and its saved flags.
LEMMA GoFacts ==
  ASSUME LocksInv, stack # <<>>, NEW c \in Seq(Steps), NEW sv \in Seq(BOOLEAN), Go(c, sv)
  PROVE  /\ stack' \in Seq(Frame) /\ Len(stack') = Len(stack) /\ stack' # <<>>
         /\ stack'[1].irq = stack[1].irq /\ stack'[1].code = c /\ stack'[1].saved = sv
         /\ \A n \in 2 .. Len(stack) : stack'[n] = stack[n]
  <1> DEFINE fr == [irq |-> stack[1].irq, code |-> c, saved |-> sv]
  <1>1. stack \in Seq(Frame)
    BY DEF LocksInv, ProcessorType
  <1>2. Len(stack) \in Nat \ {0} /\ stack[1] \in Frame /\ stack[1].irq \in 0 .. 2
    BY TopFacts
  <1>3. fr \in Frame
    BY <1>2 DEF Frame
  <1>4. stack' = [stack EXCEPT ![1] = fr]
    <2>1. [[stack[1] EXCEPT !.code = c] EXCEPT !.saved = sv] = fr
      BY <1>2, RecordUpdate, Zenon
    <2>2. /\ stack \in [1 .. Len(stack) -> Frame] /\ 1 \in 1 .. Len(stack)
          /\ stack' = [stack EXCEPT ![1].code = c, ![1].saved = sv]
      BY <1>1, <1>2, LenProperties DEF Go
    <2> DEFINE f1 == [stack EXCEPT ![1] = [stack[1] EXCEPT !.code = c]]
    <2>3. stack' = [f1 EXCEPT ![1] = [f1[1] EXCEPT !.saved = sv]]
      BY <2>2
    <2>4. f1[1] = [stack[1] EXCEPT !.code = c]
      BY <2>2
    <2>5. stack' = [f1 EXCEPT ![1] = fr]
      BY <2>1, <2>3, <2>4
    <2> HIDE DEF fr
    <2> QED BY <2>2, <2>5
  <1>5. fr.irq = stack[1].irq /\ fr.code = c /\ fr.saved = sv
    OBVIOUS
  <1> HIDE DEF fr
  <1>6. 1 \in 1 .. Len(stack)
    BY <1>2
  <1>7. /\ stack' \in Seq(Frame) /\ Len(stack') = Len(stack)
        /\ \A j \in 1 .. Len(stack) : stack'[j] = IF j = 1 THEN fr ELSE stack[j]
    BY <1>1, <1>3, <1>4, <1>6, ExceptSeq
  <1>8. stack' # <<>>
    BY <1>2, <1>7, EmptySeq
  <1> QED BY <1>2, <1>5, <1>6, <1>7, <1>8

\* Such a step keeps the invariant when what is left is safe and unfinished.
LEMMA GoSafe ==
  ASSUME LocksInv, ~panicked, stack # <<>>, stack[1].code # <<>>,
         NEW c \in Seq(Steps), NEW sv \in Seq(BOOLEAN), Go(c, sv),
         <<c, locked', sv, flag'>> \in Safe, flag' \in BOOLEAN, locked' \in SUBSET Mutexes,
         Shape(stack[1].irq, c), stack[1].irq # 2 => c # <<>>,
         UNCHANGED <<irr, isr, panicked>>
  PROVE  LocksInv'
  <1>1. /\ stack' \in Seq(Frame) /\ Len(stack') = Len(stack) /\ stack' # <<>>
        /\ stack'[1].irq = stack[1].irq /\ stack'[1].code = c /\ stack'[1].saved = sv
        /\ \A n \in 2 .. Len(stack) : stack'[n] = stack[n]
    BY GoFacts
  <1>2. /\ Len(stack) \in Nat \ {0} /\ DOMAIN stack = 1 .. Len(stack)
        /\ stack[1].irq \in 0 .. 2
    BY TopFacts
  <1>3. DOMAIN stack' = 1 .. Len(stack)
    BY <1>1, LenProperties
  <1>4. ProcessorType'
    BY <1>1 DEF LocksInv, ProcessorType
  <1>5. PathsSafe'
    BY <1>1 DEF LocksInv, PathsSafe
  <1>6. Shapes'
    <2>1. ASSUME NEW n \in 1 .. Len(stack) PROVE Shape(stack'[n].irq, stack'[n].code)
      <3>1. CASE n = 1
        BY <1>1, <3>1
      <3>2. CASE n # 1
        <4>1. n \in 2 .. Len(stack)
          BY <1>2, <3>2
        <4>2. stack'[n] = stack[n]
          BY <1>1, <4>1
        <4> QED BY <4>2 DEF LocksInv, Shapes
      <3> QED BY <3>1, <3>2
    <2> QED BY <1>1, <2>1 DEF Shapes
  <1>7. HandlersNest'
    <2> DEFINE U == {n \in DOMAIN stack : stack[n].code # <<>>}
               V == {n \in DOMAIN stack' : stack'[n].code # <<>>}
    <2>1. /\ isr = {stack[n].irq : n \in U} \ {2}
          /\ \A m, n \in U : m < n => stack[m].irq < stack[n].irq
      BY DEF LocksInv, HandlersNest
    <2>2. \A n \in 1 .. Len(stack) : stack'[n].irq = stack[n].irq
      <3>1. ASSUME NEW n \in 1 .. Len(stack) PROVE stack'[n].irq = stack[n].irq
        <4>1. n = 1 \/ n \in 2 .. Len(stack)
          BY <1>2
        <4> QED BY <1>1, <4>1
      <3> QED BY <3>1
    <2>3. \A n \in 1 .. Len(stack) : n \in U /\ n \notin V => stack[n].irq = 2
      <3>1. ASSUME NEW n \in 1 .. Len(stack), n \in U, n \notin V PROVE stack[n].irq = 2
        <4>1. n = 1
          <5> SUFFICES ASSUME n # 1 PROVE FALSE
            OBVIOUS
          <5>1. n \in 2 .. Len(stack)
            BY <1>2
          <5>2. stack'[n] = stack[n]
            BY <1>1, <5>1
          <5> QED BY <1>3, <3>1, <5>2
        <4>2. c = <<>>
          BY <1>1, <1>3, <3>1, <4>1
        <4> QED BY <4>1, <4>2
      <3> QED BY <3>1
    <2>4. V \subseteq U
      <3>1. ASSUME NEW n \in V PROVE n \in U
        <4>1. n \in 1 .. Len(stack) /\ stack'[n].code # <<>>
          BY <1>3
        <4>2. CASE n = 1
          BY <1>2, <4>1, <4>2
        <4>3. CASE n # 1
          <5>1. n \in 2 .. Len(stack)
            BY <1>2, <4>1, <4>3
          <5>2. stack'[n] = stack[n]
            BY <1>1, <5>1
          <5> QED BY <1>2, <4>1, <5>2
        <4> QED BY <4>2, <4>3
      <3> QED BY <3>1
    <2>5. U \subseteq 1 .. Len(stack)
      BY <1>2
    <2>a. V = {n \in DOMAIN stack' : stack'[n].code # <<>>}
      OBVIOUS
    <2> HIDE DEF U, V
    <2>6. {stack'[n].irq : n \in V} \ {2} = {stack[n].irq : n \in U} \ {2}
      <3>1. ASSUME NEW x \in {stack'[n].irq : n \in V} \ {2} PROVE x \in {stack[n].irq : n \in U} \ {2}
        BY <2>2, <2>4, <2>5
      <3>2. ASSUME NEW x \in {stack[n].irq : n \in U} \ {2} PROVE x \in {stack'[n].irq : n \in V} \ {2}
        BY <2>2, <2>3, <2>5
      <3> QED BY <3>1, <3>2
    <2>7. \A m, n \in V : m < n => stack'[m].irq < stack'[n].irq
      BY <2>1, <2>2, <2>4, <2>5
    <2>8. isr' = {stack'[n].irq : n \in V} \ {2}
      BY <2>1, <2>6
    <2> QED BY <2>7, <2>8, <2>a DEF HandlersNest
  <1> QED BY <1>4, <1>5, <1>6, <1>7 DEF LocksInv

-----------------------------------------------------------------------------
(* The steps of the innermost path.                                        *)

\* What a path is like when its next step is op.
LEMMA AtFacts ==
  ASSUME LocksInv, NEW op, At(op)
  PROVE  /\ ~panicked
         /\ stack # <<>> /\ stack[1].code # <<>> /\ stack[1].code[1].op = op
         /\ stack[1].code \in Seq(Steps) /\ stack[1].saved \in Seq(BOOLEAN)
         /\ After \in Seq(Steps)
         /\ SafeStep(Safe, stack[1].code, locked, stack[1].saved, flag)
         /\ op # "eoi" => Shape(stack[1].irq, After) /\ (stack[1].irq # 2 => After # <<>>)
         /\ flag \in BOOLEAN /\ locked \in SUBSET Mutexes
  <1>1. ~panicked /\ stack # <<>> /\ stack[1].code # <<>> /\ stack[1].code[1].op = op
    BY DEF At
  <1>2. /\ stack[1].code \in Seq(Steps) /\ stack[1].saved \in Seq(BOOLEAN)
        /\ Follows(Safe, stack[1].code, locked, stack[1].saved, flag)
        /\ Shape(stack[1].irq, stack[1].code)
    BY <1>1, TopFacts
  <1>3. SafeStep(Safe, stack[1].code, locked, stack[1].saved, flag)
    BY <1>1, <1>2 DEF Follows
  <1>4. After \in Seq(Steps)
    BY <1>1, <1>2, HeadTailProperties DEF After
  <1>5. op # "eoi" => Shape(stack[1].irq, After) /\ (stack[1].irq # 2 => After # <<>>)
    BY <1>1, <1>2, TailShape DEF After
  <1>6. flag \in BOOLEAN /\ locked \in SUBSET Mutexes
    BY DEF LocksInv, ProcessorType
  <1> QED BY <1>1, <1>2, <1>3, <1>4, <1>5, <1>6

\* critical::begin, its first half.
LEMMA SaveFlagSafe ==
  ASSUME LocksInv, SaveFlag
  PROVE  LocksInv'
  <1> DEFINE sv == <<flag>> \o stack[1].saved
  <1>0. At("save")
    BY DEF SaveFlag
  <1>1. /\ ~panicked /\ stack # <<>> /\ stack[1].code # <<>> /\ stack[1].code[1].op = "save"
        /\ stack[1].saved \in Seq(BOOLEAN) /\ After \in Seq(Steps)
        /\ SafeStep(Safe, stack[1].code, locked, stack[1].saved, flag)
        /\ Shape(stack[1].irq, After) /\ (stack[1].irq # 2 => After # <<>>)
        /\ flag \in BOOLEAN /\ locked \in SUBSET Mutexes
    BY <1>0, AtFacts
  <1>2. sv \in Seq(BOOLEAN)
    BY <1>1, ConsFacts
  <1>3. <<After, locked, sv, flag>> \in Safe
    BY <1>1 DEF SafeStep, After
  <1>4. UNCHANGED <<flag, locked, irr, isr, panicked>> /\ Go(After, sv)
    BY DEF SaveFlag
  <1> HIDE DEF sv
  <1>5. <<After, locked', sv, flag'>> \in Safe /\ flag' \in BOOLEAN /\ locked' \in SUBSET Mutexes
    BY <1>1, <1>3, <1>4
  <1> QED BY <1>1, <1>2, <1>4, <1>5, GoSafe

\* A step that leaves the saved flags alone.
LEMMA AdvanceSafe ==
  ASSUME LocksInv, NEW op, op # "eoi", At(op), Go(After, stack[1].saved),
         <<After, locked', stack[1].saved, flag'>> \in Safe, flag' \in BOOLEAN,
         locked' \in SUBSET Mutexes, UNCHANGED <<irr, isr, panicked>>
  PROVE  LocksInv'
  <1>1. /\ ~panicked /\ stack # <<>> /\ stack[1].code # <<>>
        /\ stack[1].saved \in Seq(BOOLEAN) /\ After \in Seq(Steps)
        /\ Shape(stack[1].irq, After) /\ (stack[1].irq # 2 => After # <<>>)
    BY AtFacts
  <1> QED BY <1>1, GoSafe

\* cli, sti, and the drop of a Critical.
LEMMA SetFlagSafe ==
  ASSUME LocksInv, SetFlag
  PROVE  LocksInv'
  <1>0. UNCHANGED <<locked, irr, isr, panicked>>
    BY DEF SetFlag
  <1>1. CASE At("cli") /\ flag' = FALSE /\ Go(After, stack[1].saved)
    <2>1. /\ stack[1].code[1].op = "cli" /\ SafeStep(Safe, stack[1].code, locked, stack[1].saved, flag)
          /\ locked \in SUBSET Mutexes
      BY <1>1, AtFacts
    <2>2. <<After, locked, stack[1].saved, FALSE>> \in Safe
      BY <2>1 DEF SafeStep, After
    <2>3. <<After, locked', stack[1].saved, flag'>> \in Safe /\ flag' \in BOOLEAN /\ locked' \in SUBSET Mutexes
      BY <1>0, <1>1, <2>1, <2>2
    <2> QED BY <1>0, <1>1, <2>3, AdvanceSafe
  <1>2. CASE At("sti") /\ flag' = TRUE /\ Go(After, stack[1].saved)
    <2>1. /\ stack[1].code[1].op = "sti" /\ SafeStep(Safe, stack[1].code, locked, stack[1].saved, flag)
          /\ locked \in SUBSET Mutexes
      BY <1>2, AtFacts
    <2>2. <<After, locked, stack[1].saved, TRUE>> \in Safe
      BY <2>1 DEF SafeStep, After
    <2>3. <<After, locked', stack[1].saved, flag'>> \in Safe /\ flag' \in BOOLEAN /\ locked' \in SUBSET Mutexes
      BY <1>0, <1>2, <2>1, <2>2
    <2> QED BY <1>0, <1>2, <2>3, AdvanceSafe
  <1>3. CASE At("restore") /\ flag' = (flag \/ stack[1].saved[1]) /\ Go(After, Tail(stack[1].saved))
    <2> DEFINE sv == stack[1].saved
    <2>1. /\ ~panicked /\ stack # <<>> /\ stack[1].code # <<>> /\ stack[1].code[1].op = "restore"
          /\ sv \in Seq(BOOLEAN) /\ After \in Seq(Steps)
          /\ SafeStep(Safe, stack[1].code, locked, sv, flag)
          /\ Shape(stack[1].irq, After) /\ (stack[1].irq # 2 => After # <<>>)
          /\ flag \in BOOLEAN /\ locked \in SUBSET Mutexes
      BY <1>3, AtFacts
    <2>2. /\ sv # <<>>
          /\ \E g \in BOOLEAN : (g <=> (flag \/ sv[1])) /\ <<After, locked, Tail(sv), g>> \in Safe
      BY <2>1 DEF SafeStep, After
    <2>3. PICK g \in BOOLEAN : (g <=> (flag \/ sv[1])) /\ <<After, locked, Tail(sv), g>> \in Safe
      BY <2>2
    <2>4. Tail(sv) \in Seq(BOOLEAN)
      BY <2>1, <2>2, HeadTailProperties
    <2>x. flag' = (flag \/ sv[1]) /\ Go(After, Tail(sv))
      BY <1>3
    <2> HIDE DEF sv
    <2>5. flag' \in BOOLEAN
      BY <2>x
    <2>6. flag' = g
      BY <2>x, <2>3, <2>5
    <2>7. <<After, locked', Tail(sv), flag'>> \in Safe /\ locked' \in SUBSET Mutexes
      BY <1>0, <2>1, <2>3, <2>6
    <2> QED BY <1>0, <2>x, <2>1, <2>4, <2>5, <2>7, GoSafe
  <1> QED BY <1>1, <1>2, <1>3 DEF SetFlag

\* Mutex::lock: the mutex is free, or the kernel panics where NoRecursiveLock says so.
LEMMA TakeSafe ==
  ASSUME LocksInv, Take
  PROVE  LocksInv'
  <1>0. At("take") /\ UNCHANGED <<irr, isr>>
    BY DEF Take
  <1>1. /\ stack[1].code[1].op = "take" /\ SafeStep(Safe, stack[1].code, locked, stack[1].saved, flag)
        /\ locked \in SUBSET Mutexes /\ flag \in BOOLEAN /\ stack # <<>> /\ stack[1].code # <<>>
    BY <1>0, AtFacts
  <1>2. CASE Arg \notin locked
    <2>1. <<After, locked \cup {Arg}, stack[1].saved, flag>> \in Safe /\ Arg \in Mutexes
      <3>1. \A x \in Recursive : "ALLOCATOR" \in x
        BY DEF Recursive
      <3> QED BY <1>1, <1>2, <3>1 DEF SafeStep, After, Arg
    <2>2. UNCHANGED <<flag, panicked>> /\ locked' = locked \cup {Arg} /\ Go(After, stack[1].saved)
      BY <1>2 DEF Take
    <2>3. <<After, locked', stack[1].saved, flag'>> \in Safe /\ flag' \in BOOLEAN /\ locked' \in SUBSET Mutexes
      BY <1>1, <2>1, <2>2
    <2> QED BY <1>0, <2>2, <2>3, AdvanceSafe
  <1>3. CASE Arg \in locked
    <2>1. Arg = "ALLOCATOR" /\ locked \in Recursive
      BY <1>1, <1>3 DEF SafeStep, Arg
    <2>2. flag' = FALSE /\ UNCHANGED <<stack, locked>>
      BY <1>3 DEF Take
    <2>3. ~flag
      BY <1>1, <1>3, TopFacts DEF Follows
    <2>4. UNCHANGED flag
      BY <1>1, <2>2, <2>3
    <2>5. Arg' = Arg
      BY <2>2 DEF Arg
    <2>6. PathsSafe'
      BY <1>1, <2>1, <2>2, <2>4, <2>5 DEF LocksInv, PathsSafe
    <2> QED BY <1>0, <2>2, <2>4, <2>6 DEF LocksInv, ProcessorType, Shapes, HandlersNest
  <1> QED BY <1>2, <1>3

\* The drop of a MutexGuard.
LEMMA ClearSafe ==
  ASSUME LocksInv, Clear
  PROVE  LocksInv'
  <1>0. At("clear")
    BY DEF Clear
  <1>1. /\ stack[1].code[1].op = "clear" /\ SafeStep(Safe, stack[1].code, locked, stack[1].saved, flag)
        /\ locked \in SUBSET Mutexes /\ flag \in BOOLEAN
    BY <1>0, AtFacts
  <1>2. <<After, locked \ {Arg}, stack[1].saved, flag>> \in Safe
    BY <1>1 DEF SafeStep, After, Arg
  <1>3. UNCHANGED <<flag, panicked, irr, isr>> /\ locked' = locked \ {Arg} /\ Go(After, stack[1].saved)
    BY DEF Clear
  <1>4. <<After, locked', stack[1].saved, flag'>> \in Safe /\ flag' \in BOOLEAN /\ locked' \in SUBSET Mutexes
    BY <1>1, <1>2, <1>3
  <1> QED BY <1>0, <1>3, <1>4, AdvanceSafe

\* A plain part that is put before the rest of the path.
LEMMA PrefixSafe ==
  ASSUME LocksInv, NEW op, op # "eoi", At(op), NEW p \in Seq(Plain), Go(p \o After, stack[1].saved),
         <<p \o After, locked, stack[1].saved, flag>> \in Safe,
         UNCHANGED <<flag, locked, irr, isr, panicked>>
  PROVE  LocksInv'
  <1>1. /\ ~panicked /\ stack # <<>> /\ stack[1].code # <<>>
        /\ stack[1].saved \in Seq(BOOLEAN) /\ After \in Seq(Steps)
        /\ Shape(stack[1].irq, After) /\ (stack[1].irq # 2 => After # <<>>)
        /\ flag \in BOOLEAN /\ locked \in SUBSET Mutexes
    BY AtFacts
  <1>2. p \o After \in Seq(Steps)
    BY <1>1, PlainSteps, ConcatProperties
  <1>3. Shape(stack[1].irq, p \o After) /\ (stack[1].irq # 2 => p \o After # <<>>)
    BY <1>1, PrefixShape
  <1>4. <<p \o After, locked', stack[1].saved, flag'>> \in Safe /\ flag' \in BOOLEAN /\ locked' \in SUBSET Mutexes
    BY <1>1
  <1> QED BY <1>1, <1>2, <1>3, <1>4, GoSafe

\* switch goes on with any work item, a poll with any call.
LEMMA ChooseSafe ==
  ASSUME LocksInv, Choose
  PROVE  LocksInv'
  <1>0. UNCHANGED <<flag, locked, irr, isr, panicked>>
    BY DEF Choose
  <1>1. ASSUME NEW op \in {"loop", "poll", "call"}, At(op), NEW p, Go(p \o After, stack[1].saved),
               op = "loop" => p \in WorkItems, op = "poll" => p \in Polls, op = "call" => p \in Calls
        PROVE  LocksInv'
    <2> DEFINE sv == stack[1].saved
    <2>1. /\ stack[1].code[1].op = op /\ SafeStep(Safe, stack[1].code, locked, sv, flag)
          /\ locked \in SUBSET Mutexes /\ flag \in BOOLEAN /\ sv \in Seq(BOOLEAN) /\ After \in Seq(Steps)
      BY <1>1, AtFacts
    <2>2. /\ op = "loop" => locked = {}
          /\ op # "loop" => locked = {"future"}
          /\ <<After, locked, sv, flag>> \in Safe
      BY <1>1, <2>1 DEF SafeStep, After
    <2>3. Runs(p, locked)
      BY <1>1, <2>2, WorkItemsRun, PollsRun, CallsRun
    <2> HIDE DEF sv
    <2>4. p \in Seq(Plain) /\ <<p \o After, locked, sv, flag>> \in Safe
      BY <2>1, <2>2, <2>3 DEF Runs
    <2>5. op # "eoi"
      OBVIOUS
    <2> QED BY <1>0, <1>1, <2>4, <2>5, PrefixSafe DEF sv
  <1>2. \/ At("loop") /\ \E w \in WorkItems : Go(w \o After, stack[1].saved)
        \/ At("poll") /\ \E q \in Polls : Go(q \o After, stack[1].saved)
        \/ At("call") /\ \E c \in Calls : Go(c \o After, stack[1].saved)
    BY DEF Choose
  <1> QED BY <1>1, <1>2

\* The keyboard buffer, which prints a message when it is full.
LEMMA PushSafe ==
  ASSUME LocksInv, Push
  PROVE  LocksInv'
  <1>0. At("push") /\ UNCHANGED <<flag, locked, irr, isr, panicked>>
    BY DEF Push
  <1>1. /\ stack[1].code[1].op = "push" /\ SafeStep(Safe, stack[1].code, locked, stack[1].saved, flag)
        /\ locked \in SUBSET Mutexes /\ flag \in BOOLEAN /\ stack[1].saved \in Seq(BOOLEAN)
        /\ After \in Seq(Steps)
    BY <1>0, AtFacts
  <1>2. "CONSOLE" \notin locked /\ <<After, locked, stack[1].saved, flag>> \in Safe
    BY <1>1 DEF SafeStep, After
  <1>3. CASE keys = KbdCap
    <2>1. Go(println \o After, stack[1].saved)
      BY <1>3 DEF Push
    <2>2. locked \cap {"CONSOLE"} = {}
      BY <1>2
    <2>3. println \in Seq(Plain) /\ <<println \o After, locked, stack[1].saved, flag>> \in Safe
      BY <1>1, <1>2, <2>2, PartsInPoll DEF Balanced, Runs
    <2> QED BY <1>0, <2>1, <2>3, PrefixSafe
  <1>4. CASE keys # KbdCap
    <2>1. Go(After, stack[1].saved)
      BY <1>4 DEF Push
    <2>2. <<After, locked', stack[1].saved, flag'>> \in Safe /\ flag' \in BOOLEAN /\ locked' \in SUBSET Mutexes
      BY <1>0, <1>1, <1>2
    <2> QED BY <1>0, <2>1, <2>2, AdvanceSafe
  <1> QED BY <1>3, <1>4

\* The steps that do not touch the locks, and steps outside the path.
LEMMA OtherSafe ==
  ASSUME LocksInv, NEW op \in Others, At(op), Go(After, stack[1].saved),
         UNCHANGED <<flag, locked, irr, isr, panicked>>
  PROVE  LocksInv'
  <1>1. /\ stack[1].code[1].op = op /\ SafeStep(Safe, stack[1].code, locked, stack[1].saved, flag)
        /\ locked \in SUBSET Mutexes /\ flag \in BOOLEAN
    BY AtFacts
  <1>2. <<After, locked, stack[1].saved, flag>> \in Safe
    BY <1>1 DEF SafeStep, After, Others
  <1>3. <<After, locked', stack[1].saved, flag'>> \in Safe /\ flag' \in BOOLEAN /\ locked' \in SUBSET Mutexes
    BY <1>1, <1>2
  <1>4. op # "eoi"
    BY DEF Others
  <1> QED BY <1>3, <1>4, AdvanceSafe

\* A step that leaves the processor alone.
LEMMA SameStack ==
  ASSUME LocksInv, UNCHANGED <<stack, flag, locked, isr, panicked>>, irr' \subseteq {0, 1}
  PROVE  LocksInv'
  <1>1. Arg' = Arg
    BY DEF Arg
  <1> QED BY <1>1 DEF LocksInv, ProcessorType, PathsSafe, Shapes, HandlersNest

\* A nonspecific end of interrupt ends the interrupt of the innermost path: it is the
\* most urgent of those in service.
LEMMA EoiSafe ==
  ASSUME LocksInv, Eoi
  PROVE  LocksInv'
  <1> DEFINE sv == stack[1].saved
  <1>0. At("eoi") /\ UNCHANGED <<flag, locked, irr, panicked>> /\ Go(After, sv)
    BY DEF Eoi
  <1>1. /\ ~panicked /\ stack # <<>> /\ stack[1].code # <<>> /\ stack[1].code[1].op = "eoi"
        /\ SafeStep(Safe, stack[1].code, locked, sv, flag)
        /\ locked \in SUBSET Mutexes /\ flag \in BOOLEAN /\ sv \in Seq(BOOLEAN) /\ After \in Seq(Steps)
    BY <1>0, AtFacts
  <1>2. /\ Len(stack) \in Nat \ {0} /\ DOMAIN stack = 1 .. Len(stack)
        /\ stack[1].irq \in 0 .. 2 /\ stack[1].code \in Seq(Steps) /\ Shape(stack[1].irq, stack[1].code)
    BY <1>1, TopFacts
  <1>3. stack[1].irq # 2 /\ After = <<>>
    BY <1>1, <1>2, EoiShape DEF After
  <1>4. <<After, locked, sv, flag>> \in Safe
    BY <1>1 DEF SafeStep, After
  <1>5. /\ stack' \in Seq(Frame) /\ Len(stack') = Len(stack) /\ stack' # <<>>
        /\ stack'[1].irq = stack[1].irq /\ stack'[1].code = After /\ stack'[1].saved = sv
        /\ \A n \in 2 .. Len(stack) : stack'[n] = stack[n]
    BY <1>0, <1>1, GoFacts
  <1>6. DOMAIN stack' = 1 .. Len(stack)
    BY <1>5, LenProperties
  <1>7. isr' = {i \in isr : \E j \in isr : j < i} /\ isr \subseteq {0, 1}
    BY DEF Eoi, LocksInv, ProcessorType
  <1> HIDE DEF sv
  <1>8. ProcessorType'
    BY <1>0, <1>1, <1>5, <1>7 DEF LocksInv, ProcessorType
  <1>9. PathsSafe'
    BY <1>0, <1>1, <1>4, <1>5 DEF LocksInv, PathsSafe
  <1>10. Shapes'
    <2>1. ASSUME NEW n \in 1 .. Len(stack) PROVE Shape(stack'[n].irq, stack'[n].code)
      <3>1. CASE n = 1
        BY <1>3, <1>5, <3>1 DEF Shape
      <3>2. CASE n # 1
        <4>1. n \in 2 .. Len(stack)
          BY <1>2, <3>2
        <4>2. stack'[n] = stack[n]
          BY <1>5, <4>1
        <4> QED BY <4>2 DEF LocksInv, Shapes
      <3> QED BY <3>1, <3>2
    <2> QED BY <1>5, <2>1 DEF Shapes
  <1>11. HandlersNest'
    <2> DEFINE U == {n \in DOMAIN stack : stack[n].code # <<>>}
               V == {n \in DOMAIN stack' : stack'[n].code # <<>>}
    <2>1. /\ isr = {stack[n].irq : n \in U} \ {2}
          /\ \A m, n \in U : m < n => stack[m].irq < stack[n].irq
      BY DEF LocksInv, HandlersNest
    <2>2. V = U \ {1} /\ 1 \in U /\ U \subseteq 1 .. Len(stack)
      <3>1. 1 \notin V
        BY <1>3, <1>5
      <3>2. \A n \in 1 .. Len(stack) : n # 1 => n \in 2 .. Len(stack)
        BY <1>2
      <3>3. \A n \in 1 .. Len(stack) : n # 1 => (n \in V <=> n \in U)
        BY <1>2, <1>5, <1>6, <3>2
      <3>4. 1 \in U
        BY <1>1, <1>2
      <3> QED BY <1>2, <1>6, <3>1, <3>3, <3>4
    <2>3. \A n \in U : n # 1 => stack'[n].irq = stack[n].irq /\ 1 < n
      <3>1. ASSUME NEW n \in U, n # 1 PROVE stack'[n].irq = stack[n].irq /\ 1 < n
        <4>1. n \in 2 .. Len(stack)
          BY <1>2, <2>2, <3>1
        <4> QED BY <1>5, <4>1
      <3> QED BY <3>1
    <2>a. V = {n \in DOMAIN stack' : stack'[n].code # <<>>}
      OBVIOUS
    <2>b. \A n \in U : stack[n].irq \in 0 .. 2
      <3>1. stack \in Seq(Frame)
        BY DEF LocksInv, ProcessorType
      <3>2. ASSUME NEW n \in U PROVE stack[n].irq \in 0 .. 2
        <4>1. n \in 1 .. Len(stack)
          BY <2>2
        <4>2. stack[n] \in Frame
          BY <3>1, <4>1, ElementOfSeq
        <4> QED BY <4>2 DEF Frame
      <3> QED BY <3>2
    <2> HIDE DEF U, V
    <2>4. \A n \in U : n # 1 => stack[1].irq < stack[n].irq
      BY <2>1, <2>2, <2>3
    <2>5. stack[1].irq \in isr
      BY <1>3, <2>1, <2>2
    <2>6. isr' = isr \ {stack[1].irq}
      <3>1. ASSUME NEW i \in isr, i # stack[1].irq PROVE stack[1].irq < i
        <4>1. PICK n \in U : i = stack[n].irq
          BY <2>1
        <4> QED BY <2>4, <3>1, <4>1
      <3>2. ASSUME NEW j \in isr PROVE ~(j < stack[1].irq)
        <4>1. CASE j = stack[1].irq
          BY <1>2, <4>1
        <4>2. CASE j # stack[1].irq
          BY <1>2, <1>7, <3>1, <4>2
        <4> QED BY <4>1, <4>2
      <3> QED BY <1>7, <2>5, <3>1, <3>2
    <2>7. isr' = {stack'[n].irq : n \in V} \ {2}
      <3>1. ASSUME NEW i \in isr' PROVE i \in {stack'[n].irq : n \in V} \ {2}
        <4>1. i \in isr /\ i # stack[1].irq
          BY <2>6
        <4>2. PICK n \in U : i = stack[n].irq
          BY <2>1, <4>1
        <4>3. n # 1
          BY <4>1, <4>2
        <4>4. n \in V /\ i = stack'[n].irq
          BY <2>2, <2>3, <4>2, <4>3
        <4>5. i # 2
          BY <1>7, <4>1
        <4> QED BY <4>4, <4>5
      <3>2. ASSUME NEW i \in {stack'[n].irq : n \in V} \ {2} PROVE i \in isr'
        <4>1. PICK n \in V : i = stack'[n].irq /\ i # 2
          OBVIOUS
        <4>2. n \in U /\ n # 1 /\ i = stack[n].irq
          BY <2>2, <2>3, <4>1
        <4>3. i \in isr
          BY <2>1, <4>1, <4>2
        <4>4. i # stack[1].irq
          BY <1>2, <2>b, <2>4, <4>2
        <4> QED BY <2>6, <4>3, <4>4
      <3> QED BY <3>1, <3>2
    <2>8. \A m, n \in V : m < n => stack'[m].irq < stack'[n].irq
      BY <2>1, <2>2, <2>3
    <2> QED BY <2>7, <2>8, <2>a DEF HandlersNest
  <1> QED BY <1>8, <1>9, <1>10, <1>11 DEF LocksInv

\* iretq goes back to a path that was interrupted with the flag set.
LEMMA IretSafe ==
  ASSUME LocksInv, Iret
  PROVE  LocksInv'
  <1>0. ~panicked /\ stack # <<>> /\ stack[1].code = <<>> /\ stack' = Tail(stack) /\ flag' = TRUE
        /\ UNCHANGED <<locked, irr, isr, panicked>>
    BY DEF Iret
  <1>1. stack \in Seq(Frame)
    BY DEF LocksInv, ProcessorType
  <1>2. /\ Len(stack) \in Nat \ {0} /\ DOMAIN stack = 1 .. Len(stack)
        /\ Follows(Safe, stack[1].code, locked, stack[1].saved, flag)
    BY <1>0, TopFacts
  <1>3. locked = {}
    BY <1>0, <1>2 DEF Follows
  <1>4. /\ stack' \in Seq(Frame) /\ Len(stack') = Len(stack) - 1
        /\ \A i \in 1 .. Len(stack') : stack'[i] = stack[i + 1]
    BY <1>0, <1>1, HeadTailProperties
  <1>5. DOMAIN stack' = 1 .. Len(stack) - 1 /\ \A i \in 1 .. Len(stack) - 1 : i + 1 \in 2 .. Len(stack)
    BY <1>2, <1>4, LenProperties
  <1>6. ProcessorType'
    BY <1>0, <1>4 DEF LocksInv, ProcessorType
  <1>7. \A n \in 1 .. Len(stack) - 1 : <<stack'[n].code, {}, stack'[n].saved, TRUE>> \in Safe
    BY <1>4, <1>5 DEF LocksInv, PathsSafe
  <1>8. PathsSafe'
    <2>1. stack' # <<>> => 1 \in 1 .. Len(stack) - 1
      BY <1>2, <1>4, EmptySeq
    <2>2. stack' # <<>> => <<stack'[1].code, locked', stack'[1].saved, flag'>> \in Safe
      BY <1>0, <1>3, <1>7, <2>1
    <2>3. \A n \in 2 .. Len(stack') : n \in 1 .. Len(stack) - 1
      BY <1>2, <1>4
    <2>4. \A n \in 2 .. Len(stack') : <<stack'[n].code, {}, stack'[n].saved, TRUE>> \in Safe
      BY <1>7, <2>3
    <2>5. ~panicked'
      BY <1>0 DEF LocksInv, PathsSafe
    <2> QED BY <1>0, <1>3, <2>2, <2>4, <2>5 DEF PathsSafe
  <1>9. Shapes'
    <2>1. \A n \in 1 .. Len(stack') : n + 1 \in 1 .. Len(stack) /\ stack'[n] = stack[n + 1]
      BY <1>2, <1>4
    <2> QED BY <2>1 DEF LocksInv, Shapes
  <1>10. HandlersNest'
    <2> DEFINE U == {n \in DOMAIN stack : stack[n].code # <<>>}
               V == {n \in DOMAIN stack' : stack'[n].code # <<>>}
    <2>1. /\ isr = {stack[n].irq : n \in U} \ {2}
          /\ \A m, n \in U : m < n => stack[m].irq < stack[n].irq
      BY DEF LocksInv, HandlersNest
    <2>2. \A n \in V : n \in Nat /\ n + 1 \in U /\ stack'[n].irq = stack[n + 1].irq
      <3>1. ASSUME NEW n \in V PROVE n \in Nat /\ n + 1 \in U /\ stack'[n].irq = stack[n + 1].irq
        <4>1. n \in 1 .. Len(stack) - 1 /\ stack'[n].code # <<>>
          BY <1>5
        <4>2. stack'[n] = stack[n + 1] /\ n + 1 \in 1 .. Len(stack)
          BY <1>2, <1>4, <4>1
        <4> QED BY <1>2, <4>1, <4>2
      <3> QED BY <3>1
    <2>3. \A n \in U : n - 1 \in V /\ stack'[n - 1].irq = stack[n].irq
      <3>1. ASSUME NEW n \in U PROVE n - 1 \in V /\ stack'[n - 1].irq = stack[n].irq
        <4>1. n \in 1 .. Len(stack) /\ n # 1 /\ stack[n].code # <<>>
          BY <1>0, <1>2
        <4>2. n - 1 \in 1 .. Len(stack) - 1
          BY <1>2, <4>1
        <4>3. (n - 1) + 1 = n
          BY <1>2, <4>1
        <4>4. stack'[n - 1] = stack[n]
          BY <1>4, <4>2, <4>3
        <4> QED BY <1>5, <4>1, <4>2, <4>4
      <3> QED BY <3>1
    <2>a. V = {n \in DOMAIN stack' : stack'[n].code # <<>>}
      OBVIOUS
    <2> HIDE DEF U, V
    <2>4. {stack'[n].irq : n \in V} = {stack[n].irq : n \in U}
      <3>1. \A n \in V : \E m \in U : stack'[n].irq = stack[m].irq
        BY <2>2
      <3>2. \A n \in U : \E m \in V : stack'[m].irq = stack[n].irq
        BY <2>3
      <3> QED BY <3>1, <3>2
    <2>5. ASSUME NEW m \in V, NEW n \in V, m < n PROVE stack'[m].irq < stack'[n].irq
      <3>1. m + 1 < n + 1
        BY <2>2, <2>5
      <3> QED BY <2>1, <2>2, <3>1
    <2>6. isr' = {stack'[n].irq : n \in V} \ {2}
      BY <1>0, <2>1, <2>4
    <2> QED BY <2>5, <2>6, <2>a DEF HandlersNest
  <1> QED BY <1>6, <1>8, <1>9, <1>10 DEF LocksInv

-----------------------------------------------------------------------------
(* Traps.                                                                  *)

\* A trap that comes with the flag set, for something more urgent than what the
\* unfinished handlers are for.
LEMMA EnterSafe ==
  ASSUME LocksInv, NEW irq \in 0 .. 2, NEW code, Fresh(irq, code), Enter(irq, code), flag,
         \A n \in DOMAIN stack : stack[n].code # <<>> => irq < stack[n].irq,
         UNCHANGED <<locked, panicked>>, irr' \subseteq {0, 1}, isr' = isr \cup ({irq} \ {2})
  PROVE  LocksInv'
  <1> DEFINE fr == [irq |-> irq, code |-> code, saved |-> <<>>]
  <1>0. stack' = <<fr>> \o stack /\ flag' = FALSE
    BY DEF Enter
  <1>1. stack \in Seq(Frame) /\ Len(stack) \in Nat /\ DOMAIN stack = 1 .. Len(stack)
    BY LenProperties DEF LocksInv, ProcessorType
  <1>2. fr \in Frame
    BY DEF Fresh, Frame
  <1>3. fr.irq = irq /\ fr.code = code /\ fr.saved = <<>>
    OBVIOUS
  <1> HIDE DEF fr
  <1>4. locked = {}
    <2>1. CASE stack = <<>>
      BY <2>1 DEF LocksInv, PathsSafe
    <2>2. CASE stack # <<>>
      BY <2>2, TopFacts DEF Follows
    <2> QED BY <2>1, <2>2
  <1>5. /\ stack' \in Seq(Frame) /\ Len(stack') = Len(stack) + 1 /\ stack' # <<>>
        /\ stack'[1] = fr /\ \A n \in 1 .. Len(stack) : stack'[n + 1] = stack[n]
    <2>1. /\ stack' \in Seq(Frame) /\ stack' # <<>> /\ stack'[1] = fr /\ Tail(stack') = stack
      BY <1>0, <1>1, <1>2, ConsFacts
    <2>2. /\ Len(stack') = Len(stack) + 1
          /\ \A n \in 1 .. Len(stack) : stack[n] = stack'[n + 1]
      BY <2>1, HeadTailProperties
    <2> QED BY <2>1, <2>2
  <1>6. DOMAIN stack' = 1 .. Len(stack) + 1
    BY <1>5, LenProperties
  <1>7. \A n \in 2 .. Len(stack) + 1 : n - 1 \in 1 .. Len(stack) /\ stack'[n] = stack[n - 1]
    <2>1. ASSUME NEW n \in 2 .. Len(stack) + 1 PROVE n - 1 \in 1 .. Len(stack) /\ stack'[n] = stack[n - 1]
      <3>1. n - 1 \in 1 .. Len(stack) /\ (n - 1) + 1 = n
        BY <1>1
      <3> QED BY <1>5, <3>1
    <2> QED BY <2>1
  <1>8. ProcessorType'
    <2>1. isr' \subseteq {0, 1}
      BY DEF LocksInv, ProcessorType
    <2> QED BY <1>0, <1>5, <2>1 DEF LocksInv, ProcessorType
  <1>9. PathsSafe'
    <2>1. <<stack'[1].code, locked', stack'[1].saved, flag'>> \in Safe
      BY <1>0, <1>3, <1>4, <1>5 DEF Fresh
    <2>2. \A n \in 1 .. Len(stack) : <<stack[n].code, {}, stack[n].saved, TRUE>> \in Safe
      <3>1. ASSUME NEW n \in 1 .. Len(stack) PROVE <<stack[n].code, {}, stack[n].saved, TRUE>> \in Safe
        <4>1. CASE n = 1
          <5>1. stack # <<>>
            BY <1>1, <4>1
          <5>2. <<stack[1].code, locked, stack[1].saved, flag>> \in Safe /\ flag \in BOOLEAN
            BY <5>1 DEF LocksInv, PathsSafe, ProcessorType
          <5>3. flag = TRUE
            BY <5>2
          <5> QED BY <1>4, <4>1, <5>2, <5>3
        <4>2. CASE n # 1
          <5>1. n \in 2 .. Len(stack)
            BY <1>1, <4>2
          <5> QED BY <5>1 DEF LocksInv, PathsSafe
        <4> QED BY <4>1, <4>2
      <3> QED BY <3>1
    <2>3. \A n \in 2 .. Len(stack') : <<stack'[n].code, {}, stack'[n].saved, TRUE>> \in Safe
      BY <1>5, <1>7, <2>2
    <2>4. ~panicked'
      <3>1. {} \notin Recursive
        BY DEF Recursive
      <3> QED BY <1>4, <3>1 DEF LocksInv, PathsSafe
    <2> QED BY <1>5, <2>1, <2>3, <2>4 DEF PathsSafe
  <1>10. Shapes'
    <2>1. ASSUME NEW n \in 1 .. Len(stack') PROVE Shape(stack'[n].irq, stack'[n].code)
      <3>1. CASE n = 1
        BY <1>3, <1>5, <3>1 DEF Fresh
      <3>2. CASE n # 1
        <4>1. n \in 2 .. Len(stack) + 1
          BY <1>1, <1>5, <3>2
        <4> QED BY <1>7, <4>1 DEF LocksInv, Shapes
      <3> QED BY <3>1, <3>2
    <2> QED BY <2>1 DEF Shapes
  <1>11. HandlersNest'
    <2> DEFINE U == {n \in DOMAIN stack : stack[n].code # <<>>}
               V == {n \in DOMAIN stack' : stack'[n].code # <<>>}
    <2>1. /\ isr = {stack[n].irq : n \in U} \ {2}
          /\ \A m, n \in U : m < n => stack[m].irq < stack[n].irq
      BY DEF LocksInv, HandlersNest
    <2>2. 1 \in V /\ stack'[1].irq = irq
      BY <1>1, <1>3, <1>5, <1>6 DEF Fresh
    <2>3. \A n \in U : n + 1 \in V /\ stack'[n + 1].irq = stack[n].irq
      <3>1. ASSUME NEW n \in U PROVE n + 1 \in V /\ stack'[n + 1].irq = stack[n].irq
        <4>1. n \in 1 .. Len(stack) /\ stack[n].code # <<>>
          BY <1>1
        <4>2. stack'[n + 1] = stack[n] /\ n + 1 \in 1 .. Len(stack) + 1
          BY <1>1, <1>5, <4>1
        <4> QED BY <1>6, <4>1, <4>2
      <3> QED BY <3>1
    <2>4. \A n \in V : n \in Nat /\ (n = 1 \/ (n > 1 /\ n - 1 \in U /\ stack'[n].irq = stack[n - 1].irq))
      <3>1. ASSUME NEW n \in V, n # 1
            PROVE  n \in Nat /\ n > 1 /\ n - 1 \in U /\ stack'[n].irq = stack[n - 1].irq
        <4>1. n \in 2 .. Len(stack) + 1 /\ stack'[n].code # <<>>
          BY <1>1, <1>6, <3>1
        <4>2. n - 1 \in 1 .. Len(stack) /\ stack'[n] = stack[n - 1]
          BY <1>7, <4>1
        <4> QED BY <1>1, <4>1, <4>2
      <3> QED BY <3>1
    <2>5. \A n \in U : irq < stack[n].irq
      BY <1>1
    <2>a. V = {n \in DOMAIN stack' : stack'[n].code # <<>>}
      OBVIOUS
    <2> HIDE DEF U, V
    <2>6. {stack'[n].irq : n \in V} = {stack[n].irq : n \in U} \cup {irq}
      <3>1. \A n \in V : stack'[n].irq = irq \/ \E m \in U : stack'[n].irq = stack[m].irq
        BY <2>2, <2>4
      <3>2. \A n \in U : \E m \in V : stack'[m].irq = stack[n].irq
        BY <2>3
      <3> QED BY <2>2, <3>1, <3>2
    <2>7. isr' = {stack'[n].irq : n \in V} \ {2}
      BY <2>1, <2>6
    <2>8. ASSUME NEW m \in V, NEW n \in V, m < n PROVE stack'[m].irq < stack'[n].irq
      <3>1. n > 1 /\ n \in Nat /\ m \in Nat /\ n - 1 \in U /\ stack'[n].irq = stack[n - 1].irq
        <4>1. n # 1
          BY <2>4, <2>8
        <4> QED BY <2>4, <4>1
      <3>2. CASE m = 1
        BY <2>2, <2>5, <3>1, <3>2
      <3>3. CASE m # 1
        <4>1. m - 1 \in U /\ stack'[m].irq = stack[m - 1].irq
          BY <2>4, <3>3
        <4>2. m - 1 < n - 1
          BY <2>8, <3>1
        <4> QED BY <2>1, <3>1, <4>1, <4>2
      <3> QED BY <3>2, <3>3
    <2> QED BY <2>7, <2>8, <2>a DEF HandlersNest
  <1> QED BY <1>8, <1>9, <1>10, <1>11 DEF LocksInv

\* An interrupt: the controller has nothing in service that is as urgent.
LEMMA DeliverSafe ==
  ASSUME LocksInv, NEW i \in {0, 1}, NEW code, Fresh(i, code), Deliver(i, code)
  PROVE  LocksInv'
  <1>1. /\ flag /\ Enter(i, code) /\ UNCHANGED <<locked, panicked>>
        /\ \A j \in isr : i < j
        /\ irr' = irr \ {i} /\ isr' = isr \cup {i}
    BY DEF Deliver
  <1>2. stack \in Seq(Frame) /\ irr \subseteq {0, 1}
    BY DEF LocksInv, ProcessorType
  <1>3. \A n \in DOMAIN stack : stack[n].code # <<>> => i < stack[n].irq
    <2>1. ASSUME NEW n \in DOMAIN stack, stack[n].code # <<>> PROVE i < stack[n].irq
      <3>1. stack[n].irq = 2 \/ stack[n].irq \in isr
        BY <2>1 DEF LocksInv, HandlersNest
      <3> QED BY <1>1, <3>1
    <2> QED BY <2>1
  <1>4. irr' \subseteq {0, 1} /\ isr' = isr \cup ({i} \ {2}) /\ i \in 0 .. 2
    BY <1>1, <1>2
  <1> QED BY <1>1, <1>3, <1>4, EnterSafe

-----------------------------------------------------------------------------
(* The invariant and the theorems.                                         *)

\* The kernel begins in start, with interrupts disabled and nothing locked.
LEMMA InitSafe ==
  ASSUME Init
  PROVE  LocksInv
  <1>1. PICK c : Runs(c, {}) /\ stack = <<[irq |-> 2, code |-> c, saved |-> <<>>]>>
    BY StartRuns DEF Init
  <1> DEFINE fr == [irq |-> 2, code |-> c, saved |-> <<>>]
  <1>2. flag = FALSE /\ locked = {} /\ irr = {} /\ isr = {} /\ panicked = FALSE
    BY DEF Init
  <1>3. c \in Seq(Plain) /\ c \in Seq(Steps) /\ <<>> \in Seq(Steps) /\ <<>> \in Seq(BOOLEAN)
    BY <1>1, PlainSteps DEF Runs
  <1>4. fr \in Frame /\ fr.irq = 2 /\ fr.code = c /\ fr.saved = <<>>
    <2>1. 2 \in 0 .. 2
      OBVIOUS
    <2> QED BY <1>3, <2>1 DEF Frame
  <1>5. stack = <<fr>>
    BY <1>1
  <1> HIDE DEF fr
  <1>6. stack \in Seq(Frame) /\ Len(stack) = 1 /\ stack[1] = fr /\ stack # <<>>
    BY <1>4, <1>5
  <1>7. DOMAIN stack = {1} /\ (\A n \in 1 .. Len(stack) : n = 1) /\ \A n \in 2 .. Len(stack) : FALSE
    <2>1. DOMAIN stack = 1 .. Len(stack)
      BY <1>6, LenProperties
    <2>2. \A n : n \in 1 .. 1 <=> n = 1
      OBVIOUS
    <2>3. \A n \in 2 .. 1 : FALSE
      OBVIOUS
    <2> QED BY <1>6, <2>1, <2>2, <2>3
  <1>8. <<c, {}, <<>>, FALSE>> \in Safe
    <2>1. <<<<>>, {}, <<>>, FALSE>> \in Safe
      BY SafeEnd
    <2>2. <<c \o <<>>, {}, <<>>, FALSE>> \in Safe
      BY <1>1, <1>3, <2>1 DEF Runs
    <2>3. c \o <<>> = c
      BY <1>3, ConcatEmptySeq
    <2> QED BY <2>2, <2>3
  <1>9. ProcessorType
    BY <1>2, <1>6 DEF ProcessorType
  <1>10. PathsSafe
    BY <1>2, <1>4, <1>6, <1>7, <1>8 DEF PathsSafe
  <1>11. Shapes
    BY <1>3, <1>4, <1>6, <1>7 DEF Shapes, Shape
  <1>12. HandlersNest
    <2> DEFINE U == {n \in DOMAIN stack : stack[n].code # <<>>}
    <2>1. \A n \in U : n = 1 /\ stack[n].irq = 2
      BY <1>4, <1>6, <1>7
    <2>a. U = {n \in DOMAIN stack : stack[n].code # <<>>}
      OBVIOUS
    <2> HIDE DEF U
    <2>2. {stack[n].irq : n \in U} \ {2} = {}
      BY <2>1
    <2>3. \A m, n \in U : m < n => stack[m].irq < stack[n].irq
      <3>1. ~ (1 < 1)
        OBVIOUS
      <3> QED BY <2>1, <3>1
    <2> QED BY <1>2, <2>2, <2>3, <2>a DEF HandlersNest
  <1> QED BY <1>9, <1>10, <1>11, <1>12 DEF LocksInv

\* A step of the innermost path, or the return from it.
LEMMA KernelSafe ==
  ASSUME LocksInv, Kernel
  PROVE  LocksInv'
  <1>0. irr \subseteq {0, 1}
    BY DEF LocksInv, ProcessorType
  <1>1. CASE Pop
    <2>1. /\ At("pop") /\ Go(After, stack[1].saved) /\ "pop" \in Others
          /\ UNCHANGED <<flag, locked, irr, isr, panicked>>
      BY <1>1 DEF Pop, Others
    <2> QED BY <2>1, OtherSafe
  <1>2. CASE Printing
    <2>0. UNCHANGED <<flag, locked, irr, isr, panicked>>
      BY <1>2 DEF Printing
    <2>1. \/ At("print") /\ Go(After, stack[1].saved)
          \/ At("write") /\ Go(After, stack[1].saved)
          \/ UNCHANGED stack
          \/ At("writing") /\ Go(After, stack[1].saved)
      BY <1>2 DEF Printing
    <2>2. "print" \in Others /\ "write" \in Others /\ "writing" \in Others
      BY DEF Others
    <2>3. CASE UNCHANGED stack
      BY <1>0, <2>0, <2>3, SameStack
    <2>4. ASSUME NEW op \in Others, At(op), Go(After, stack[1].saved) PROVE LocksInv'
      BY <2>0, <2>4, OtherSafe
    <2> QED BY <2>1, <2>2, <2>3, <2>4
  <1>3. CASE Wait
    <2>0. At("wait") /\ UNCHANGED <<flag, locked, irr, isr, panicked>> /\ "wait" \in Others
      BY <1>3 DEF Wait, Others
    <2>1. CASE Go(After, stack[1].saved)
      BY <2>0, <2>1, OtherSafe
    <2>2. CASE UNCHANGED stack
      BY <1>0, <2>0, <2>2, SameStack
    <2> QED BY <1>3, <2>1, <2>2 DEF Wait
  <1> QED BY <1>1, <1>2, <1>3, SaveFlagSafe, SetFlagSafe, TakeSafe, ClearSafe, ChooseSafe, PushSafe,
            EoiSafe, IretSafe DEF Kernel

\* Every step keeps the invariant.
LEMMA NextSafe ==
  ASSUME LocksInv, [Next]_vars
  PROVE  LocksInv'
  <1>0. irr \subseteq {0, 1} /\ (stack = <<>> => flag)
    BY DEF LocksInv, ProcessorType, PathsSafe
  <1>1. CASE Kernel
    BY <1>1, KernelSafe
  <1>2. CASE Raise
    <2>1. irr' \subseteq {0, 1} /\ UNCHANGED <<stack, flag, locked, isr, panicked>>
      BY <1>0, <1>2 DEF Raise
    <2> QED BY <2>1, SameStack
  <1>3. CASE PitInterrupt
    <2>1. CASE stack = <<>>
      <3>1. Deliver(0, pit_user)
        BY <1>3, <2>1 DEF PitInterrupt
      <3> QED BY <3>1, HandlersFresh, DeliverSafe
    <2>2. CASE stack # <<>>
      <3>1. Deliver(0, pit_kernel)
        BY <1>3, <2>2 DEF PitInterrupt
      <3> QED BY <3>1, HandlersFresh, DeliverSafe
    <2> QED BY <2>1, <2>2
  <1>4. CASE KeyboardInterrupt
    <2>1. Deliver(1, keyboard_interrupt)
      BY <1>4 DEF KeyboardInterrupt
    <2> QED BY <2>1, HandlersFresh, DeliverSafe
  <1>5. CASE Syscall
    <2>1. /\ stack = <<>> /\ Enter(2, dispatch_syscall) /\ UNCHANGED <<locked, irr, isr, panicked>>
      BY <1>5 DEF Syscall
    <2>2. /\ flag /\ irr' \subseteq {0, 1} /\ isr' = isr \cup ({2} \ {2}) /\ 2 \in 0 .. 2
          /\ DOMAIN stack = {}
      BY <1>0, <2>1
    <2>3. \A n \in DOMAIN stack : stack[n].code # <<>> => 2 < stack[n].irq
      BY <2>2
    <2> QED BY <2>1, <2>2, <2>3, HandlersFresh, EnterSafe
  <1>6. CASE Halt \/ UNCHANGED vars
    <2>1. irr' \subseteq {0, 1} /\ UNCHANGED <<stack, flag, locked, isr, panicked>>
      BY <1>0, <1>6 DEF Halt, vars
    <2> QED BY <2>1, SameStack
  <1> QED BY <1>1, <1>2, <1>3, <1>4, <1>5, <1>6 DEF Next

\* The paths on the kernel stack are always safe.
THEOREM PathsStaySafe == Spec => []LocksInv
  <1>1. Init => LocksInv
    BY InitSafe
  <1>2. LocksInv /\ [Next]_vars => LocksInv'
    BY NextSafe
  <1> QED BY <1>1, <1>2, PTL DEF Spec

\* Mutex::lock finds its mutex locked ("recursive mutex lock!") only where kalloc::alloc
\* has no memory for the Arc of a new task's future or of an opened file and drops that
\* value; and interrupts are off while any mutex is locked, however deep traps nest and
\* wherever they come in.
THEOREM LocksAreNeverTakenTwice == Spec => []NoRecursiveLock
  <1>1. LocksInv => NoRecursiveLock
    <2> SUFFICES ASSUME LocksInv PROVE NoRecursiveLock
      OBVIOUS
    <2>1. panicked => Arg = "ALLOCATOR" /\ locked \in Recursive
      BY DEF LocksInv, PathsSafe
    <2>2. CASE stack = <<>>
      BY <2>1, <2>2 DEF LocksInv, PathsSafe, NoRecursiveLock
    <2>3. CASE stack # <<>>
      BY <2>1, <2>3, TopFacts DEF Follows, NoRecursiveLock
    <2> QED BY <2>2, <2>3
  <1> QED BY <1>1, PathsStaySafe, PTL

\* The unnumbered end of interrupt is always for the handler that gives it: what the
\* controller has in service is what the unfinished handlers are for, innermost first.
THEOREM AcknowledgementsMatch == Spec => []HandlersNest
  <1>1. LocksInv => HandlersNest
    BY DEF LocksInv
  <1> QED BY <1>1, PathsStaySafe, PTL

-----------------------------------------------------------------------------
(***************************************************************************)
(* The console.  What a recursive function of strings computes is proved   *)
(* by induction over a set of numbers: the library's theorem for           *)
(* predicates cannot be instantiated, the existence of a least element can.*)
(***************************************************************************)

\* Induction over the natural numbers, for a set.
LEMMA SetInduction ==
  ASSUME NEW K, 0 \in K, \A k \in Nat : k \in K => k + 1 \in K
  PROVE  Nat \subseteq K
  <1> DEFINE R == OpToRel(<, Nat)
  <1>1. IsWellFoundedOn(R, Nat)
    BY NatLessThanWellFounded
  <1>2. \A x, y \in Nat : x < y => <<x, y>> \in R
    BY DEF OpToRel
  <1> HIDE DEF R
  <1>3. SUFFICES ASSUME Nat \ K # {} PROVE FALSE
    OBVIOUS
  <1>4. PICK x \in Nat \ K : \A y \in Nat \ K : ~ (<<y, x>> \in R)
    BY <1>1, <1>3, WFMin
  <1>5. x # 0 /\ x - 1 \in Nat /\ x - 1 < x /\ (x - 1) + 1 = x
    BY <1>4
  <1> QED BY <1>2, <1>4, <1>5

\* A set of natural numbers has a least one.
LEMMA LeastNumber ==
  ASSUME NEW T, T \subseteq Nat, T # {}
  PROVE  \E x \in T : \A y \in T : x <= y
  <1> DEFINE R == OpToRel(<, Nat)
  <1>1. IsWellFoundedOn(R, Nat)
    BY NatLessThanWellFounded
  <1>2. \A x, y \in Nat : x < y => <<x, y>> \in R
    BY DEF OpToRel
  <1> HIDE DEF R
  <1>3. PICK x \in T : \A y \in T : ~ (<<y, x>> \in R)
    BY <1>1, WFMin
  <1>4. ASSUME NEW y \in T PROVE x <= y
    <2>1. x \in Nat /\ y \in Nat /\ ~ (y < x)
      BY <1>2, <1>3
    <2> QED BY <2>1
  <1> QED BY <1>3, <1>4


\* The states of write_str after the first bytes of str.
Writes(s, str, f, k) ==
  f = [i \in 0 .. k |-> IF i = 0 THEN s ELSE WriteByte(f[i - 1], str[i])]

\* There is such a function, so that write_str goes from byte to byte.
LEMMA WriteStrSteps ==
  ASSUME NEW s, NEW S, NEW str \in Seq(S)
  PROVE  \E f : /\ f[0] = s /\ f[Len(str)] = write_str(s, str)
                /\ \A i \in 1 .. Len(str) : f[i] = WriteByte(f[i - 1], str[i])
  <1> DEFINE K == {k \in Nat : \E f : Writes(s, str, f, k)}
  <1>1. 0 \in K
    <2>1. Writes(s, str, [i \in 0 .. 0 |-> s], 0)
      BY DEF Writes
    <2> QED BY <2>1
  <1>2. ASSUME NEW k \in Nat, k \in K PROVE k + 1 \in K
    <2>1. PICK f : Writes(s, str, f, k)
      BY <1>2
    <2> DEFINE g == [i \in 0 .. k + 1 |-> IF i <= k THEN f[i] ELSE WriteByte(f[k], str[k + 1])]
    <2>2. Writes(s, str, g, k + 1)
      BY <2>1 DEF Writes
    <2> HIDE DEF g
    <2> QED BY <2>2
  <1>3. \A k \in Nat : k \in K => k + 1 \in K
    BY <1>2
  <1> HIDE DEF K
  <1>4. Len(str) \in K
    <2>1. Nat \subseteq K
      BY <1>1, <1>3, SetInduction
    <2> QED BY <2>1
  <1> DEFINE h == CHOOSE f : Writes(s, str, f, Len(str))
  <1>5. Writes(s, str, h, Len(str))
    BY <1>4 DEF K
  <1>6. write_str(s, str) = h[Len(str)]
    BY DEF write_str, Writes
  <1> HIDE DEF h
  <1>7. /\ h[0] = s /\ \A i \in 1 .. Len(str) : h[i] = WriteByte(h[i - 1], str[i])
    BY <1>5 DEF Writes
  <1> QED BY <1>6, <1>7
\* The states of Typed after the first bytes of str.
Types(ls, str, f, k) ==
  f = [i \in 0 .. k |-> IF i = 0 THEN ls ELSE TypeByte(f[i - 1], str[i])]

\* There is such a function, so that Typed goes from byte to byte.
LEMMA TypedSteps ==
  ASSUME NEW ls, NEW S, NEW str \in Seq(S)
  PROVE  \E f : /\ f[0] = ls /\ f[Len(str)] = Typed(ls, str)
                /\ \A i \in 1 .. Len(str) : f[i] = TypeByte(f[i - 1], str[i])
  <1> DEFINE K == {k \in Nat : \E f : Types(ls, str, f, k)}
  <1>1. 0 \in K
    <2>1. Types(ls, str, [i \in 0 .. 0 |-> ls], 0)
      BY DEF Types
    <2> QED BY <2>1
  <1>2. ASSUME NEW k \in Nat, k \in K PROVE k + 1 \in K
    <2>1. PICK f : Types(ls, str, f, k)
      BY <1>2
    <2> DEFINE g == [i \in 0 .. k + 1 |-> IF i <= k THEN f[i] ELSE TypeByte(f[k], str[k + 1])]
    <2>2. Types(ls, str, g, k + 1)
      BY <2>1 DEF Types
    <2> HIDE DEF g
    <2> QED BY <2>2
  <1>3. \A k \in Nat : k \in K => k + 1 \in K
    BY <1>2
  <1> HIDE DEF K
  <1>4. Len(str) \in K
    <2>1. Nat \subseteq K
      BY <1>1, <1>3, SetInduction
    <2> QED BY <2>1
  <1> DEFINE h == CHOOSE f : Types(ls, str, f, Len(str))
  <1>5. Types(ls, str, h, Len(str))
    BY <1>4 DEF K
  <1>6. Typed(ls, str) = h[Len(str)]
    BY DEF Typed, Types
  <1> HIDE DEF h
  <1>7. /\ h[0] = ls /\ \A i \in 1 .. Len(str) : h[i] = TypeByte(h[i - 1], str[i])
    BY <1>5 DEF Types
  <1> QED BY <1>6, <1>7

-----------------------------------------------------------------------------
Glyphs == {"x", "?"}

\* The screen fits the display; a glyph on the last column has been drawn at most.
Screens ==
  [cells : [0 .. rows - 1 -> [0 .. cols - 1 -> Seq(Glyphs)]], row : 0 .. rows - 1, col : 0 .. cols]

\* The text fits the display, and there is always a line to write on.
AreLines(ls) ==
  /\ ls \in Seq(Seq(Glyphs))
  /\ Len(ls) \in 1 .. rows
  /\ \A i \in 1 .. Len(ls) : Len(ls[i]) <= cols

\* The screen s shows the lines ls, and between two bytes there is room for a glyph.
ShowsCell(cells, ls, y, x) ==
  cells[y][x] = IF y < Len(ls) /\ x < Len(ls[y + 1]) THEN << ls[y + 1][x + 1] >> ELSE <<>>
Drawn(s, ls) ==
  /\ s \in Screens /\ AreLines(ls)
  /\ s.row = Len(ls) - 1 /\ s.col = Len(ls[Len(ls)])
  /\ \A y \in 0 .. rows - 1, x \in 0 .. cols - 1 : ShowsCell(s.cells, ls, y, x)
Shows(s, ls) == Drawn(s, ls) /\ s.col < cols

\* There is room for a character.
LEMMA ScreenSize == rows \in Nat \ {0} /\ cols \in Nat \ {0}
  BY ScreenAssumption DEF rows, cols

\* Of more than rows lines the last ones.
Kept(ls) == IF Len(ls) > rows THEN Tail(ls) ELSE ls

\* newline shows a new, empty line.
LEMMA NewlineShows ==
  ASSUME NEW s, NEW ls, Drawn(s, ls)
  PROVE  Shows(newline(s), Kept(Append(ls, <<>>)))
  <1> DEFINE all == Append(ls, <<>>)
             n == Len(ls)
  <1>0. rows \in Nat \ {0} /\ cols \in Nat \ {0}
    BY ScreenSize
  <1>1. /\ s \in Screens /\ ls \in Seq(Seq(Glyphs)) /\ n \in 1 .. rows
        /\ s.row = n - 1
        /\ \A k \in 1 .. n : Len(ls[k]) <= cols
        /\ \A y \in 0 .. rows - 1, x \in 0 .. cols - 1 : ShowsCell(s.cells, ls, y, x)
    BY DEF Drawn, AreLines
  <1>2. /\ s.cells \in [0 .. rows - 1 -> [0 .. cols - 1 -> Seq(Glyphs)]] /\ s.row \in 0 .. rows - 1
    BY <1>1 DEF Screens
  <1>3. <<>> \in Seq(Glyphs) /\ Len(<<>>) = 0
    OBVIOUS
  <1>4. /\ all \in Seq(Seq(Glyphs)) /\ Len(all) = n + 1 /\ all[n + 1] = <<>>
        /\ \A k \in 1 .. n : all[k] = ls[k]
    BY <1>1, <1>3, AppendProperties
  <1>5. CASE n = rows
    <2> DEFINE cells2 == [y \in 0 .. rows - 1 |-> IF y = rows - 1 THEN BlankRow ELSE s.cells[y + 1]]
               ls2 == Tail(all)
    <2>1. newline(s) = [cells |-> cells2, row |-> s.row, col |-> 0]
      <3>1. s.row + 1 = rows
        BY <1>1, <1>5
      <3> QED BY <1>1, <3>1 DEF newline, Screens
    <2>2. Kept(all) = ls2
      BY <1>0, <1>4, <1>5 DEF Kept
    <2>3. /\ ls2 \in Seq(Seq(Glyphs)) /\ Len(ls2) = rows
          /\ \A k \in 1 .. rows : ls2[k] = all[k + 1]
      <3>1. all # <<>>
        BY <1>1, <1>4
      <3>2. Len(all) - 1 = rows
        BY <1>1, <1>4, <1>5
      <3> QED BY <1>4, <3>1, <3>2, HeadTailProperties
    <2> HIDE DEF ls2
    <2>4. ls2[rows] = <<>> /\ \A k \in 1 .. rows - 1 : k + 1 \in 1 .. n /\ ls2[k] = ls[k + 1]
      BY <1>0, <1>4, <1>5, <2>3
    <2>5. BlankRow \in [0 .. cols - 1 -> Seq(Glyphs)]
      BY DEF BlankRow
    <2>6. cells2 \in [0 .. rows - 1 -> [0 .. cols - 1 -> Seq(Glyphs)]]
      <3> DEFINE R == [0 .. cols - 1 -> Seq(Glyphs)]
      <3>1. BlankRow \in R /\ s.cells \in [0 .. rows - 1 -> R]
        BY <1>2, <2>5
      <3> HIDE DEF R
      <3>2. ASSUME NEW y \in 0 .. rows - 1
            PROVE  (IF y = rows - 1 THEN BlankRow ELSE s.cells[y + 1]) \in R
        <4>1. y # rows - 1 => y + 1 \in 0 .. rows - 1
          BY <1>0
        <4> QED BY <3>1, <4>1
      <3>3. cells2 \in [0 .. rows - 1 -> R]
        BY <3>2
      <3> QED BY <3>3 DEF R
    <2>7. ASSUME NEW y \in 0 .. rows - 1, NEW x \in 0 .. cols - 1 PROVE ShowsCell(cells2, ls2, y, x)
      <3>1. CASE y = rows - 1
        <4>1. ls2[y + 1] = <<>> /\ Len(ls2[y + 1]) = 0
          BY <1>0, <1>3, <2>4, <3>1
        <4>2. cells2[y][x] = <<>>
          BY <1>0, <3>1 DEF BlankRow
        <4>3. ~ (x < Len(ls2[y + 1]))
          BY <1>0, <4>1
        <4> HIDE DEF cells2
        <4> QED BY <4>2, <4>3 DEF ShowsCell
      <3>2. CASE y # rows - 1
        <4>1. y + 1 \in 0 .. rows - 1 /\ y + 1 \in 1 .. rows - 1 /\ cells2[y] = s.cells[y + 1]
          BY <1>0, <3>2
        <4>2. ShowsCell(s.cells, ls, y + 1, x)
          BY <1>1, <4>1
        <4>3. ls2[y + 1] = ls[(y + 1) + 1] /\ y < Len(ls2) /\ y + 1 < Len(ls)
          BY <1>0, <1>5, <2>3, <2>4, <4>1
        <4> HIDE DEF cells2
        <4> QED BY <4>1, <4>2, <4>3 DEF ShowsCell
      <3> QED BY <3>1, <3>2
    <2>8. AreLines(ls2)
      <3>1. ASSUME NEW k \in 1 .. rows PROVE Len(ls2[k]) <= cols
        <4>1. CASE k = rows
          BY <1>0, <1>3, <2>4, <4>1
        <4>2. CASE k # rows
          <5>1. k \in 1 .. rows - 1
            BY <1>0, <4>2
          <5> QED BY <1>1, <2>4, <5>1
        <4> QED BY <4>1, <4>2
      <3> QED BY <1>0, <2>3, <3>1 DEF AreLines
    <2> HIDE DEF cells2
    <2>9. newline(s) \in Screens
      BY <1>0, <1>2, <2>1, <2>6 DEF Screens
    <2>10. newline(s).row = Len(ls2) - 1 /\ newline(s).col = Len(ls2[Len(ls2)]) /\ newline(s).col < cols
           /\ newline(s).cells = cells2
      BY <1>0, <1>1, <1>3, <1>5, <2>1, <2>3, <2>4
    <2> QED BY <2>2, <2>7, <2>8, <2>9, <2>10 DEF Shows, Drawn
  <1>6. CASE n # rows
    <2>1. newline(s) = [cells |-> s.cells, row |-> s.row + 1, col |-> 0]
      <3>1. s.row + 1 # rows
        BY <1>0, <1>1, <1>6
      <3> QED BY <1>1, <3>1 DEF newline, Screens
    <2>2. Kept(all) = all
      BY <1>0, <1>1, <1>4, <1>6 DEF Kept
    <2>3. n + 1 \in 1 .. rows
      BY <1>0, <1>1, <1>6
    <2>4. ASSUME NEW y \in 0 .. rows - 1, NEW x \in 0 .. cols - 1 PROVE ShowsCell(s.cells, all, y, x)
      <3>0. ShowsCell(s.cells, ls, y, x) /\ Len(all) = n + 1
        BY <1>1, <1>4
      <3>1. CASE y < n
        <4>1. all[y + 1] = ls[y + 1] /\ y < n + 1
          BY <1>1, <1>4, <3>1
        <4> QED BY <3>0, <3>1, <4>1 DEF ShowsCell
      <3>2. CASE y = n
        <4>1. ~ (x < Len(all[y + 1])) /\ ~ (y < n)
          BY <1>0, <1>3, <1>4, <3>2
        <4> QED BY <3>0, <4>1 DEF ShowsCell
      <3>3. CASE y > n
        <4>1. ~ (y < n + 1) /\ ~ (y < n)
          BY <1>1, <3>3
        <4> QED BY <3>0, <4>1 DEF ShowsCell
      <3> QED BY <1>1, <3>1, <3>2, <3>3
    <2>5. AreLines(all)
      <3>1. ASSUME NEW k \in 1 .. n + 1 PROVE Len(all[k]) <= cols
        <4>1. CASE k = n + 1
          BY <1>0, <1>3, <1>4, <4>1
        <4>2. CASE k # n + 1
          <5>1. k \in 1 .. n
            BY <1>1, <4>2
          <5> QED BY <1>1, <1>4, <5>1
        <4> QED BY <4>1, <4>2
      <3> QED BY <1>4, <2>3, <3>1 DEF AreLines
    <2> HIDE DEF all
    <2>6. newline(s) \in Screens
      <3>1. s.row + 1 \in 0 .. rows - 1 /\ 0 \in 0 .. cols
        BY <1>0, <1>1, <2>3
      <3> QED BY <1>2, <2>1, <3>1 DEF Screens
    <2>7. newline(s).row = Len(all) - 1 /\ newline(s).col = Len(all[Len(all)]) /\ newline(s).col < cols
          /\ newline(s).cells = s.cells
      BY <1>0, <1>1, <1>3, <1>4, <2>1
    <2> QED BY <2>2, <2>4, <2>5, <2>6, <2>7 DEF Shows, Drawn, all
  <1> QED BY <1>5, <1>6

\* write_cp437 draws a glyph behind the last one of the last line.
LEMMA GlyphDrawn ==
  ASSUME NEW s, NEW ls, Shows(s, ls), NEW g \in Glyphs
  PROVE  Drawn([s EXCEPT !.cells[s.row][s.col] = Append(@, g), !.col = @ + 1],
               [ls EXCEPT ![Len(ls)] = Append(ls[Len(ls)], g)])
  <1> DEFINE n == Len(ls)
             w == Len(ls[n])
             row == s.cells[s.row]
             row2 == [row EXCEPT ![s.col] = Append(row[s.col], g)]
             cells2 == [s.cells EXCEPT ![s.row] = row2]
             s2 == [cells |-> cells2, row |-> s.row, col |-> s.col + 1]
             new == Append(ls[n], g)
             ls2 == [ls EXCEPT ![n] = new]
             R == [0 .. cols - 1 -> Seq(Glyphs)]
  <1>0. rows \in Nat \ {0} /\ cols \in Nat \ {0}
    BY ScreenSize
  <1>1. /\ s \in Screens /\ ls \in Seq(Seq(Glyphs)) /\ n \in 1 .. rows
        /\ s.row = n - 1 /\ s.col = w /\ s.col < cols
        /\ \A k \in 1 .. n : Len(ls[k]) <= cols
        /\ \A y \in 0 .. rows - 1, x \in 0 .. cols - 1 : ShowsCell(s.cells, ls, y, x)
    BY DEF Shows, Drawn, AreLines
  <1>2. /\ s.cells \in [0 .. rows - 1 -> R] /\ s.row \in 0 .. rows - 1 /\ s.col \in 0 .. cols - 1
    <2>1. s.cells \in [0 .. rows - 1 -> R] /\ s.row \in 0 .. rows - 1 /\ s.col \in 0 .. cols
      BY <1>1 DEF Screens
    <2>2. s.col \in 0 .. cols - 1
      BY <1>0, <1>1, <2>1
    <2> QED BY <2>1, <2>2
  <1>3. n \in 1 .. n /\ ls[n] \in Seq(Glyphs) /\ w \in Nat
    <2>1. n \in 1 .. n
      BY <1>1
    <2>2. ls[n] \in Seq(Glyphs)
      BY <1>1, <2>1, ElementOfSeq
    <2> QED BY <2>1, <2>2, LenProperties
  <1>4. /\ new \in Seq(Glyphs) /\ Len(new) = w + 1 /\ new[w + 1] = g
        /\ \A k \in 1 .. w : new[k] = ls[n][k]
    BY <1>3, AppendProperties
  <1>5. row[s.col] = <<>>
    <2>1. ShowsCell(s.cells, ls, s.row, s.col)
      BY <1>1, <1>2
    <2>2. s.row + 1 = n /\ ~ (s.col < Len(ls[s.row + 1]))
      BY <1>1, <1>3
    <2> QED BY <2>1, <2>2 DEF ShowsCell
  <1>6. Append(row[s.col], g) = <<g>>
    BY <1>5
  <1>7. row \in R
    BY <1>2
  <1>8. [s EXCEPT !.cells[s.row][s.col] = Append(@, g), !.col = @ + 1] = s2
    <2> DEFINE q == [s EXCEPT !.cells = cells2]
    <2>1. [s EXCEPT !.cells[s.row][s.col] = Append(@, g), !.col = @ + 1] = [q EXCEPT !.col = q.col + 1]
      BY Zenon
    <2> HIDE DEF cells2, row2
    <2>2. q = [cells |-> cells2, row |-> s.row, col |-> s.col]
      BY <1>1 DEF Screens
    <2> HIDE DEF q
    <2>3. [q EXCEPT !.col = q.col + 1] = s2
      BY <2>2
    <2> HIDE DEF s2
    <2> QED BY <2>1, <2>3, Zenon
  <1> HIDE DEF row2, R
  <1>9. row2 \in R /\ row2[s.col] = <<g>> /\ \A x \in 0 .. cols - 1 : x # s.col => row2[x] = row[x]
    <2>1. <<g>> \in Seq(Glyphs)
      OBVIOUS
    <2> QED BY <1>2, <1>6, <1>7, <2>1 DEF row2, R
  <1>10. /\ cells2 \in [0 .. rows - 1 -> R] /\ cells2[s.row] = row2
         /\ \A y \in 0 .. rows - 1 : y # s.row => cells2[y] = s.cells[y]
    BY <1>2, <1>9
  <1>11. /\ ls2 \in Seq(Seq(Glyphs)) /\ Len(ls2) = n /\ ls2[n] = new
         /\ \A k \in 1 .. n : k # n => ls2[k] = ls[k]
    BY <1>1, <1>3, <1>4, ExceptSeq
  <1>12. AreLines(ls2)
    <2>1. ASSUME NEW k \in 1 .. n PROVE Len(ls2[k]) <= cols
      <3>1. CASE k = n
        <4>1. Len(ls2[k]) = w + 1
          BY <1>4, <1>11, <3>1
        <4>2. w + 1 <= cols
          BY <1>0, <1>1, <1>3
        <4> QED BY <4>1, <4>2
      <3>2. CASE k # n
        BY <1>1, <1>11, <3>2
      <3> QED BY <3>1, <3>2
    <2> QED BY <1>1, <1>11, <2>1 DEF AreLines
  <1> HIDE DEF cells2, ls2, new
  <1>13. ASSUME NEW y \in 0 .. rows - 1, NEW x \in 0 .. cols - 1 PROVE ShowsCell(cells2, ls2, y, x)
    <2>0. ShowsCell(s.cells, ls, y, x)
      BY <1>1
    <2>1. CASE y # s.row
      <3>1. cells2[y] = s.cells[y]
        BY <1>10, <2>1
      <3>2. y < n => ls2[y + 1] = ls[y + 1]
        BY <1>1, <1>11, <2>1
      <3> QED BY <1>11, <2>0, <3>1, <3>2 DEF ShowsCell
    <2>2. CASE y = s.row
      <3>1. y < Len(ls2) /\ ls2[y + 1] = new /\ y < Len(ls) /\ y + 1 = n /\ cells2[y] = row2
        BY <1>1, <1>10, <1>11, <2>2
      <3>2. CASE x = s.col
        <4>1. x < Len(new) /\ new[x + 1] = g
          BY <1>1, <1>3, <1>4, <3>2
        <4> QED BY <1>9, <3>1, <3>2, <4>1 DEF ShowsCell
      <3>3. CASE x # s.col
        <4>1. row2[x] = row[x]
          BY <1>9, <3>3
        <4>2. x < Len(new) <=> x < w
          BY <1>1, <1>3, <1>4, <3>3
        <4>3. x < w => new[x + 1] = ls[n][x + 1]
          BY <1>3, <1>4
        <4> QED BY <2>0, <2>2, <3>1, <4>1, <4>2, <4>3 DEF ShowsCell
      <3> QED BY <3>2, <3>3
    <2> QED BY <2>1, <2>2
  <1>14. s2 \in Screens
    <2>1. s.col + 1 \in 0 .. cols
      BY <1>0, <1>2
    <2>2. cells2 \in [0 .. rows - 1 -> [0 .. cols - 1 -> Seq(Glyphs)]]
      BY <1>10 DEF R
    <2> QED BY <1>2, <2>1, <2>2 DEF Screens
  <1>15. s2.row = Len(ls2) - 1 /\ s2.col = Len(ls2[Len(ls2)]) /\ s2.cells = cells2
    BY <1>1, <1>4, <1>11
  <1> HIDE DEF s2
  <1>16. Drawn(s2, ls2)
    BY <1>12, <1>13, <1>14, <1>15 DEF Drawn
  <1> QED BY <1>8, <1>16, Zenon DEF ls2, new

\* One byte, on the screen and in the text.
LEMMA ByteShows ==
  ASSUME NEW s, NEW ls, Shows(s, ls), NEW byte
  PROVE  Shows(WriteByte(s, byte), TypeByte(ls, byte))
  <1> DEFINE g == Glyph(byte)
             typed == [ls EXCEPT ![Len(ls)] = Append(ls[Len(ls)], g)]
             drawn == [s EXCEPT !.cells[s.row][s.col] = Append(@, g), !.col = @ + 1]
  <1>0. Drawn(s, ls) /\ rows \in Nat \ {0} /\ cols \in Nat \ {0}
    BY ScreenSize DEF Shows
  <1>1. /\ ls \in Seq(Seq(Glyphs)) /\ Len(ls) \in 1 .. rows
        /\ s.col = Len(ls[Len(ls)]) /\ s.col < cols
    BY DEF Shows, Drawn, AreLines
  <1>2. Kept(ls) = ls
    BY <1>0, <1>1 DEF Kept
  <1>3. CASE byte = "nl"
    <2>1. WriteByte(s, byte) = newline(s) /\ TypeByte(ls, byte) = Kept(Append(ls, <<>>))
      BY <1>3 DEF WriteByte, TypeByte, Kept
    <2> QED BY <1>0, <2>1, NewlineShows
  <1>4. CASE byte = "cont"
    <2>1. WriteByte(s, byte) = s /\ TypeByte(ls, byte) = Kept(ls)
      BY <1>4 DEF WriteByte, TypeByte, Kept
    <2> QED BY <1>2, <2>1
  <1>5. CASE byte # "nl" /\ byte # "cont"
    <2>0. g \in Glyphs
      BY DEF Glyph, Glyphs
    <2>1. Drawn(drawn, typed)
      BY <2>0, GlyphDrawn
    <2>2. WriteByte(s, byte) = IF drawn.col = cols THEN newline(drawn) ELSE drawn
      BY <1>5, Zenon DEF WriteByte, write_cp437
    <2>3. TypeByte(ls, byte) = Kept(IF Len(ls[Len(ls)]) + 1 = cols THEN Append(typed, <<>>) ELSE typed)
      BY <1>5 DEF TypeByte, Kept
    <2>4. Len(typed) = Len(ls) /\ typed[Len(ls)] = Append(ls[Len(ls)], g)
          /\ Len(Append(ls[Len(ls)], g)) = Len(ls[Len(ls)]) + 1
      <3>1. Len(ls) \in 1 .. Len(ls)
        BY <1>1
      <3>2. ls[Len(ls)] \in Seq(Glyphs)
        BY <1>1, <3>1, ElementOfSeq
      <3>3. Append(ls[Len(ls)], g) \in Seq(Glyphs) /\ Len(Append(ls[Len(ls)], g)) = Len(ls[Len(ls)]) + 1
        BY <2>0, <3>2, AppendProperties
      <3> QED BY <1>1, <3>1, <3>3, ExceptSeq
    <2> HIDE DEF drawn, typed
    <2>5. drawn.col = Len(ls[Len(ls)]) + 1 /\ drawn.col \in 0 .. cols
      BY <2>1, <2>4 DEF Drawn, Screens
    <2>6. CASE drawn.col = cols
      BY <2>1, <2>2, <2>3, <2>5, <2>6, NewlineShows
    <2>7. CASE drawn.col # cols
      <3>1. Kept(typed) = typed
        BY <1>0, <1>1, <2>4 DEF Kept
      <3>2. Shows(drawn, typed)
        BY <1>0, <2>1, <2>5, <2>7 DEF Shows
      <3> QED BY <2>2, <2>3, <2>5, <2>7, <3>1, <3>2
    <2> QED BY <2>6, <2>7
  <1> QED BY <1>3, <1>4, <1>5

\* A string, byte by byte.
LEMMA StringShows ==
  ASSUME NEW s, NEW ls, Shows(s, ls), NEW S, NEW str \in Seq(S)
  PROVE  Shows(write_str(s, str), Typed(ls, str))
  <1>1. PICK f : /\ f[0] = s /\ f[Len(str)] = write_str(s, str)
                 /\ \A i \in 1 .. Len(str) : f[i] = WriteByte(f[i - 1], str[i])
    BY WriteStrSteps
  <1>2. PICK h : /\ h[0] = ls /\ h[Len(str)] = Typed(ls, str)
                 /\ \A i \in 1 .. Len(str) : h[i] = TypeByte(h[i - 1], str[i])
    BY TypedSteps
  <1> DEFINE K == {k \in Nat : k <= Len(str) => Shows(f[k], h[k])}
  <1>3. 0 \in K
    BY <1>1, <1>2
  <1>4. ASSUME NEW k \in Nat, k \in K PROVE k + 1 \in K
    <2>1. SUFFICES ASSUME k + 1 <= Len(str) PROVE Shows(f[k + 1], h[k + 1])
      OBVIOUS
    <2>2. Len(str) \in Nat /\ k + 1 \in 1 .. Len(str) /\ (k + 1) - 1 = k /\ k <= Len(str)
      BY <2>1
    <2>3. Shows(f[k], h[k])
      BY <1>4, <2>2
    <2>4. f[k + 1] = WriteByte(f[k], str[k + 1]) /\ h[k + 1] = TypeByte(h[k], str[k + 1])
      BY <1>1, <1>2, <2>2
    <2> QED BY <2>3, <2>4, ByteShows
  <1>5. \A k \in Nat : k \in K => k + 1 \in K
    BY <1>4
  <1>6. \A k \in K : k <= Len(str) => Shows(f[k], h[k])
    OBVIOUS
  <1> HIDE DEF K
  <1>7. Nat \subseteq K
    BY <1>3, <1>5, SetInduction
  <1>8. Len(str) \in Nat /\ Len(str) <= Len(str)
    OBVIOUS
  <1> QED BY <1>1, <1>2, <1>6, <1>7, <1>8

-----------------------------------------------------------------------------
(* The text that is written.                                               *)

\* A prefix of a string without errors ends inside it.
LEMMA ValidUpTo ==
  ASSUME NEW s \in Seq(Bytes)
  PROVE  valid_up_to(s) \in 0 .. Len(s)
  <1>1. Invalid(s) \subseteq 1 .. Len(s) /\ Len(s) \in Nat
    BY DEF Invalid
  <1>2. CASE Invalid(s) = {}
    BY <1>1, <1>2 DEF valid_up_to
  <1>3. CASE Invalid(s) # {}
    <2>1. Invalid(s) \subseteq Nat
      BY <1>1
    <2>2. \E i \in Invalid(s) : \A j \in Invalid(s) : i <= j
      BY <1>3, <2>1, LeastNumber
    <2> DEFINE i == CHOOSE i \in Invalid(s) : \A j \in Invalid(s) : i <= j
    <2>3. i \in Invalid(s)
      BY <2>2
    <2>4. valid_up_to(s) = i - 1
      BY <1>3 DEF valid_up_to
    <2> HIDE DEF i
    <2> QED BY <1>1, <2>3, <2>4
  <1> QED BY <1>2, <1>3

Writing == [buf : Seq(Bytes), idx : Nat, first : BOOLEAN]

ConsoleInv == Shows(screen, lines) /\ out \in Writing

\* console_init shows no text.
LEMMA ConsoleInitShows ==
  ASSUME ConsoleInit
  PROVE  ConsoleInv
  <1> DEFINE ls == << <<>> >>
             cells == [y \in 0 .. rows - 1 |-> BlankRow]
  <1>0. rows \in Nat \ {0} /\ cols \in Nat \ {0}
    BY ScreenSize
  <1>1. screen = [cells |-> cells, row |-> 0, col |-> 0] /\ lines = ls /\ out = NoWrite
    BY DEF ConsoleInit, Blank
  <1>2. ls \in Seq(Seq(Glyphs)) /\ Len(ls) = 1 /\ ls[1] = <<>> /\ Len(ls[1]) = 0
    OBVIOUS
  <1>3. AreLines(ls)
    BY <1>0, <1>2 DEF AreLines
  <1>4. ASSUME NEW y \in 0 .. rows - 1, NEW x \in 0 .. cols - 1 PROVE ShowsCell(cells, ls, y, x)
    <2>1. cells[y][x] = <<>>
      BY DEF BlankRow
    <2>2. ~ (y < Len(ls) /\ x < Len(ls[y + 1]))
      <3>1. y < Len(ls) => y = 0
        BY <1>0, <1>2
      <3>2. y = 0 => Len(ls[y + 1]) = 0
        BY <1>2
      <3> QED BY <1>0, <3>1, <3>2
    <2> HIDE DEF cells, ls
    <2> QED BY <2>1, <2>2 DEF ShowsCell
  <1>5. cells \in [0 .. rows - 1 -> [0 .. cols - 1 -> Seq(Glyphs)]]
    BY DEF BlankRow
  <1> HIDE DEF cells, ls
  <1>6. screen \in Screens
    BY <1>0, <1>1, <1>5 DEF Screens
  <1>7. screen.row = Len(ls) - 1 /\ screen.col = Len(ls[Len(ls)]) /\ screen.col < cols /\ screen.cells = cells
    BY <1>0, <1>1, <1>2
  <1>8. out \in Writing
    BY <1>1 DEF Writing, NoWrite
  <1> QED BY <1>1, <1>3, <1>4, <1>6, <1>7, <1>8 DEF ConsoleInv, Shows, Drawn

\* A part of a buffer, and the "?" before it.
LEMMA PartShows ==
  ASSUME ConsoleInv, WritePart
  PROVE  ConsoleInv'
  <1> DEFINE v == valid_up_to(Rest)
             mark == IF out.first THEN <<>> ELSE <<"bad">>
             part == SubSeq(Rest, 1, v)
  <1>1. Shows(screen, lines) /\ out.buf \in Seq(Bytes) /\ out.idx \in Nat /\ out.first \in BOOLEAN
    BY DEF ConsoleInv, Writing
  <1>2. Rest \in Seq(Bytes) /\ Len(Rest) \in Nat
    <2>1. Len(out.buf) \in Nat /\ out.idx + 1 \in Nat /\ out.idx + 1 >= 1
      BY <1>1
    <2>2. \A k \in (out.idx + 1) .. Len(out.buf) : k \in 1 .. Len(out.buf)
      BY <2>1
    <2>3. SubSeq(out.buf, out.idx + 1, Len(out.buf)) \in Seq(Bytes)
      BY <1>1, <2>1, <2>2, SubSeqProperties
    <2> QED BY <2>3 DEF Rest
  <1>3. v \in 0 .. Len(Rest)
    BY <1>2, ValidUpTo
  <1>4. part \in Seq(Bytes)
    <2>1. 1 \in 1 .. Len(Rest) + 1 /\ v \in 0 .. Len(Rest)
      BY <1>2, <1>3
    <2> HIDE DEF v
    <2> QED BY <1>2, <2>1, SubSeqProperties
  <1>5. mark \in Seq(Bytes)
    <2>1. "bad" \in Bytes
      BY DEF Bytes
    <2>2. <<>> \in Seq(Bytes) /\ <<"bad">> \in Seq(Bytes)
      BY <2>1
    <2> QED BY <2>2
  <1> HIDE DEF v, part, mark
  <1>6. mark \o part \in Seq(Bytes)
    BY <1>4, <1>5, ConcatProperties
  <1>7. screen' = write_str(screen, mark \o part) /\ lines' = Typed(lines, mark \o part)
    BY DEF WritePart, Show, v, part, mark
  <1>8. Shows(screen', lines')
    BY <1>1, <1>6, <1>7, StringShows
  <1>9. out' \in Writing
    <2>1. ErrorLen(Rest) \in Nat
      BY DEF ErrorLen
    <2> DEFINE q == [out EXCEPT !.idx = out.idx + v + ErrorLen(Rest)]
    <2>2. out' = [q EXCEPT !.first = FALSE]
      BY DEF WritePart, v
    <2>3. out.idx + v + ErrorLen(Rest) \in Nat
      BY <1>1, <1>2, <1>3, <2>1
    <2>4. out \in Writing
      BY DEF ConsoleInv
    <2>5. q \in Writing
      BY <2>3, <2>4 DEF Writing
    <2> HIDE DEF q
    <2> QED BY <2>2, <2>5 DEF Writing
  <1> QED BY <1>8, <1>9 DEF ConsoleInv

\* Every step of the kernel, of which most leave the console alone.
LEMMA ConsoleStep ==
  ASSUME LocksInv, ConsoleInv, [Next]_vars
  PROVE  ConsoleInv'
  <1>1. CASE Printing
    <2>1. CASE At("print") /\ Show(Message) /\ UNCHANGED out
      <3>1. Shows(screen', lines')
        BY <2>1, StringShows, TextAssumption DEF ConsoleInv, Show
      <3> QED BY <2>1, <3>1 DEF ConsoleInv
    <2>2. CASE At("write") /\ out' = [buf |-> Arg, idx |-> 0, first |-> TRUE] /\ UNCHANGED <<screen, lines>>
      <3>1. /\ stack[1].code \in Seq(Steps) /\ stack[1].code # <<>> /\ stack[1].code[1].op = "write"
        BY <2>2, AtFacts
      <3>2. stack[1].code[1] \in Steps
        BY <3>1, EmptySeq
      <3>3. Arg \in Seq(Bytes)
        BY <3>1, <3>2, TextAssumption DEF Steps, Arg
      <3>4. out' \in Writing
        BY <2>2, <3>3 DEF Writing
      <3> QED BY <2>2, <3>4 DEF ConsoleInv
    <2>3. CASE WritePart
      BY <2>3, PartShows
    <2>4. CASE WriteDone
      <3>1. NoWrite \in Writing
        BY DEF NoWrite, Writing
      <3> QED BY <2>4, <3>1 DEF WriteDone, ConsoleInv
    <2> QED BY <1>1, <2>1, <2>2, <2>3, <2>4 DEF Printing
  <1>2. CASE UNCHANGED consoleVars
    BY <1>2 DEF consoleVars, ConsoleInv
  <1>3. Printing \/ UNCHANGED consoleVars
    BY DEF Next, vars, Kernel, SaveFlag, SetFlag, Take, Clear, Choose, Push, Pop, Wait, Eoi, Iret,
       Raise, PitInterrupt, KeyboardInterrupt, Deliver, Syscall, Halt
  <1> QED BY <1>1, <1>2, <1>3

\* The screen shows the end of the text that println and programs have written, for every
\* size of the display and every text, whatever was wrapped, scrolled or not UTF-8.
THEOREM TextIsShown == Spec => []ScreenShowsText
  <1>1. Init => ConsoleInv
    BY ConsoleInitShows DEF Init
  <1>2. LocksInv /\ ConsoleInv /\ [Next]_vars => ConsoleInv'
    BY ConsoleStep
  <1>3. ConsoleInv => ScreenShowsText
    BY DEF ConsoleInv, Shows, Drawn, ShowsCell, ScreenShowsText
  <1> QED BY <1>1, <1>2, <1>3, PathsStaySafe, PTL DEF Spec
=============================================================================
