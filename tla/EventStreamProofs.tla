--------------------------- MODULE EventStreamProofs ---------------------------
(***************************************************************************)
(* Proofs about the two ends of the stream of a thread's events: the       *)
(* adapter that makes them of what the pi process says (PiTurns), and the  *)
(* subscription that sends them to a client (DomainEventSubscription).     *)
(* The two modules share no variable; the proofs are for any number of     *)
(* turns, lines, faults and events.                                        *)
(***************************************************************************)
EXTENDS PiTurns, DomainEventSubscription, FiniteSetTheorems, WellFoundedInduction, SequenceTheorems,
        TLAPS

-----------------------------------------------------------------------------
(* The two pipes.                                                            *)

\* A writer adds at the end of a pipe.
LEMMA Written ==
    ASSUME NEW S, NEW q \in Seq(S), NEW x \in S
    PROVE  /\ Append(q, x) \in Seq(S)
           /\ Len(q) \in Nat /\ Len(Append(q, x)) = Len(q) + 1
           /\ \A i \in 1 .. Len(q) : Append(q, x)[i] = q[i]
           /\ Append(q, x)[Len(q) + 1] = x
           /\ Range(Append(q, x)) = Range(q) \cup {x}
<1>1. /\ Append(q, x) \in Seq(S)
      /\ DOMAIN Append(q, x) = 1 .. (Len(q) + 1)
      /\ \A i \in 1 .. Len(q) : Append(q, x)[i] = q[i]
      /\ Append(q, x)[Len(q) + 1] = x
      /\ DOMAIN q = 1 .. Len(q)
      /\ Len(q) \in Nat /\ Len(Append(q, x)) = Len(q) + 1
  OBVIOUS
<1>2. Range(Append(q, x)) = Range(q) \cup {x}
  BY <1>1 DEF Range
<1> QED BY <1>1, <1>2

\* A reader takes from the front.
LEMMA Taken ==
    ASSUME NEW S, NEW q \in Seq(S), q # <<>>
    PROVE  /\ Tail(q) \in Seq(S) /\ Head(q) \in S /\ Head(q) = q[1] /\ Head(q) \in Range(q)
           /\ Len(q) \in Nat \ {0} /\ Len(Tail(q)) = Len(q) - 1
           /\ \A i \in 1 .. Len(Tail(q)) : Tail(q)[i] = q[i + 1] /\ i + 1 \in 1 .. Len(q)
           /\ Range(Tail(q)) \subseteq Range(q)
<1>1. /\ Tail(q) \in Seq(S)
      /\ Len(q) \in Nat \ {0}
      /\ Len(Tail(q)) = Len(q) - 1
      /\ DOMAIN Tail(q) = 1 .. (Len(q) - 1)
      /\ \A i \in 1 .. (Len(q) - 1) : Tail(q)[i] = q[i + 1]
      /\ Head(q) = q[1]
      /\ DOMAIN q = 1 .. Len(q)
      /\ Head(q) \in S
  OBVIOUS
<1>2. \A i \in 1 .. (Len(q) - 1) : i + 1 \in 1 .. Len(q)
  BY <1>1
<1>3. 1 \in DOMAIN q
  BY <1>1
<1> QED BY <1>1, <1>2, <1>3 DEF Range

\* What is in a pipe is of its kind.
LEMMA InPipe ==
    ASSUME NEW S, NEW q \in Seq(S)
    PROVE  /\ Len(q) \in Nat /\ DOMAIN q = 1 .. Len(q)
           /\ \A i \in 1 .. Len(q) : q[i] \in S /\ q[i] \in Range(q)
           /\ \A x \in Range(q) : x \in S /\ \E i \in 1 .. Len(q) : q[i] = x
<1>1. Len(q) \in Nat /\ DOMAIN q = 1 .. Len(q) /\ \A i \in 1 .. Len(q) : q[i] \in S
  OBVIOUS
<1> QED BY <1>1 DEF Range

\* The commands that lines answer.
LEMMA AskedOf ==
    ASSUME NEW q \in Seq(Lines)
    PROVE  /\ Asked(q) \in Seq(Commands) /\ Len(Asked(q)) = Len(q)
           /\ \A i \in 1 .. Len(q) : Asked(q)[i] = q[i].to
           /\ \A x \in Range(Asked(q)) : \E i \in 1 .. Len(q) : x = q[i].to
           /\ \A line \in Range(q) : line.to \in Range(Asked(q))
<1>1. Len(q) \in Nat /\ \A i \in 1 .. Len(q) : q[i] \in Lines
  OBVIOUS
<1>2. \A i \in 1 .. Len(q) : q[i].to \in Commands
  BY <1>1 DEF Lines
<1> DEFINE n == Len(q)
<1> HIDE DEF n
<1>3. Asked(q) = [i \in 1 .. n |-> q[i].to]
  BY DEF Asked, n
<1>4. Asked(q) \in [1 .. n -> Commands] /\ n \in Nat
  BY <1>1, <1>2, <1>3 DEF n
<1>5. Asked(q) \in Seq(Commands) /\ Len(Asked(q)) = n /\ DOMAIN Asked(q) = 1 .. n
  BY <1>4
<1>6. \A i \in 1 .. n : Asked(q)[i] = q[i].to
  BY <1>3
<1>7. \A line \in Range(q) : \E i \in 1 .. n : line = q[i]
  BY InPipe DEF n
<1>8. \A x \in Range(Asked(q)) : \E i \in 1 .. n : x = q[i].to
  BY <1>5, <1>6 DEF Range
<1>9. \A line \in Range(q) : line.to \in Range(Asked(q))
  <2> SUFFICES ASSUME NEW line \in Range(q) PROVE line.to \in Range(Asked(q))
    OBVIOUS
  <2>1. PICK i \in 1 .. n : line = q[i]
    BY <1>7
  <2> QED BY <2>1, <1>5, <1>6 DEF Range
<1> QED BY <1>5, <1>6, <1>8, <1>9 DEF n

-----------------------------------------------------------------------------
(* Callers and the commands they wait for.                                   *)

NothingBy(c, commands, lines) ==
    \A command \in Range(commands) \cup Range(Asked(lines)) : command.by # c

\* A caller that waits for nothing, or for the exit, has no command under way.
LEMMA NothingIsAsked ==
    ASSUME NEW i, NEW o, NEW calls, Awaiting(i, o, calls),
           NEW c \in Callers, calls[c] \in {"none", "close"},
           i \in Seq(Commands), o \in Seq(Lines)
    PROVE  NothingBy(c, i, o)
<1> SUFFICES ASSUME NEW x \in Range(i) \cup Range(Asked(o)), x.by = c PROVE FALSE
  BY DEF NothingBy
<1>1. Sound(x) /\ Awaited(x, calls)
  BY DEF Awaiting
<1>2. x \in Commands
  BY InPipe, AskedOf
<1>3. x.by # "none"
  BY DEF Callers
<1> QED BY <1>1, <1>2, <1>3 DEF Sound, Awaited, Commands

\* A caller with no command under way waits for something else.
LEMMA WaitsAnew ==
    ASSUME NEW i, NEW o, NEW calls \in [Callers -> Answers], Awaiting(i, o, calls),
           NEW c \in Callers, NothingBy(c, i, o), NEW a,
           c = "stream" => a \in {"none", "prompt", "steer"}
    PROVE  Awaiting(i, o, [calls EXCEPT ![c] = a])
<1> DEFINE new == [calls EXCEPT ![c] = a]
<1>1. \A x \in Range(i) \cup Range(Asked(o)) : Sound(x) /\ Awaited(x, new)
  <2> SUFFICES ASSUME NEW x \in Range(i) \cup Range(Asked(o)) PROVE Sound(x) /\ Awaited(x, new)
    OBVIOUS
  <2>1. Sound(x) /\ Awaited(x, calls) /\ x.by # c
    BY DEF Awaiting, NothingBy
  <2> QED BY <2>1 DEF Awaited
<1>2. new["stream"] \in {"none", "prompt", "steer"}
  BY DEF Awaiting, Callers
<1> QED BY <1>1, <1>2 DEF Awaiting

\* A command is written for whom nothing is under way.
LEMMA Asks ==
    ASSUME NEW i \in Seq(Commands), NEW o, NEW calls, Awaiting(i, o, calls),
           NEW x \in Commands, Sound(x), Awaited(x, calls),
           x.by \in Callers => NothingBy(x.by, i, o)
    PROVE  Awaiting(Append(i, x), o, calls)
<1> DEFINE new == Append(i, x)
<1>1. /\ new \in Seq(Commands) /\ Len(i) \in Nat /\ Len(new) = Len(i) + 1
      /\ \A k \in 1 .. Len(i) : new[k] = i[k] /\ i[k] \in Range(i)
      /\ new[Len(i) + 1] = x
      /\ Range(new) = Range(i) \cup {x}
  BY Written, InPipe
<1> HIDE DEF new
<1>2. \A y \in Range(new) \cup Range(Asked(o)) : Sound(y) /\ Awaited(y, calls)
  BY <1>1 DEF Awaiting
<1>3. OneOfEach(new)
  <2> SUFFICES ASSUME NEW k \in 1 .. Len(new), NEW l \in 1 .. Len(new),
                      new[k].by \in Callers, new[k].by = new[l].by
               PROVE  k = l
    BY DEF OneOfEach
  <2>1. CASE k \in 1 .. Len(i) /\ l \in 1 .. Len(i)
    BY <1>1, <2>1 DEF Awaiting, OneOfEach
  <2>2. CASE k \in 1 .. Len(i) /\ l = Len(i) + 1
    BY <1>1, <2>2 DEF NothingBy
  <2>3. CASE k = Len(i) + 1 /\ l \in 1 .. Len(i)
    BY <1>1, <2>3 DEF NothingBy
  <2>4. CASE k = Len(i) + 1 /\ l = Len(i) + 1
    BY <2>4
  <2> QED BY <1>1, <2>1, <2>2, <2>3, <2>4
<1>4. \A y \in Range(new), z \in Range(Asked(o)) : y.by \in Callers => y.by # z.by
  BY <1>1 DEF Awaiting, NothingBy
<1> QED BY <1>2, <1>3, <1>4 DEF Awaiting, new

\* An answer is read: it was the only one its caller waits for.
LEMMA Reads ==
    ASSUME NEW i, NEW o \in Seq(Lines), o # <<>>, NEW calls, Awaiting(i, o, calls)
    PROVE  /\ Awaiting(i, Tail(o), calls)
           /\ Sound(Head(o).to) /\ Awaited(Head(o).to, calls)
           /\ Head(o).to.by \in Callers => NothingBy(Head(o).to.by, i, Tail(o))
<1> DEFINE new == Tail(o)
           a == Asked(o)
           b == Asked(new)
<1>1. /\ new \in Seq(Lines) /\ Head(o) = o[1] /\ Head(o) \in Range(o)
      /\ Len(o) \in Nat \ {0} /\ Len(new) = Len(o) - 1
      /\ \A k \in 1 .. Len(new) : new[k] = o[k + 1] /\ k + 1 \in 1 .. Len(o)
  BY Taken
<1> HIDE DEF new
<1>2. /\ Len(a) = Len(o) /\ Len(b) = Len(new)
      /\ a \in Seq(Commands) /\ b \in Seq(Commands)
      /\ \A k \in 1 .. Len(o) : a[k] = o[k].to
      /\ \A k \in 1 .. Len(new) : b[k] = new[k].to
  BY <1>1, AskedOf
<1> HIDE DEF a, b
<1>3. /\ \A k \in 1 .. Len(b) : b[k] = a[k + 1] /\ k + 1 \in 1 .. Len(a)
      /\ 1 \in 1 .. Len(a) /\ Head(o).to = a[1]
  <2>1. 1 \in 1 .. Len(o)
    BY <1>1
  <2>2. ASSUME NEW k \in 1 .. Len(new) PROVE b[k] = a[k + 1] /\ k + 1 \in 1 .. Len(o)
    <3>1. k + 1 \in 1 .. Len(o) /\ new[k] = o[k + 1]
      BY <1>1
    <3>2. b[k] = new[k].to /\ a[k + 1] = o[k + 1].to
      BY <1>2, <3>1, Zenon
    <3> QED BY <3>1, <3>2
  <2>3. Head(o).to = a[1]
    BY <1>1, <1>2, <2>1
  <2> QED BY <1>2, <2>1, <2>2, <2>3
<1>4. Range(b) \subseteq Range(a) /\ Head(o).to \in Range(a)
  <2>1. ASSUME NEW y \in Range(b) PROVE y \in Range(a)
    <3>1. PICK k \in 1 .. Len(b) : y = b[k]
      BY <1>2, InPipe
    <3>2. k + 1 \in 1 .. Len(a) /\ y = a[k + 1]
      BY <1>3, <3>1
    <3> QED BY <1>2, <3>2, InPipe
  <2>2. a[1] \in Range(a)
    BY <1>2, <1>3, InPipe
  <2> QED BY <1>3, <2>1, <2>2
<1>5. OneOfEach(b)
  <2>1. OneOfEach(a)
    BY DEF Awaiting, a
  <2> SUFFICES ASSUME NEW k \in 1 .. Len(b), NEW l \in 1 .. Len(b),
                      b[k].by \in Callers, b[k].by = b[l].by
               PROVE  k = l
    BY DEF OneOfEach
  <2>2. k + 1 = l + 1
    BY <1>3, <2>1 DEF OneOfEach
  <2> QED BY <2>2
<1>6. Awaiting(i, new, calls)
  BY <1>4, <1>5 DEF Awaiting, a, b
<1>7. ASSUME Head(o).to.by \in Callers PROVE NothingBy(Head(o).to.by, i, new)
  <2>1. \A y \in Range(i) : y.by # Head(o).to.by
    BY <1>4, <1>7 DEF Awaiting, a
  <2>2. ASSUME NEW y \in Range(b), y.by = Head(o).to.by PROVE FALSE
    <3>1. PICK k \in 1 .. Len(b) : y = b[k]
      BY <1>2, InPipe
    <3>2. k + 1 \in 1 .. Len(a) /\ y = a[k + 1] /\ k + 1 # 1
      BY <1>3, <3>1
    <3>3. OneOfEach(a)
      BY DEF Awaiting, a
    <3>4. \A l \in 1 .. Len(a) : a[1].by \in Callers /\ a[1].by = a[l].by => 1 = l
      BY <1>3, <3>3 DEF OneOfEach
    <3> QED BY <1>3, <1>7, <2>2, <3>2, <3>4
  <2> QED BY <2>1, <2>2 DEF NothingBy, b
<1>8. Sound(Head(o).to) /\ Awaited(Head(o).to, calls)
  BY <1>4 DEF Awaiting, a
<1> QED BY <1>6, <1>7, <1>8 DEF new

\* A command is given up: nobody waits for its answer.
LEMMA GivesUp ==
    ASSUME NEW i \in Seq(Commands), NEW o, NEW calls, Awaiting(i, o, calls),
           NEW k \in 1 .. Len(i)
    PROVE  LET new == [i EXCEPT ![k].by = "none"]
           IN  /\ new \in Seq(Commands) /\ Len(new) = Len(i)
               /\ \A l \in 1 .. Len(i) : l # k => new[l] = i[l]
               /\ new[k] = [i[k] EXCEPT !.by = "none"]
               /\ \A x \in Range(new) : x \in Range(i) \/ x = [i[k] EXCEPT !.by = "none"]
               /\ Awaiting(new, o, calls)
               /\ i[k].by \in Callers => NothingBy(i[k].by, new, o)
<1> DEFINE new == [i EXCEPT ![k].by = "none"]
           y == [i[k] EXCEPT !.by = "none"]
<1>1. /\ Len(i) \in Nat /\ DOMAIN i = 1 .. Len(i)
      /\ \A l \in 1 .. Len(i) : i[l] \in Commands /\ i[l] \in Range(i)
  BY InPipe
<1>2. /\ y \in Commands /\ y.by = "none" /\ y.kind = i[k].kind /\ y.turn = i[k].turn
      /\ y.state = i[k].state
  BY <1>1 DEF Commands
<1>3. /\ new \in Seq(Commands) /\ Len(new) = Len(i)
      /\ \A l \in 1 .. Len(i) : l # k => new[l] = i[l]
      /\ new[k] = y
  <2> DEFINE n == Len(i)
  <2>1. n \in Nat /\ i \in [1 .. n -> Commands] /\ k \in 1 .. n
    BY <1>1
  <2>2. new = [i EXCEPT ![k] = y]
    OBVIOUS
  <2> HIDE DEF new, y, n
  <2>3. /\ new \in [1 .. n -> Commands]
        /\ \A l \in 1 .. n : l # k => new[l] = i[l]
        /\ new[k] = y
    BY <1>2, <2>1, <2>2
  <2>4. new \in Seq(Commands) /\ Len(new) = n
    BY <2>1, <2>3
  <2> QED BY <2>3, <2>4 DEF n
<1> HIDE DEF new, y
<1>4. \A x \in Range(new) : x \in Range(i) \/ x = y
  <2> SUFFICES ASSUME NEW x \in Range(new) PROVE x \in Range(i) \/ x = y
    OBVIOUS
  <2>1. PICK l \in 1 .. Len(i) : x = new[l]
    BY <1>3, InPipe
  <2> QED BY <1>1, <1>3, <2>1
<1>5. Sound(y) /\ Awaited(y, calls)
  <2>1. Sound(i[k])
    BY <1>1 DEF Awaiting
  <2> QED BY <1>2, <2>1 DEF Sound, Awaited, Callers
<1>6. OneOfEach(new)
  <2> SUFFICES ASSUME NEW l \in 1 .. Len(i), NEW m \in 1 .. Len(i),
                      new[l].by \in Callers, new[l].by = new[m].by
               PROVE  l = m
    BY <1>3 DEF OneOfEach
  <2>1. l # k /\ m # k
    BY <1>2, <1>3 DEF Callers
  <2> QED BY <1>3, <2>1 DEF Awaiting, OneOfEach
<1>7. Awaiting(new, o, calls)
  <2>1. \A x \in Range(new) \cup Range(Asked(o)) : Sound(x) /\ Awaited(x, calls)
    BY <1>4, <1>5 DEF Awaiting
  <2>2. \A x \in Range(new), z \in Range(Asked(o)) : x.by \in Callers => x.by # z.by
    <3>1. y.by \notin Callers
      BY <1>2 DEF Callers
    <3> QED BY <1>4, <3>1 DEF Awaiting
  <2> QED BY <1>6, <2>1, <2>2 DEF Awaiting
<1>8. ASSUME i[k].by \in Callers PROVE NothingBy(i[k].by, new, o)
  <2>1. \A z \in Range(Asked(o)) : z.by # i[k].by
    BY <1>1, <1>8 DEF Awaiting
  <2>2. ASSUME NEW x \in Range(new), x.by = i[k].by PROVE FALSE
    <3>1. PICK l \in 1 .. Len(i) : x = new[l]
      BY <1>3, InPipe
    <3>2. l # k
      BY <1>2, <1>3, <1>8, <2>2, <3>1 DEF Callers
    <3>3. i[k].by = i[l].by /\ OneOfEach(i)
      BY <1>3, <2>2, <3>1, <3>2 DEF Awaiting
    <3> QED BY <1>8, <3>2, <3>3 DEF OneOfEach
  <2> QED BY <2>1, <2>2 DEF NothingBy
<1> QED BY <1>3, <1>4, <1>7, <1>8 DEF new, y

-----------------------------------------------------------------------------
(* What the process says.                                                    *)

\* A line that answers nothing.
Remark(line, run) ==
    /\ line \in Lines /\ line.kind # "answer" /\ line.to = NoCommand
    /\ line.turn = run /\ run # None
    /\ line.late <=> run \in worked

\* After the lines o come remarks on a run, up to the n-th line.
Remarks(o, new, n, run) ==
    /\ new \in Seq(Lines) /\ n \in Nat /\ Len(o) <= n /\ n <= Len(new)
    /\ \A k \in 1 .. Len(o) : new[k] = o[k]
    /\ \A k \in 1 .. n : k > Len(o) => Remark(new[k], run)

LEMMA NoCommandFields ==
    /\ NoCommand \in Commands /\ NoCommand.by = "none" /\ NoCommand.kind = "none"
    /\ NoCommand.turn = None
    /\ Sound(NoCommand)
    /\ \A calls : Awaited(NoCommand, calls)
<1>1. /\ NoCommand \in Commands /\ NoCommand.by = "none" /\ NoCommand.kind = "none"
      /\ NoCommand.turn = None
  BY DEF NoCommand, Command, Commands, None
<1>2. Sound(NoCommand) /\ \A calls : Awaited(NoCommand, calls)
  BY <1>1 DEF Sound, Awaited, Callers
<1> QED BY <1>1, <1>2

LEMMA AnswerFields ==
    ASSUME NEW command \in Commands, NEW ok \in BOOLEAN
    PROVE  /\ Answer(command, ok) \in Lines /\ Answer(command, ok).kind = "answer"
           /\ Answer(command, ok).to = command /\ Answer(command, ok).ok = ok
           /\ Answer(command, ok).turn = None
BY DEF Answer, Lines

LEMMA LineFields ==
    ASSUME NEW run \in Turns, NEW kind \in Output \cup {"terminal", "queued", "drained"}
    PROVE  Remark(Line(kind, run), run) /\ Line(kind, run).kind = kind
<1> DEFINE late == run \in worked
           line == [kind |-> kind, turn |-> run, to |-> NoCommand, ok |-> TRUE, late |-> late]
<1>1. run # None
  BY DEF Turns, None
<1>2. late \in BOOLEAN /\ Line(kind, run) = line /\ (late <=> run \in worked)
  BY DEF Line
<1> HIDE DEF late
<1>3. /\ line \in Lines /\ line.kind = kind /\ line.kind # "answer" /\ line.to = NoCommand
      /\ line.turn = run /\ line.late = late
  BY <1>2, NoCommandFields DEF Lines, Output
<1> HIDE DEF line
<1> QED BY <1>1, <1>2, <1>3 DEF Remark

\* Lines that begin with n remarks are said.
LEMMA Speaks ==
    ASSUME NEW o \in Seq(Lines), NEW lines \in Seq(Lines), NEW n \in 0 .. Len(lines), NEW run,
           \A k \in 1 .. n : Remark(lines[k], run)
    PROVE  /\ Remarks(o, o \o lines, Len(o) + n, run)
           /\ Len(o \o lines) = Len(o) + Len(lines)
           /\ Len(lines) > 0 => (o \o lines)[Len(o) + Len(lines)] = lines[Len(lines)]
<1> DEFINE new == o \o lines
<1>1. /\ new \in Seq(Lines) /\ Len(new) = Len(o) + Len(lines)
      /\ \A k \in 1 .. Len(o) + Len(lines) :
            new[k] = IF k <= Len(o) THEN o[k] ELSE lines[k - Len(o)]
  BY ConcatProperties
<1>2. Len(o) \in Nat /\ Len(lines) \in Nat /\ n \in Nat /\ n <= Len(lines)
  BY InPipe
<1> HIDE DEF new
<1>3. \A k \in 1 .. Len(o) : new[k] = o[k]
  BY <1>1, <1>2
<1>4. \A k \in 1 .. Len(o) + n : k > Len(o) => new[k] = lines[k - Len(o)] /\ k - Len(o) \in 1 .. n
  BY <1>1, <1>2
<1>5. Remarks(o, new, Len(o) + n, run)
  BY <1>1, <1>2, <1>3, <1>4 DEF Remarks
<1>6. Len(lines) > 0 => new[Len(o) + Len(lines)] = lines[Len(lines)]
  BY <1>1, <1>2
<1> QED BY <1>1, <1>5, <1>6 DEF new

\* Remarks are no answers anybody waits for.
LEMMA HearsRemarks ==
    ASSUME NEW i, NEW o \in Seq(Lines), NEW calls, Awaiting(i, o, calls),
           NEW new, NEW run, Remarks(o, new, Len(new), run)
    PROVE  /\ Awaiting(i, new, calls)
           /\ \A line \in Range(new) : line \in Range(o) \/ Remark(line, run)
           /\ \A line \in Range(o) : line \in Range(new)
<1> DEFINE a == Asked(o)
           b == Asked(new)
<1>1. /\ new \in Seq(Lines) /\ Len(o) \in Nat /\ Len(new) \in Nat /\ Len(o) <= Len(new)
      /\ \A k \in 1 .. Len(o) : new[k] = o[k]
      /\ \A k \in 1 .. Len(new) : k > Len(o) => Remark(new[k], run)
  BY InPipe DEF Remarks
<1>2. /\ Len(a) = Len(o) /\ Len(b) = Len(new)
      /\ a \in Seq(Commands) /\ b \in Seq(Commands)
      /\ \A k \in 1 .. Len(o) : a[k] = o[k].to
      /\ \A k \in 1 .. Len(new) : b[k] = new[k].to
  BY <1>1, AskedOf
<1> HIDE DEF a, b
<1>3. \A k \in 1 .. Len(b) : (k \in 1 .. Len(a) /\ b[k] = a[k]) \/ b[k] = NoCommand
  BY <1>1, <1>2 DEF Remark
<1>4. \A y \in Range(b) : y \in Range(a) \/ y = NoCommand
  BY <1>2, <1>3, InPipe
<1>5. NoCommand.by \notin Callers /\ Sound(NoCommand) /\ Awaited(NoCommand, calls)
  BY NoCommandFields DEF Callers
<1>6. OneOfEach(b)
  <2> SUFFICES ASSUME NEW k \in 1 .. Len(b), NEW l \in 1 .. Len(b),
                      b[k].by \in Callers, b[k].by = b[l].by
               PROVE  k = l
    BY DEF OneOfEach
  <2>1. k \in 1 .. Len(a) /\ l \in 1 .. Len(a) /\ b[k] = a[k] /\ b[l] = a[l]
    BY <1>3, <1>5
  <2> QED BY <2>1 DEF Awaiting, OneOfEach, a
<1>7. Awaiting(i, new, calls)
  BY <1>4, <1>5, <1>6 DEF Awaiting, a, b
<1>8. \A line \in Range(new) : line \in Range(o) \/ Remark(line, run)
  <2> SUFFICES ASSUME NEW line \in Range(new) PROVE line \in Range(o) \/ Remark(line, run)
    OBVIOUS
  <2>1. PICK k \in 1 .. Len(new) : line = new[k]
    BY <1>1, InPipe
  <2> QED BY <1>1, <2>1, InPipe
<1>9. \A line \in Range(o) : line \in Range(new)
  <2> SUFFICES ASSUME NEW line \in Range(o) PROVE line \in Range(new)
    OBVIOUS
  <2>1. PICK k \in 1 .. Len(o) : line = o[k]
    BY InPipe
  <2>2. k \in 1 .. Len(new) /\ new[k] = line
    BY <1>1, <2>1
  <2> QED BY <1>1, <2>2, InPipe
<1> QED BY <1>7, <1>8, <1>9

\* The process takes a command and answers it, after some remarks.
LEMMA HearsAnswer ==
    ASSUME NEW i \in Seq(Commands), i # <<>>, NEW o \in Seq(Lines), NEW calls,
           Awaiting(i, o, calls), NEW new, NEW run,
           Remarks(o, new, Len(new) - 1, run),
           NEW ok \in BOOLEAN, new[Len(new)] = Answer(Head(i), ok)
    PROVE  /\ Awaiting(Tail(i), new, calls)
           /\ \A line \in Range(new) :
                 line \in Range(o) \/ Remark(line, run) \/ line = Answer(Head(i), ok)
           /\ \A line \in Range(o) : line \in Range(new)
           /\ Answer(Head(i), ok) \in Range(new)
<1> DEFINE a == Asked(o)
           b == Asked(new)
           x == Head(i)
           j == Tail(i)
<1>1. /\ new \in Seq(Lines) /\ Len(o) \in Nat /\ Len(new) \in Nat /\ Len(o) < Len(new)
      /\ \A k \in 1 .. Len(o) : new[k] = o[k]
      /\ \A k \in 1 .. Len(new) : k > Len(o) /\ k # Len(new) => Remark(new[k], run)
  BY InPipe DEF Remarks
<1>2. /\ Len(a) = Len(o) /\ Len(b) = Len(new)
      /\ a \in Seq(Commands) /\ b \in Seq(Commands)
      /\ \A k \in 1 .. Len(o) : a[k] = o[k].to
      /\ \A k \in 1 .. Len(new) : b[k] = new[k].to
  BY <1>1, AskedOf
<1>3. /\ j \in Seq(Commands) /\ x \in Commands /\ x = i[1] /\ x \in Range(i)
      /\ Len(i) \in Nat \ {0} /\ Len(j) = Len(i) - 1
      /\ \A k \in 1 .. Len(j) : j[k] = i[k + 1] /\ k + 1 \in 1 .. Len(i)
      /\ Range(j) \subseteq Range(i)
  BY Taken
<1> HIDE DEF a, b, x, j
<1>4. Answer(x, ok) \in Lines /\ Answer(x, ok).to = x /\ new[Len(new)] = Answer(x, ok)
  BY <1>3, AnswerFields DEF x
<1>5. \A k \in 1 .. Len(b) : \/ k \in 1 .. Len(a) /\ b[k] = a[k]
                             \/ b[k] = NoCommand
                             \/ k = Len(b) /\ b[k] = x
  <2> SUFFICES ASSUME NEW k \in 1 .. Len(new)
               PROVE  \/ k \in 1 .. Len(a) /\ b[k] = a[k]
                      \/ b[k] = NoCommand
                      \/ k = Len(b) /\ b[k] = x
    BY <1>2
  <2>1. CASE k \in 1 .. Len(o)
    BY <1>1, <1>2, <2>1
  <2>2. CASE k > Len(o) /\ k # Len(new)
    BY <1>1, <1>2, <2>2 DEF Remark
  <2>3. CASE k = Len(new)
    BY <1>2, <1>4, <2>3
  <2> QED BY <1>1, <2>1, <2>2, <2>3
<1>6. \A y \in Range(b) : y \in Range(a) \/ y = NoCommand \/ y = x
  BY <1>2, <1>5, InPipe
<1>7. NoCommand.by \notin Callers /\ Sound(NoCommand) /\ Awaited(NoCommand, calls)
  BY NoCommandFields DEF Callers
<1>8. OneOfEach(b)
  <2> SUFFICES ASSUME NEW k \in 1 .. Len(b), NEW l \in 1 .. Len(b),
                      b[k].by \in Callers, b[k].by = b[l].by
               PROVE  k = l
    BY DEF OneOfEach
  <2>1. b[k] # NoCommand /\ b[l] # NoCommand
    BY <1>7
  <2>2. CASE k \in 1 .. Len(a) /\ b[k] = a[k] /\ l \in 1 .. Len(a) /\ b[l] = a[l]
    BY <2>2 DEF Awaiting, OneOfEach, a
  <2>3. ASSUME NEW m \in 1 .. Len(a), x.by \in Callers, a[m].by = x.by PROVE FALSE
    BY <1>2, <1>3, <2>3, InPipe DEF Awaiting, a
  <2> QED BY <1>5, <2>1, <2>2, <2>3
<1>9. OneOfEach(j)
  <2> SUFFICES ASSUME NEW k \in 1 .. Len(j), NEW l \in 1 .. Len(j),
                      j[k].by \in Callers, j[k].by = j[l].by
               PROVE  k = l
    BY DEF OneOfEach
  <2>1. k + 1 = l + 1
    BY <1>3 DEF Awaiting, OneOfEach
  <2> QED BY <2>1
<1>10. ASSUME NEW y \in Range(j), x.by \in Callers, y.by = x.by PROVE FALSE
  <2>1. PICK k \in 1 .. Len(j) : y = j[k]
    BY <1>3, InPipe
  <2>2. OneOfEach(i) /\ 1 \in 1 .. Len(i)
    BY <1>3 DEF Awaiting
  <2>3. 1 = k + 1
    BY <1>3, <1>10, <2>1, <2>2 DEF OneOfEach
  <2> QED BY <2>3
<1>11. Awaiting(j, new, calls)
  <2>1. \A y \in Range(j) \cup Range(b) : Sound(y) /\ Awaited(y, calls)
    BY <1>3, <1>6, <1>7 DEF Awaiting, a
  <2>2. \A y \in Range(j), z \in Range(b) : y.by \in Callers => y.by # z.by
    BY <1>3, <1>6, <1>7, <1>10 DEF Awaiting, a
  <2> QED BY <1>8, <1>9, <2>1, <2>2 DEF Awaiting, b
<1>12. \A line \in Range(new) : line \in Range(o) \/ Remark(line, run) \/ line = Answer(x, ok)
  <2> SUFFICES ASSUME NEW line \in Range(new)
               PROVE  line \in Range(o) \/ Remark(line, run) \/ line = Answer(x, ok)
    OBVIOUS
  <2>1. PICK k \in 1 .. Len(new) : line = new[k]
    BY <1>1, InPipe
  <2>2. CASE k \in 1 .. Len(o)
    BY <1>1, <2>1, <2>2, InPipe
  <2>3. CASE k > Len(o) /\ k # Len(new)
    BY <1>1, <2>1, <2>3
  <2>4. CASE k = Len(new)
    BY <1>4, <2>1, <2>4
  <2> QED BY <1>1, <2>2, <2>3, <2>4
<1>13. \A line \in Range(o) : line \in Range(new)
  <2> SUFFICES ASSUME NEW line \in Range(o) PROVE line \in Range(new)
    OBVIOUS
  <2>1. PICK k \in 1 .. Len(o) : line = o[k]
    BY InPipe
  <2>2. k \in 1 .. Len(new) /\ new[k] = line
    BY <1>1, <2>1
  <2> QED BY <1>1, <2>2, InPipe
<1>14. Answer(x, ok) \in Range(new)
  <2>1. Len(new) \in 1 .. Len(new) /\ new[Len(new)] = Answer(x, ok)
    BY <1>1 DEF x
  <2> QED BY <1>1, <2>1, InPipe
<1> QED BY <1>11, <1>12, <1>13, <1>14 DEF x, j

-----------------------------------------------------------------------------
(* The turns.                                                                *)

Core == TypeOK /\ NoProcess /\ TurnsAreBegun /\ RunsAreOfTurns /\ AnswersAreAwaited

\* When the first n turns are opened, n turns are.
LEMMA Counted ==
    ASSUME NEW T, NEW n \in 0 .. MaxTurns, \A t \in Turns : T[t].opened > 0 <=> t <= n
    PROVE  Cardinality({t \in Turns : T[t].opened > 0}) = n
<1>1. MaxTurns \in Nat \ {0}
  BY PiAssumption
<1>2. {t \in Turns : T[t].opened > 0} = 1 .. n
  BY <1>1 DEF Turns
<1>3. Cardinality(1 .. n) = n
  BY FS_Interval
<1> QED BY <1>2, <1>3

\* The next turn has not been opened, the ones before it have.
LEMMA NextIsNew ==
    ASSUME TurnsAreBegun
    PROVE  /\ NextTurn \in Nat \ {0}
           /\ \A t \in Turns : told[t].opened > 0 <=> t < NextTurn
<1>1. PICK n \in 0 .. MaxTurns : Started(n)
  BY DEF TurnsAreBegun
<1>2. NextTurn = n + 1
  BY <1>1, Counted DEF NextTurn, Started
<1>3. MaxTurns \in Nat \ {0}
  BY PiAssumption
<1> QED BY <1>1, <1>2, <1>3 DEF Started, Turns

\* Whoever opens no new turn leaves the count of turns as it is.
LEMMA StillBegun ==
    ASSUME TurnsAreBegun, \A t \in Turns : told'[t].opened > 0 <=> told[t].opened > 0,
           NEW i, NEW l, NEW r,
           turn'.id = i, last' = l, pi'.run = r,
           {i, l, r} \subseteq Turns \cup {None},
           Begun(i), Begun(l), Begun(r),
           \A command \in Range(stdin') :
              command \in Range(stdin) \/ (command \in Commands /\ Begun(command.turn)),
           \A line \in Range(stdout') :
              line \in Range(stdout) \/ (line \in Lines /\ Begun(line.turn) /\ Begun(line.to.turn)),
           stdin \in Seq(Commands), stdout \in Seq(Lines),
           call'["reactor"] = "model" => NextTurn \in Turns
    PROVE  TurnsAreBegun'
<1>1. PICK n \in 0 .. MaxTurns : Started(n)
  BY DEF TurnsAreBegun
<1>2. Started(n)' /\ NextTurn = n + 1 /\ NextTurn' = n + 1
  BY <1>1, Counted DEF NextTurn, Started
<1>3. \A t \in Turns \cup {None} : Begun(t) => Begun(t)'
  BY DEF Begun
<1>4. \A command \in Range(stdin') : Begun(command.turn)'
  <2> SUFFICES ASSUME NEW command \in Range(stdin') PROVE Begun(command.turn)'
    OBVIOUS
  <2>1. Begun(command.turn) /\ command \in Commands
    BY InPipe DEF TurnsAreBegun
  <2> QED BY <1>3, <2>1 DEF Commands
<1>5. \A line \in Range(stdout') : Begun(line.turn)' /\ Begun(line.to.turn)'
  <2> SUFFICES ASSUME NEW line \in Range(stdout') PROVE Begun(line.turn)' /\ Begun(line.to.turn)'
    OBVIOUS
  <2>1. Begun(line.turn) /\ Begun(line.to.turn) /\ line \in Lines
    BY InPipe DEF TurnsAreBegun
  <2>2. line.turn \in Turns \cup {None} /\ line.to.turn \in Turns \cup {None}
    BY <2>1 DEF Lines, Commands
  <2> QED BY <1>3, <2>1, <2>2
<1>6. Begun(turn.id)' /\ Begun(last)' /\ Begun(pi.run)'
  BY <1>3 DEF Begun
<1>7. NextTurn' = NextTurn
  BY <1>2
<1> QED BY <1>1, <1>2, <1>4, <1>5, <1>6, <1>7 DEF TurnsAreBegun

-----------------------------------------------------------------------------
(* What the adapter does in one step, piece by piece.                        *)

\* A publication is counted for its turn only.
LEMMA OpenedFields ==
    ASSUME told \in [Turns -> Accounts], NEW t \in Turns, told' = Opened(t)
    PROVE  /\ told' \in [Turns -> Accounts]
           /\ \A u \in Turns : u # t => told'[u] = told[u]
           /\ told[t].opened \in Nat /\ told'[t].opened = told[t].opened + 1
           /\ told'[t].ended = told[t].ended /\ told'[t].as = told[t].as
<1>1. told[t] \in Accounts /\ told[t].opened \in Nat /\ told[t].ended \in Nat
  BY DEF Accounts
<1>2. /\ told' \in [Turns -> Accounts]
      /\ \A u \in Turns : u # t => told'[u] = told[u]
      /\ told'[t] = [told[t] EXCEPT !.opened = @ + 1]
  BY <1>1 DEF Accounts, Opened
<1> QED BY <1>1, <1>2 DEF Accounts

LEMMA EndedFields ==
    ASSUME told \in [Turns -> Accounts], NEW t \in Turns, NEW state \in States,
           told' = Ended(t, state)
    PROVE  /\ told' \in [Turns -> Accounts]
           /\ \A u \in Turns : u # t => told'[u] = told[u]
           /\ told[t].ended \in Nat /\ told'[t].ended = told[t].ended + 1
           /\ told'[t].opened = told[t].opened /\ told'[t].as = state
<1>1. told[t] \in Accounts /\ told[t].opened \in Nat /\ told[t].ended \in Nat
  BY DEF Accounts
<1> DEFINE mid == [told EXCEPT ![t].ended = @ + 1]
<1>2. told' = [mid EXCEPT ![t].as = state]
  BY DEF Ended
<1>3. /\ mid \in [Turns -> Accounts]
      /\ \A u \in Turns : u # t => mid[u] = told[u]
      /\ mid[t] = [told[t] EXCEPT !.ended = @ + 1]
  BY <1>1 DEF Accounts
<1> HIDE DEF mid
<1>4. mid[t].ended = told[t].ended + 1 /\ mid[t].opened = told[t].opened /\ mid[t] \in Accounts
  BY <1>1, <1>3 DEF Accounts
<1>5. /\ told' \in [Turns -> Accounts]
      /\ \A u \in Turns : u # t => told'[u] = mid[u]
      /\ told'[t] = [mid[t] EXCEPT !.as = state]
  <2>1. [mid[t] EXCEPT !.as = state] \in Accounts
    BY <1>4 DEF Accounts
  <2> DEFINE account == [mid[t] EXCEPT !.as = state]
  <2>2. told' = [mid EXCEPT ![t] = account]
    BY <1>2
  <2> HIDE DEF account
  <2>3. account \in Accounts
    BY <2>1 DEF account
  <2>4. /\ told' \in [Turns -> Accounts]
        /\ \A u \in Turns : u # t => told'[u] = mid[u]
        /\ told'[t] = account
    BY <1>3, <2>2, <2>3
  <2> QED BY <2>4 DEF account
<1>6. told'[t].opened = mid[t].opened /\ told'[t].ended = mid[t].ended /\ told'[t].as = state
  BY <1>4, <1>5 DEF Accounts
<1>7. \A u \in Turns : u # t => told'[u] = told[u]
  BY <1>3, <1>5
<1>8. told'[t].ended = told[t].ended + 1 /\ told'[t].opened = told[t].opened
  BY <1>4, <1>6, Zenon
<1> QED BY <1>1, <1>5, <1>6, <1>7, <1>8, Zenon

LEMMA CommandFields ==
    ASSUME NEW kind \in {"model", "prompt", "steer", "abort", "look"},
           NEW t \in Turns \cup {None}, NEW state \in States \cup {"none"},
           NEW by \in Callers \cup {"timer"}
    PROVE  /\ Command(kind, t, state, by) \in Commands
           /\ Command(kind, t, state, by).kind = kind /\ Command(kind, t, state, by).turn = t
           /\ Command(kind, t, state, by).state = state /\ Command(kind, t, state, by).by = by
BY DEF Command, Commands

LEMMA FreshTurn ==
    ASSUME NEW t \in Turns \cup {None}
    PROVE  /\ Fresh(t) \in TurnStates /\ Fresh(t).id = t /\ ~Fresh(t).armed
           /\ Fresh(t).pending = "none"
           /\ Idle \in TurnStates /\ Idle.id = None /\ ~Idle.armed
BY DEF Fresh, Idle, TurnStates

\* A write adds the command, or nothing once the process was told to close.
LEMMA Writes ==
    ASSUME stdin \in Seq(Commands), NEW x \in Commands, Write(x)
    PROVE  /\ stdin' \in Seq(Commands)
           /\ (stdin' = stdin \/ stdin' = Append(stdin, x))
           /\ call["reactor"] # "close" => stdin' = Append(stdin, x)
           /\ Range(stdin') \subseteq Range(stdin) \cup {x}
BY Written DEF Write

\* A caller that has nothing under way sends a command and waits for it.
LEMMA AsksAnew ==
    ASSUME stdin \in Seq(Commands), call \in [Callers -> Answers],
           NEW o, Awaiting(stdin, o, call),
           NEW c \in Callers, NothingBy(c, stdin, o),
           NEW x \in Commands, Sound(x), x.by = c, Write(x),
           NEW a, a = x.kind \/ (a = "stop" /\ x.kind = "abort"),
           c = "stream" => a \in {"prompt", "steer"},
           call' = [call EXCEPT ![c] = a]
    PROVE  Awaiting(stdin', o, call')
<1>1. Awaiting(stdin, o, call')
  BY WaitsAnew
<1>2. Awaited(x, call')
  BY DEF Awaited
<1>3. Awaiting(Append(stdin, x), o, call')
  BY <1>1, <1>2, Asks
<1> QED BY <1>1, <1>3, Writes

\* A turn begins: it is the next one, and its prompt is what the caller waits for.
LEMMA BeginsTurn ==
    ASSUME Core, NEW c \in Callers, BeginTurn(c), session # "none", NextTurn \in Turns,
           c = "stream" /\ call["reactor"] = "model" => NextTurn + 1 \in Turns,
           stdout' \in Seq(Lines), Range(stdout') \subseteq Range(stdout),
           Awaiting(stdin, stdout', call), NothingBy(c, stdin, stdout'),
           UNCHANGED <<session, queued, pi, worked, filed, budget>>
    PROVE  Core'
<1> DEFINE x == Command("prompt", NextTurn, "none", c)
<1>1. /\ x \in Commands /\ x.kind = "prompt" /\ x.turn = NextTurn /\ x.by = c
  BY CommandFields DEF States
<1>2. NextTurn # None /\ Sound(x)
  <2>1. NextTurn # None
    BY NextIsNew DEF None, Core
  <2> QED BY <1>1, <2>1 DEF Sound, Callers
<1>3. /\ Write(x) /\ turn' = Fresh(NextTurn) /\ last' = None /\ tools' = FALSE
      /\ call' = [call EXCEPT ![c] = "prompt"]
      /\ races' = races \cup (IF turn.id = None THEN {} ELSE {"overtaken"})
  BY DEF BeginTurn, Waits
<1> HIDE DEF x
<1>4. TypeOK
  BY DEF Core
<1>5. /\ stdin' \in Seq(Commands)
      /\ Range(stdin') \subseteq Range(stdin) \cup {x}
  BY <1>1, <1>3, <1>4, Writes DEF TypeOK
<1>6. /\ told' \in [Turns -> Accounts]
      /\ \A t \in Turns : t # NextTurn => told'[t] = told[t]
      /\ told'[NextTurn].opened = told[NextTurn].opened + 1
      /\ told'[NextTurn].opened > 0
  <2> DEFINE n == NextTurn
  <2>1. n \in Turns /\ told \in [Turns -> Accounts] /\ "failed" \in States
    BY <1>4 DEF TypeOK, States
  <2>2. told' = Opened(n)
    BY DEF BeginTurn
  <2> HIDE DEF n
  <2>3. /\ told' \in [Turns -> Accounts] /\ told[n].opened \in Nat
        /\ \A t \in Turns : t # n => told'[t] = told[t]
        /\ told'[n].opened = told[n].opened + 1
    BY <2>1, <2>2, OpenedFields
  <2>4. told'[n].opened > 0
    BY <2>3
  <2> QED BY <2>3, <2>4 DEF n
<1>7. call' \in [Callers -> Answers]
  BY <1>3, <1>4 DEF TypeOK, Answers
<1>8. turn' \in TurnStates /\ turn'.id = NextTurn /\ ~turn'.armed
  BY <1>3, FreshTurn
<1>9. TypeOK'
  BY <1>3, <1>4, <1>5, <1>6, <1>7, <1>8 DEF TypeOK
<1>10. NoProcess'
  BY DEF NoProcess, Core
<1>11. RunsAreOfTurns'
  BY <1>8 DEF RunsAreOfTurns, Core
<1>12. AnswersAreAwaited'
  BY <1>1, <1>2, <1>3, <1>4, AsksAnew DEF TypeOK, AnswersAreAwaited
<1>13. TurnsAreBegun'
  <2>1. PICK n \in 0 .. MaxTurns : Started(n)
    BY DEF TurnsAreBegun, Core
  <2>2. NextTurn = n + 1 /\ MaxTurns \in Nat
    BY <2>1, Counted, PiAssumption DEF NextTurn, Started
  <2>3. n + 1 \in 0 .. MaxTurns
    BY <2>2 DEF Turns
  <2>4. \A t \in Turns : told'[t].opened > 0 <=> t <= n + 1
    BY <1>6, <2>1, <2>2 DEF Started, Turns
  <2>5. NextTurn' = n + 2
    BY <2>2, <2>3, <2>4, Counted DEF NextTurn
  <2>6. \A t \in Turns \cup {None} : Begun(t) => Begun(t)'
    <3> SUFFICES ASSUME NEW t \in Turns \cup {None}, Begun(t), t # None
                 PROVE  told'[t].opened > 0
      BY DEF Begun
    <3>1. t \in Turns /\ told[t].opened > 0
      BY DEF Begun
    <3>2. CASE t = NextTurn
      BY <1>6, <3>2
    <3>3. CASE t # NextTurn
      BY <1>6, <3>1, <3>3
    <3> QED BY <3>2, <3>3
  <2>7. \A t : t = NextTurn => Begun(t)'
    BY <1>6 DEF Begun
  <2>8. \A command \in Range(stdin') : Begun(command.turn)'
    <3>1. \A command \in Range(stdin) : command.turn \in Turns \cup {None} /\ Begun(command.turn)
      <4>1. \A command \in Range(stdin) : command \in Commands
        BY <1>4, InPipe DEF TypeOK
      <4>2. \A command \in Range(stdin) : Begun(command.turn)
        BY DEF Core, TurnsAreBegun
      <4> QED BY <4>1, <4>2 DEF Commands
    <3>2. \A command \in Range(stdin) : Begun(command.turn)'
      BY <2>6, <3>1
    <3>3. x.turn = NextTurn
      BY <1>1
    <3> QED BY <1>5, <2>7, <3>2, <3>3
  <2>9. \A line \in Range(stdout') : Begun(line.turn)' /\ Begun(line.to.turn)'
    <3>1. \A line \in Range(stdout) :
             /\ line.turn \in Turns \cup {None} /\ Begun(line.turn)
             /\ line.to.turn \in Turns \cup {None} /\ Begun(line.to.turn)
      <4>1. \A line \in Range(stdout) : line \in Lines
        BY <1>4, InPipe DEF TypeOK
      <4>2. \A line \in Range(stdout) : Begun(line.turn) /\ Begun(line.to.turn)
        BY DEF Core, TurnsAreBegun
      <4> QED BY <4>1, <4>2 DEF Lines, Commands
    <3> QED BY <2>6, <3>1
  <2>10. Begun(turn.id)' /\ Begun(last)' /\ Begun(pi.run)'
    <3>1. Begun(pi.run) /\ pi.run \in Turns \cup {None}
      BY <1>4 DEF Core, TurnsAreBegun, TypeOK
    <3>2. Begun(None)'
      BY DEF Begun
    <3>3. pi' = pi
      OBVIOUS
    <3>4. Begun(pi.run)'
      BY <2>6, <3>1, <3>3
    <3>5. Begun(turn.id)'
      BY <1>8, <2>7
    <3> QED BY <1>3, <3>2, <3>4, <3>5
  <2>11. call'["reactor"] = "model" => NextTurn' \in Turns
    <3>1. call'["reactor"] = "model" => c = "stream" /\ call["reactor"] = "model"
      BY <1>3, <1>4 DEF TypeOK, Callers
    <3> QED BY <2>2, <2>5, <3>1
  <2> QED BY <2>3, <2>4, <2>8, <2>9, <2>10, <2>11 DEF TurnsAreBegun, Started
<1> QED BY <1>9, <1>10, <1>11, <1>12, <1>13 DEF Core

\* The active turn is given up, if there is one.
LEMMA GivesUpActive ==
    ASSUME TypeOK, FailActive
    PROVE  /\ turn' \in TurnStates /\ (turn' = turn \/ turn' = Idle)
           /\ session # "none" => turn'.id = None
           /\ tools' \in BOOLEAN
           /\ told' \in [Turns -> Accounts]
           /\ \A t \in Turns : told'[t].opened = told[t].opened
           /\ races' = races \/ races' = races \cup {"given_up"}
<1>1. CASE session = "none" \/ turn.id = None
  BY <1>1 DEF FailActive, TypeOK
<1>2. CASE ~(session = "none" \/ turn.id = None)
  <2>1. turn.id \in Turns /\ told \in [Turns -> Accounts] /\ "failed" \in States
    BY <1>2 DEF TypeOK, TurnStates, States
  <2>2. /\ told' = Ended(turn.id, "failed")
        /\ turn' = Idle /\ tools' = FALSE /\ races' = races \cup {"given_up"}
    BY <1>2 DEF FailActive
  <2> DEFINE t == turn.id
  <2> HIDE DEF t
  <2>3. told' = Ended(t, "failed") /\ t \in Turns
    BY <2>1, <2>2 DEF t
  <2>4. /\ told' \in [Turns -> Accounts]
        /\ \A u \in Turns : told'[u].opened = told[u].opened
    <3>1. /\ told' \in [Turns -> Accounts]
          /\ \A u \in Turns : u # t => told'[u] = told[u]
          /\ told'[t].opened = told[t].opened
      BY <2>1, <2>3, EndedFields
    <3> QED BY <2>3, <3>1
  <2>5. None \in Turns \cup {None}
    OBVIOUS
  <2> QED BY <2>2, <2>4, <2>5, FreshTurn
<1> QED BY <1>1, <1>2

LEMMA Schedules ==
    ASSUME NEW tn \in TurnStates, NEW state \in States,
           tn.armed => tn.id # None /\ tn.pending # "none"
    PROVE  /\ Schedule(tn, state) \in TurnStates
           /\ Schedule(tn, state).id = tn.id
           /\ Schedule(tn, state).armed => tn.id # None /\ Schedule(tn, state).pending # "none"
<1>1. CASE tn.id = None
  BY <1>1 DEF Schedule
<1>2. CASE tn.id # None
  <2>1. Schedule(tn, state) = [tn EXCEPT !.pending = state, !.armed = TRUE] /\ state # "none"
    BY <1>2 DEF Schedule, States
  <2> QED BY <1>2, <2>1 DEF TurnStates
<1> QED BY <1>1, <1>2

-----------------------------------------------------------------------------
(* Types, pipes and callers: one lemma for each action.                      *)

LEMMA StartSessionCore == ASSUME Core, StartSession PROVE Core'
<1>1. /\ session = "none" /\ session' = "live" /\ pi.state = "none"
      /\ pi' = [pi EXCEPT !.state = "idle", !.run = None]
      /\ turn' = Idle /\ last' = None /\ tools' = FALSE /\ queued' = FALSE
      /\ UNCHANGED <<call, stdin, stdout, told, worked, filed, races, budget>>
  BY DEF StartSession, Unspent
<1>2. None \in Turns \cup {None}
  OBVIOUS
<1>3. turn' \in TurnStates /\ turn'.id = None /\ ~turn'.armed
  BY <1>1, <1>2, FreshTurn
<1>4. TypeOK'
  BY <1>1, <1>3 DEF Core, TypeOK
<1>5. /\ pi'.state = "idle" /\ pi'.run = None /\ pi'.tool = pi.tool
  BY <1>1 DEF Core, TypeOK
<1>6. NoProcess'
  BY <1>1, <1>5 DEF NoProcess
<1>7. RunsAreOfTurns'
  BY <1>1, <1>3, <1>5 DEF Core, RunsAreOfTurns
<1>8. TurnsAreBegun'
  BY <1>1, <1>3, <1>5, StillBegun DEF Core, TypeOK, Begun, TurnsAreBegun
<1>9. AnswersAreAwaited'
  BY <1>1 DEF Core, AnswersAreAwaited
<1> QED BY <1>4, <1>6, <1>7, <1>8, <1>9 DEF Core

LEMMA SendCore == ASSUME Core, NEW c \in Callers, Send(c) PROVE Core'
<1>1. /\ session # "none" /\ call[c] = "none"
      /\ turn.id = None => MayStart
      /\ UNCHANGED <<session, queued, pi, stdout, worked, filed, budget>>
  BY DEF Send, Unspent
<1>2. TypeOK
  BY DEF Core
<1>3. CASE turn.id # None
  <2>1. FailActive /\ UNCHANGED <<last, call, stdin>>
    BY <1>3 DEF Send
  <2>2. /\ turn' \in TurnStates /\ turn'.id = None /\ (turn' = turn \/ turn' = Idle)
        /\ tools' \in BOOLEAN /\ told' \in [Turns -> Accounts]
        /\ \A t \in Turns : told'[t].opened = told[t].opened
        /\ races' = races \/ races' = races \cup {"given_up"}
    BY <1>1, <1>2, <2>1, GivesUpActive
  <2>3. ~turn'.armed
    BY <1>3, <2>2, FreshTurn
  <2>4. TypeOK'
    BY <1>1, <1>2, <2>1, <2>2 DEF TypeOK
  <2>5. NoProcess' /\ RunsAreOfTurns' /\ AnswersAreAwaited'
    BY <1>1, <2>1, <2>3 DEF Core, NoProcess, RunsAreOfTurns, AnswersAreAwaited
  <2>6. TurnsAreBegun'
    BY <1>1, <1>2, <2>1, <2>2, StillBegun DEF Core, TypeOK, Begun, TurnsAreBegun
  <2> QED BY <2>4, <2>5, <2>6 DEF Core
<1>4. CASE turn.id = None
  <2>1. BeginTurn(c) /\ MayStart
    BY <1>1, <1>4 DEF Send
  <2>2. NextTurn \in Turns /\ (call["reactor"] = "model" => NextTurn + 1 \in Turns)
    <3>1. NextTurn \in Nat \ {0} /\ MaxTurns \in Nat
      BY NextIsNew, PiAssumption DEF Core
    <3> QED BY <2>1, <3>1 DEF MayStart, Turns
  <2>3. stdout \in Seq(Lines) /\ stdin \in Seq(Commands) /\ Awaiting(stdin, stdout, call)
    BY <1>2 DEF TypeOK, Core, AnswersAreAwaited
  <2>4. NothingBy(c, stdin, stdout)
    BY <1>1, <2>3, NothingIsAsked
  <2> QED BY <1>1, <2>1, <2>2, <2>3, <2>4, BeginsTurn
<1> QED BY <1>3, <1>4

\* The facts that the actions of the adapter begin with.
LEMMA CoreFacts ==
    ASSUME Core
    PROVE  /\ TypeOK /\ turn \in TurnStates /\ turn.id \in Turns \cup {None}
           /\ turn.pending \in States \cup {"none"}
           /\ stdin \in Seq(Commands) /\ stdout \in Seq(Lines)
           /\ call \in [Callers -> Answers] /\ told \in [Turns -> Accounts]
           /\ Awaiting(stdin, stdout, call)
           /\ Begun(turn.id) /\ Begun(last) /\ Begun(pi.run)
           /\ call["reactor"] = "model" => NextTurn \in Turns
           /\ turn.armed => turn.id # None /\ turn.pending # "none"
           /\ pi.run \in Turns \cup {None} /\ last \in Turns \cup {None}
BY DEF Core, TypeOK, TurnStates, AnswersAreAwaited, TurnsAreBegun, RunsAreOfTurns

\* A command is sent by a caller that waits for nothing: only it and the turn change.
LEMMA AskingCore ==
    ASSUME Core, session # "none", session' \in {"live", "closing"},
           NEW c \in Callers, call[c] = "none",
           NEW x \in Commands, Sound(x), x.by = c, Write(x), Begun(x.turn),
           NEW a \in Answers, a = x.kind \/ (a = "stop" /\ x.kind = "abort"),
           c = "stream" => a \in {"prompt", "steer"},
           call' = [call EXCEPT ![c] = a],
           a = "model" => NextTurn \in Turns,
           turn' \in TurnStates, turn'.id = turn.id,
           turn'.armed => turn.armed /\ turn'.pending = turn.pending,
           budget' \in [Kinds -> Nat],
           UNCHANGED <<last, tools, queued, pi, stdout, told, worked, filed, races>>
    PROVE  Core'
<1>1. /\ stdin \in Seq(Commands) /\ stdout \in Seq(Lines) /\ call \in [Callers -> Answers]
      /\ Awaiting(stdin, stdout, call) /\ TypeOK
  BY CoreFacts
<1>2. NothingBy(c, stdin, stdout)
  BY <1>1, NothingIsAsked
<1>3. AnswersAreAwaited'
  <2>1. Awaiting(stdin', stdout, call')
    BY <1>1, <1>2, AsksAnew
  <2> QED BY <2>1 DEF AnswersAreAwaited
<1>4. stdin' \in Seq(Commands) /\ Range(stdin') \subseteq Range(stdin) \cup {x}
  BY <1>1, Writes
<1>5. call' \in [Callers -> Answers]
  BY <1>1
<1>6. TypeOK'
  BY <1>1, <1>4, <1>5 DEF TypeOK
<1>7. NoProcess'
  BY DEF Core, NoProcess
<1>8. RunsAreOfTurns'
  BY DEF Core, RunsAreOfTurns
<1>9. call'["reactor"] = "model" => NextTurn \in Turns
  BY <1>1, CoreFacts DEF Callers
<1>10. TurnsAreBegun'
  <2>1. TurnsAreBegun /\ Begun(turn.id) /\ Begun(last) /\ Begun(pi.run)
        /\ {turn.id, last, pi.run} \subseteq Turns \cup {None}
    BY CoreFacts DEF Core
  <2>2. \A command \in Range(stdin') :
           command \in Range(stdin) \/ (command \in Commands /\ Begun(command.turn))
    BY <1>4
  <2> QED BY <1>1, <1>9, <2>1, <2>2, StillBegun
<1> QED BY <1>3, <1>6, <1>7, <1>8, <1>10 DEF Core

LEMMA SendWithModelCore == ASSUME Core, SendWithModel PROVE Core'
<1> DEFINE x == Command("model", None, "none", "reactor")
<1>1. /\ x \in Commands /\ x.kind = "model" /\ x.turn = None /\ x.by = "reactor"
  BY CommandFields DEF Callers
<1>2. Sound(x) /\ Begun(x.turn)
  BY <1>1 DEF Sound, Begun
<1>3. NextTurn \in Turns
  <2>1. NextTurn \in Nat \ {0} /\ MaxTurns \in Nat
    BY NextIsNew, PiAssumption DEF Core
  <2>2. MayStart
    BY DEF SendWithModel
  <2> QED BY <2>1, <2>2 DEF MayStart, Turns
<1>4. /\ session # "none" /\ call["reactor"] = "none" /\ Write(x)
      /\ call' = [call EXCEPT !["reactor"] = "model"]
      /\ UNCHANGED <<session, turn, last, tools, queued, pi, stdout, told, worked, filed, races>>
  BY DEF SendWithModel, Waits
<1>5. budget' \in [Kinds -> Nat] /\ session' \in {"live", "closing"}
  BY <1>4 DEF SendWithModel, Spend, Core, TypeOK, Kinds
<1> HIDE DEF x
<1> QED BY <1>1, <1>2, <1>3, <1>4, <1>5, AskingCore, CoreFacts DEF Callers, Answers

LEMMA SteerCore == ASSUME Core, Steer PROVE Core'
<1> DEFINE x == Command("steer", turn.id, "none", "stream")
<1>1. /\ session # "none" /\ call["stream"] = "none" /\ Write(x) /\ turn.id # None
      /\ call' = [call EXCEPT !["stream"] = "steer"]
      /\ UNCHANGED <<session, turn, last, tools, queued, pi, stdout, told, worked, filed, races>>
  BY DEF Steer, Waits
<1>2. /\ x \in Commands /\ x.kind = "steer" /\ x.turn = turn.id /\ x.by = "stream"
  <2>1. turn.id \in Turns \cup {None}
    BY CoreFacts
  <2> QED BY <2>1, CommandFields DEF Callers
<1> HIDE DEF x
<1>3. Sound(x) /\ Begun(x.turn)
  BY <1>1, <1>2, CoreFacts DEF Sound
<1>4. budget' \in [Kinds -> Nat] /\ session' \in {"live", "closing"}
  BY <1>1 DEF Steer, Spend, Core, TypeOK, Kinds
<1> QED BY <1>1, <1>2, <1>3, <1>4, AskingCore, CoreFacts DEF Callers, Answers

LEMMA InterruptCore == ASSUME Core, Interrupt PROVE Core'
<1> DEFINE x == Command("abort", turn.id, "none", "reactor")
<1>1. /\ session # "none" /\ call["reactor"] = "none" /\ Write(x) /\ turn.id # None
      /\ turn' = [turn EXCEPT !.aborted = TRUE]
      /\ call' = [call EXCEPT !["reactor"] = "abort"]
      /\ UNCHANGED <<session, last, tools, queued, pi, stdout, told, worked, filed, races, budget>>
  BY DEF Interrupt, Waits, Unspent
<1>2. /\ x \in Commands /\ x.kind = "abort" /\ x.turn = turn.id /\ x.by = "reactor"
  <2>1. turn.id \in Turns \cup {None}
    BY CoreFacts
  <2> QED BY <2>1, CommandFields DEF Callers
<1> HIDE DEF x
<1>3. Sound(x) /\ Begun(x.turn)
  BY <1>1, <1>2, CoreFacts DEF Sound
<1>4. budget' \in [Kinds -> Nat] /\ session' \in {"live", "closing"}
  BY <1>1 DEF Core, TypeOK
<1>5. /\ turn' \in TurnStates /\ turn'.id = turn.id
      /\ turn'.armed = turn.armed /\ turn'.pending = turn.pending
  BY <1>1, CoreFacts DEF TurnStates
<1> QED BY <1>1, <1>2, <1>3, <1>4, <1>5, AskingCore DEF Callers, Answers

LEMMA StopSessionCore == ASSUME Core, StopSession PROVE Core'
<1>1. /\ session = "live" /\ session' = "closing" /\ call["reactor"] = "none"
      /\ UNCHANGED <<last, tools, queued, pi, stdout, told, worked, filed, races>>
  BY DEF StopSession
<1>2. budget' \in [Kinds -> Nat]
  BY DEF StopSession, Spend, Core, TypeOK, Kinds
<1>3. CASE turn.id # None
  <2> DEFINE x == Command("abort", turn.id, "none", "reactor")
  <2>1. /\ Write(x) /\ call' = [call EXCEPT !["reactor"] = "stop"]
        /\ turn' = [turn EXCEPT !.aborted = TRUE, !.pending = "none", !.armed = FALSE]
    BY <1>3 DEF StopSession, Waits
  <2>2. /\ x \in Commands /\ x.kind = "abort" /\ x.turn = turn.id /\ x.by = "reactor"
    <3>1. turn.id \in Turns \cup {None}
      BY CoreFacts
    <3> QED BY <3>1, CommandFields DEF Callers
  <2> HIDE DEF x
  <2>3. Sound(x) /\ Begun(x.turn)
    BY <1>3, <2>2, CoreFacts DEF Sound
  <2>4. turn' \in TurnStates /\ turn'.id = turn.id /\ ~turn'.armed
    BY <2>1, CoreFacts DEF TurnStates
  <2> QED BY <1>1, <1>2, <2>1, <2>2, <2>3, <2>4, AskingCore DEF Callers, Answers
<1>4. CASE turn.id = None
  <2>1. call' = [call EXCEPT !["reactor"] = "close"] /\ UNCHANGED <<turn, stdin>>
    BY <1>4 DEF StopSession, Waits
  <2>2. NothingBy("reactor", stdin, stdout)
    BY <1>1, CoreFacts, NothingIsAsked DEF Callers
  <2>3. Awaiting(stdin, stdout, call')
    BY <2>1, <2>2, CoreFacts, WaitsAnew DEF Callers
  <2>4. AnswersAreAwaited'
    BY <1>1, <2>1, <2>3 DEF AnswersAreAwaited
  <2>5. call' \in [Callers -> Answers] /\ call'["reactor"] = "close"
    BY <2>1, CoreFacts DEF Callers, Answers
  <2>6. TypeOK'
    BY <1>1, <1>2, <2>1, <2>5 DEF Core, TypeOK
  <2>7. NoProcess' /\ RunsAreOfTurns'
    BY <1>1, <2>1 DEF Core, NoProcess, RunsAreOfTurns
  <2>8. TurnsAreBegun'
    BY <1>1, <2>1, <2>5, CoreFacts, StillBegun DEF Core
  <2> QED BY <2>4, <2>6, <2>7, <2>8 DEF Core
<1> QED BY <1>3, <1>4

LEMMA QuietPeriodOverCore == ASSUME Core, QuietPeriodOver PROVE Core'
<1> DEFINE x == Command("look", turn.id, turn.pending, "timer")
<1>1. /\ turn.armed /\ Write(x) /\ turn' = [turn EXCEPT !.armed = FALSE]
      /\ UNCHANGED <<session, last, tools, queued, call, pi, stdout, told, worked, filed, races,
                     budget>>
  BY DEF QuietPeriodOver, Unspent
<1>2. /\ turn.id # None /\ turn.pending # "none" /\ turn.id \in Turns \cup {None}
      /\ turn.pending \in States \cup {"none"} /\ turn \in TurnStates
  BY <1>1, CoreFacts
<1>3. /\ x \in Commands /\ x.kind = "look" /\ x.turn = turn.id /\ x.by = "timer"
      /\ x.state = turn.pending
  BY <1>2, CommandFields
<1> HIDE DEF x
<1>4. x.by \notin Callers /\ Sound(x) /\ Awaited(x, call) /\ Begun(x.turn)
  BY <1>2, <1>3, CoreFacts DEF Sound, Awaited, Callers
<1>5. /\ stdin' \in Seq(Commands) /\ (stdin' = stdin \/ stdin' = Append(stdin, x))
      /\ Range(stdin') \subseteq Range(stdin) \cup {x}
  BY <1>1, <1>3, CoreFacts, Writes
<1>6. AnswersAreAwaited'
  <2>1. Awaiting(Append(stdin, x), stdout, call)
    BY <1>3, <1>4, CoreFacts, Asks
  <2> QED BY <1>1, <1>5, <2>1, CoreFacts DEF AnswersAreAwaited
<1>7. turn' \in TurnStates /\ turn'.id = turn.id /\ ~turn'.armed
  BY <1>1, <1>2 DEF TurnStates
<1>8. TypeOK'
  BY <1>1, <1>5, <1>7 DEF Core, TypeOK
<1>9. NoProcess'
  BY <1>1, <1>2 DEF Core, NoProcess
<1>10. RunsAreOfTurns'
  BY <1>1, <1>7 DEF Core, RunsAreOfTurns
<1>11. TurnsAreBegun'
  <2>1. \A command \in Range(stdin') :
           command \in Range(stdin) \/ (command \in Commands /\ Begun(command.turn))
    BY <1>3, <1>4, <1>5
  <2>2. TurnsAreBegun /\ {turn.id, last, pi.run} \subseteq Turns \cup {None}
    BY CoreFacts DEF Core
  <2> QED BY <1>1, <1>7, <2>1, <2>2, CoreFacts, StillBegun
<1> QED BY <1>6, <1>8, <1>9, <1>10, <1>11 DEF Core

\* A command fails, its answer read or its wait over.
LEMMA FailsCore ==
    ASSUME Core, session # "none",
           NEW x \in Commands, Sound(x), Awaited(x, call), x.by # "none", Fails(x),
           stdin' \in Seq(Commands), stdout' \in Seq(Lines), Awaiting(stdin', stdout', call),
           x.by \in Callers => NothingBy(x.by, stdin', stdout'),
           \A command \in Range(stdin') :
              command \in Range(stdin) \/ (command \in Commands /\ Begun(command.turn)),
           Range(stdout') \subseteq Range(stdout),
           budget' \in [Kinds -> Nat],
           UNCHANGED <<session, queued, pi, worked, filed>>
    PROVE  Core'
<1>1. /\ TypeOK /\ call \in [Callers -> Answers] /\ last' = last
      /\ call["stream"] \in {"none", "prompt", "steer"}
  BY CoreFacts DEF Fails, Awaiting
<1>2. /\ turn' \in TurnStates /\ (turn' = turn \/ turn' = Idle) /\ tools' \in BOOLEAN
      /\ told' \in [Turns -> Accounts]
      /\ \A t \in Turns : told'[t].opened = told[t].opened
      /\ races' \subseteq races \cup {"given_up", "look_failed"}
      /\ call' = call \/ \E c \in Callers, a \in {"none", "close"} :
            /\ c = x.by /\ call' = [call EXCEPT ![c] = a] /\ (c = "stream" => a = "none")
  <2>1. CASE x.kind = "look"
    BY <1>1, <2>1 DEF Fails, TypeOK
  <2>2. CASE x.kind = "abort"
    <3>1. x.by = "reactor"
      BY <1>1, <2>2 DEF Sound, Awaited, Callers, Commands
    <3>2. \E a \in {"none", "close"} : call' = [call EXCEPT !["reactor"] = a]
      BY <2>2 DEF Fails, Waits
    <3>3. UNCHANGED <<turn, tools, told, races>>
      BY <2>2 DEF Fails
    <3> QED BY <1>1, <3>1, <3>2, <3>3 DEF TypeOK, Callers
  <2>3. CASE x.kind \notin {"look", "abort"}
    <3>1. FailActive /\ call' = [call EXCEPT ![x.by] = "none"]
      BY <2>3 DEF Fails, Waits
    <3>2. x.by \in Callers
      BY <2>3 DEF Sound, Commands
    <3> QED BY <1>1, <3>1, <3>2, GivesUpActive
  <2> QED BY <2>1, <2>2, <2>3
<1>3. AnswersAreAwaited'
  <2>1. CASE call' = call
    BY <2>1 DEF AnswersAreAwaited
  <2>2. ASSUME NEW c \in Callers, NEW a \in {"none", "close"}, c = x.by,
               call' = [call EXCEPT ![c] = a], c = "stream" => a = "none"
        PROVE  AnswersAreAwaited'
    <3>1. NothingBy(c, stdin', stdout')
      BY <2>2
    <3>2. Awaiting(stdin', stdout', call')
      BY <1>1, <2>2, <3>1, WaitsAnew
    <3> QED BY <3>2 DEF AnswersAreAwaited
  <2> QED BY <1>2, <2>1, <2>2
<1>4. /\ call' \in [Callers -> Answers]
      /\ call'["reactor"] = "model" => call["reactor"] = "model"
  BY <1>1, <1>2 DEF Answers, Callers
<1>5. TypeOK'
  BY <1>1, <1>2, <1>4 DEF TypeOK
<1>6. turn'.armed => turn.armed /\ turn' = turn
  <2>1. None \in Turns \cup {None}
    OBVIOUS
  <2> QED BY <1>2, <2>1, FreshTurn
<1>7. NoProcess'
  BY DEF Core, NoProcess
<1>8. RunsAreOfTurns'
  BY <1>6 DEF Core, RunsAreOfTurns
<1>9. TurnsAreBegun'
  <2>1. TurnsAreBegun /\ {turn.id, None, last, pi.run} \subseteq Turns \cup {None}
    BY CoreFacts DEF Core
  <2>2. \E i \in {turn.id, None} : turn'.id = i /\ Begun(i)
    BY <1>2, <2>1, FreshTurn, CoreFacts DEF Begun
  <2>3. \A line \in Range(stdout') : line \in Range(stdout)
    OBVIOUS
  <2>4. call'["reactor"] = "model" => NextTurn \in Turns
    BY <1>4, CoreFacts
  <2> QED BY <1>1, <1>2, <2>1, <2>2, <2>3, <2>4, CoreFacts, StillBegun
<1> QED BY <1>3, <1>5, <1>7, <1>8, <1>9 DEF Core

\* What reading a line does to the pipes.
LEMMA ReadsLine ==
    ASSUME Core, stdout # <<>>
    PROVE  /\ session # "none" /\ Head(stdout) \in Lines /\ Head(stdout) \in Range(stdout)
           /\ Tail(stdout) \in Seq(Lines) /\ Range(Tail(stdout)) \subseteq Range(stdout)
           /\ Awaiting(stdin, Tail(stdout), call)
           /\ Head(stdout).to \in Commands
           /\ Sound(Head(stdout).to) /\ Awaited(Head(stdout).to, call)
           /\ Begun(Head(stdout).turn) /\ Begun(Head(stdout).to.turn)
           /\ Head(stdout).to.by \in Callers =>
                 NothingBy(Head(stdout).to.by, stdin, Tail(stdout))
           /\ \A command \in Range(stdin) : command \in Commands
<1>1. session # "none"
  BY DEF Core, NoProcess
<1>2. /\ Head(stdout) \in Lines /\ Head(stdout) \in Range(stdout)
      /\ Tail(stdout) \in Seq(Lines) /\ Range(Tail(stdout)) \subseteq Range(stdout)
  BY CoreFacts, Taken
<1>3. /\ Awaiting(stdin, Tail(stdout), call)
      /\ Sound(Head(stdout).to) /\ Awaited(Head(stdout).to, call)
      /\ Head(stdout).to.by \in Callers => NothingBy(Head(stdout).to.by, stdin, Tail(stdout))
  BY CoreFacts, Reads
<1>4. Begun(Head(stdout).turn) /\ Begun(Head(stdout).to.turn)
  BY <1>2 DEF Core, TurnsAreBegun
<1>5. Head(stdout).to \in Commands
  BY <1>2 DEF Lines
<1>6. \A command \in Range(stdin) : command \in Commands
  BY CoreFacts, InPipe
<1> QED BY <1>1, <1>2, <1>3, <1>4, <1>5, <1>6

\* A look that is answered ends its turn, or the quiet period begins anew.
LEMMA LookAnsweredCore ==
    ASSUME Core, session # "none",
           NEW x \in Commands, Sound(x), x.by = "timer", Begun(x.turn),
           NEW idle, LookAnswered(x, idle),
           stdout' \in Seq(Lines), Range(stdout') \subseteq Range(stdout),
           Awaiting(stdin, stdout', call),
           UNCHANGED <<session, queued, pi, worked, filed, budget, stdin, call>>
    PROVE  Core'
<1>1. /\ x.turn \in Turns /\ x.state \in States
  BY DEF Sound, Commands, Callers
<1>2. /\ turn' \in TurnStates
      /\ turn'.id = turn.id \/ turn'.id = None
      /\ turn'.armed => turn'.id # None /\ turn'.pending # "none"
      /\ tools' \in BOOLEAN /\ told' \in [Turns -> Accounts]
      /\ \A t \in Turns : told'[t].opened = told[t].opened
      /\ last' = last \/ last' = x.turn
      /\ races' = races \/ races' = races \cup {"stale_look"}
  <2>1. CASE idle /\ ~queued /\ ~tools
    <3>1. /\ told' = Ended(x.turn, x.state) /\ last' = x.turn /\ turn' = Idle /\ tools' = FALSE
          /\ races' = races \cup (IF turn.id = x.turn THEN {} ELSE {"stale_look"})
      BY <2>1 DEF LookAnswered, EndByLook
    <3> DEFINE t == x.turn
               state == x.state
    <3>2. t \in Turns /\ state \in States /\ told' = Ended(t, state)
      BY <1>1, <3>1
    <3> HIDE DEF t, state
    <3>3. /\ told' \in [Turns -> Accounts]
          /\ \A u \in Turns : told'[u].opened = told[u].opened
      BY <3>2, CoreFacts, EndedFields
    <3>4. None \in Turns \cup {None}
      OBVIOUS
    <3> QED BY <3>1, <3>3, <3>4, FreshTurn
  <2>2. CASE ~(idle /\ ~queued /\ ~tools)
    <3>1. turn' = Schedule(turn, x.state) /\ UNCHANGED <<told, last, tools, races>>
      BY <2>2 DEF LookAnswered
    <3> QED BY <1>1, <3>1, CoreFacts, Schedules DEF TypeOK
  <2> QED BY <2>1, <2>2
<1>3. TypeOK'
  BY <1>1, <1>2, CoreFacts DEF TypeOK
<1>4. NoProcess' /\ RunsAreOfTurns' /\ AnswersAreAwaited'
  BY <1>2 DEF Core, NoProcess, RunsAreOfTurns, AnswersAreAwaited
<1>5. TurnsAreBegun'
  <2>1. TurnsAreBegun /\ {turn.id, None, last, x.turn, pi.run} \subseteq Turns \cup {None}
    BY <1>1, CoreFacts DEF Core
  <2>2. \E i \in {turn.id, None} : turn'.id = i /\ Begun(i)
    BY <1>2, CoreFacts DEF Begun
  <2>3. \E l \in {last, x.turn} : last' = l /\ Begun(l)
    BY <1>2, CoreFacts
  <2>4. \A line \in Range(stdout') : line \in Range(stdout)
    OBVIOUS
  <2> QED BY <1>2, <2>1, <2>2, <2>3, <2>4, CoreFacts, StillBegun
<1> QED BY <1>3, <1>4, <1>5 DEF Core

\* Only the pipe out of the process, and what a caller waits for, change.
LEMMA CallChangesCore ==
    ASSUME Core, session # "none",
           stdout' \in Seq(Lines), Range(stdout') \subseteq Range(stdout),
           Awaiting(stdin, stdout', call'), call' \in [Callers -> Answers],
           call'["reactor"] = "model" => call["reactor"] = "model",
           UNCHANGED <<session, turn, last, tools, queued, pi, stdin, told, worked, filed, races,
                       budget>>
    PROVE  Core'
<1>1. TypeOK'
  BY CoreFacts DEF TypeOK
<1>2. NoProcess' /\ RunsAreOfTurns' /\ AnswersAreAwaited'
  BY DEF Core, NoProcess, RunsAreOfTurns, AnswersAreAwaited
<1>3. TurnsAreBegun'
  <2>1. TurnsAreBegun /\ {turn.id, last, pi.run} \subseteq Turns \cup {None}
    BY CoreFacts DEF Core
  <2>2. \A line \in Range(stdout') : line \in Range(stdout)
    OBVIOUS
  <2> QED BY <2>1, <2>2, CoreFacts, StillBegun
<1> QED BY <1>1, <1>2, <1>3 DEF Core

LEMMA ReadAnswerCore == ASSUME Core, ReadAnswer PROVE Core'
<1> DEFINE x == Head(stdout).to
           ok == Head(stdout).ok
           begins == x.kind = "model" /\ ok
           accepted == x.kind \in {"prompt", "steer"} /\ ok
<1>1. /\ stdout # <<>> /\ stdout' = Tail(stdout)
      /\ UNCHANGED <<session, queued, pi, worked, filed, budget>>
      /\ \/ x.by = "none" /\ UNCHANGED <<stdin, turn, last, tools, told, races, call>>
         \/ x.by = "timer" /\ LookAnswered(x, ok) /\ UNCHANGED <<call, stdin>>
         \/ x.by \in Callers /\ begins /\ BeginTurn(x.by)
         \/ /\ x.by \in Callers /\ accepted
            /\ Waits(x.by, "none")
            /\ UNCHANGED <<stdin, turn, last, tools, told, races>>
         \/ x.by \in Callers /\ ~begins /\ ~accepted /\ Fails(x) /\ UNCHANGED stdin
  BY DEF ReadAnswer, Unspent
<1>2. /\ session # "none" /\ x \in Commands /\ Sound(x) /\ Awaited(x, call) /\ Begun(x.turn)
      /\ stdout' \in Seq(Lines) /\ Range(stdout') \subseteq Range(stdout)
      /\ Awaiting(stdin, stdout', call)
      /\ x.by \in Callers => NothingBy(x.by, stdin, stdout')
      /\ \A command \in Range(stdin) : command \in Commands
  BY <1>1, ReadsLine
<1> HIDE DEF x, ok
<1>3. CASE x.by = "none" /\ UNCHANGED <<stdin, turn, last, tools, told, races, call>>
  BY <1>1, <1>2, <1>3, CoreFacts, CallChangesCore
<1>4. CASE x.by = "timer" /\ LookAnswered(x, ok) /\ UNCHANGED <<call, stdin>>
  BY <1>1, <1>2, <1>4, LookAnsweredCore
<1>5. CASE x.by \in Callers /\ begins /\ BeginTurn(x.by)
  <2>1. x.by = "reactor" /\ call["reactor"] = "model"
    BY <1>2, <1>5, CoreFacts DEF Awaited, Awaiting, Callers
  <2>2. NextTurn \in Turns
    BY <2>1, CoreFacts
  <2> QED BY <1>1, <1>2, <1>5, <2>1, <2>2, BeginsTurn
<1>6. CASE /\ x.by \in Callers /\ accepted
           /\ Waits(x.by, "none")
           /\ UNCHANGED <<stdin, turn, last, tools, told, races>>
  <2>1. call' = [call EXCEPT ![x.by] = "none"]
    BY <1>6 DEF Waits
  <2>2. Awaiting(stdin, stdout', call')
    BY <1>2, <1>6, <2>1, CoreFacts, WaitsAnew
  <2>3. /\ call' \in [Callers -> Answers]
        /\ call'["reactor"] = "model" => call["reactor"] = "model"
    BY <1>6, <2>1, CoreFacts DEF Answers, Callers
  <2> QED BY <1>1, <1>2, <1>6, <2>2, <2>3, CallChangesCore
<1>7. CASE x.by \in Callers /\ Fails(x) /\ UNCHANGED stdin
  <2>1. stdin' = stdin /\ x.by # "none" /\ budget' \in [Kinds -> Nat]
    BY <1>1, <1>7, CoreFacts DEF Callers, TypeOK
  <2> QED BY <1>1, <1>2, <1>7, <2>1, CoreFacts, FailsCore
<1> QED BY <1>1, <1>3, <1>4, <1>5, <1>6, <1>7

LEMMA TimeOutCore == ASSUME Core, TimeOut PROVE Core'
<1>1. PICK k \in 1 .. Len(stdin) :
         /\ stdin[k].by # "none"
         /\ stdin' = [stdin EXCEPT ![k].by = "none"]
         /\ Fails(stdin[k])
  BY DEF TimeOut
<1>2. UNCHANGED <<session, queued, pi, stdout, worked, filed>>
  BY DEF TimeOut
<1>3. budget' \in [Kinds -> Nat]
  BY DEF TimeOut, Spend, Core, TypeOK, Kinds
<1> DEFINE x == stdin[k]
           y == [x EXCEPT !.by = "none"]
<1>4. x \in Commands /\ x \in Range(stdin)
  BY CoreFacts, InPipe
<1>5. Sound(x) /\ Awaited(x, call) /\ Begun(x.turn)
  BY <1>4, CoreFacts DEF Awaiting, Core, TurnsAreBegun
<1>6. session # "none"
  <2>1. stdin # <<>>
    BY CoreFacts
  <2> QED BY <2>1 DEF Core, NoProcess
<1>7. /\ stdin' \in Seq(Commands)
      /\ \A command \in Range(stdin') : command \in Range(stdin) \/ command = y
      /\ Awaiting(stdin', stdout, call)
      /\ x.by \in Callers => NothingBy(x.by, stdin', stdout)
  BY <1>1, CoreFacts, GivesUp
<1>8. y \in Commands /\ y.turn = x.turn
  BY <1>4 DEF Commands
<1> HIDE DEF x, y
<1>9. \A command \in Range(stdin') :
         command \in Range(stdin) \/ (command \in Commands /\ Begun(command.turn))
  BY <1>5, <1>7, <1>8
<1>10. Fails(x) /\ x.by # "none"
  BY <1>1 DEF x
<1> QED BY <1>2, <1>3, <1>4, <1>5, <1>6, <1>7, <1>9, <1>10, CoreFacts, FailsCore

\* The turn that a line finds, and what it makes of it.
Reopens(line) == StaysOpen(line) /\ turn.id = None /\ last # None
Found(line) == IF Reopens(line) THEN Fresh(last) ELSE turn
Kept(line) == IF StaysOpen(line) /\ Found(line).pending # "none"
              THEN Schedule(Found(line), Found(line).pending) ELSE Found(line)

LEMMA ReadLineFacts ==
    ASSUME Core, ReadLine
    PROVE  LET line == Head(stdout)
           IN  /\ stdout # <<>> /\ line.kind # "answer" /\ stdout' = Tail(stdout)
               /\ turn' \in TurnStates /\ turn'.id = Kept(line).id
               /\ Kept(line).id = IF Reopens(line) THEN last ELSE turn.id
               /\ turn'.armed => turn'.id # None /\ turn'.pending # "none"
               /\ told' = IF Reopens(line) THEN Opened(last) ELSE told
               /\ tools' \in BOOLEAN /\ queued' \in BOOLEAN
               /\ filed' = IF line.kind \in Output /\ Kept(line).id # line.turn
                           THEN filed \cup {<<line.turn, Kept(line).id, line.late>>} ELSE filed
               /\ races' = races \/ races' = races \cup {"reopened_by_notice"}
               /\ UNCHANGED <<session, last, call, pi, stdin, worked, budget>>
<1> DEFINE line == Head(stdout)
           found == Found(line)
           kept == Kept(line)
<1>1. /\ stdout # <<>> /\ line.kind # "answer" /\ stdout' = Tail(stdout)
      /\ turn' = CASE line.kind = "failure" /\ kept.id # None -> [kept EXCEPT !.failed = TRUE]
                   [] line.kind = "terminal" -> Schedule(kept, Outcome(kept))
                   [] OTHER -> kept
      /\ told' = (IF Reopens(line) THEN Opened(last) ELSE told)
      /\ tools' = CASE line.kind = "tool" -> TRUE
                    [] line.kind = "toolEnd" -> FALSE
                    [] OTHER -> tools
      /\ queued' = (IF line.kind \in {"queued", "drained"} THEN line.kind = "queued" ELSE queued)
      /\ filed' = (IF line.kind \in Output /\ kept.id # line.turn
                   THEN filed \cup {<<line.turn, kept.id, line.late>>} ELSE filed)
      /\ races' = (IF Reopens(line) /\ line.kind = "notice"
                   THEN races \cup {"reopened_by_notice"} ELSE races)
      /\ UNCHANGED <<session, last, call, pi, stdin, worked, budget>>
  BY DEF ReadLine, Reopens, Found, Kept, Unspent
<1>2. /\ found \in TurnStates /\ found.id = (IF Reopens(line) THEN last ELSE turn.id)
      /\ found.armed => found.id # None /\ found.pending # "none"
  BY CoreFacts, FreshTurn DEF Found
<1> HIDE DEF found
<1>3. /\ kept \in TurnStates /\ kept.id = found.id
      /\ kept.armed => kept.id # None /\ kept.pending # "none"
  <2>1. CASE StaysOpen(line) /\ found.pending # "none"
    <3>1. kept = Schedule(found, found.pending)
      BY <2>1 DEF Kept, found
    <3>2. found.pending \in States
      BY <1>2, <2>1 DEF TurnStates
    <3> HIDE DEF kept
    <3> QED BY <1>2, <3>1, <3>2, Schedules
  <2>2. CASE ~(StaysOpen(line) /\ found.pending # "none")
    <3>1. kept = found
      BY <2>2 DEF Kept, found
    <3> QED BY <1>2, <3>1
  <2> QED BY <2>1, <2>2
<1> HIDE DEF kept
<1>4. /\ turn' \in TurnStates /\ turn'.id = kept.id
      /\ turn'.armed => turn'.id # None /\ turn'.pending # "none"
  <2>1. CASE line.kind = "failure" /\ kept.id # None
    <3>1. turn' = [kept EXCEPT !.failed = TRUE]
      BY <1>1, <2>1
    <3> QED BY <1>3, <3>1 DEF TurnStates
  <2>2. CASE line.kind = "terminal"
    <3>1. turn' = Schedule(kept, Outcome(kept))
      BY <1>1, <2>2
    <3>2. Outcome(kept) \in States
      BY DEF Outcome, States
    <3> QED BY <1>3, <3>1, <3>2, Schedules
  <2>3. CASE ~(line.kind = "failure" /\ kept.id # None) /\ line.kind # "terminal"
    <3>1. turn' = kept
      BY <1>1, <2>3
    <3> QED BY <1>3, <3>1
  <2> QED BY <2>1, <2>2, <2>3
<1>5. tools' \in BOOLEAN /\ queued' \in BOOLEAN
  <2>1. tools \in BOOLEAN /\ queued \in BOOLEAN
    BY DEF Core, TypeOK
  <2>2. tools' \in {TRUE, FALSE, tools}
    BY <1>1
  <2> QED BY <1>1, <2>1, <2>2
<1>6. races' = races \/ races' = races \cup {"reopened_by_notice"}
  BY <1>1
<1> QED BY <1>1, <1>2, <1>3, <1>4, <1>5, <1>6 DEF kept

LEMMA ReadLineCore == ASSUME Core, ReadLine PROVE Core'
<1> DEFINE line == Head(stdout)
           id == Kept(line).id
<1>1. /\ stdout # <<>> /\ line.kind # "answer" /\ stdout' = Tail(stdout)
      /\ turn' \in TurnStates /\ turn'.id = id
      /\ id = (IF Reopens(line) THEN last ELSE turn.id)
      /\ turn'.armed => turn'.id # None /\ turn'.pending # "none"
      /\ told' = (IF Reopens(line) THEN Opened(last) ELSE told)
      /\ tools' \in BOOLEAN /\ queued' \in BOOLEAN
      /\ filed' = (IF line.kind \in Output /\ id # line.turn
                   THEN filed \cup {<<line.turn, id, line.late>>} ELSE filed)
      /\ races' = races \/ races' = races \cup {"reopened_by_notice"}
      /\ UNCHANGED <<session, last, call, pi, stdin, worked, budget>>
  BY ReadLineFacts
<1>2. /\ session # "none" /\ line \in Lines /\ line \in Range(stdout)
      /\ stdout' \in Seq(Lines) /\ Range(stdout') \subseteq Range(stdout)
      /\ Awaiting(stdin, stdout', call)
  BY <1>1, ReadsLine
<1> HIDE DEF line, id
<1>3. /\ TypeOK /\ turn.id \in Turns \cup {None} /\ last \in Turns \cup {None}
      /\ told \in [Turns -> Accounts] /\ Begun(turn.id) /\ Begun(last)
  BY CoreFacts
<1>4. /\ told' \in [Turns -> Accounts]
      /\ \A t \in Turns : told'[t].opened > 0 <=> told[t].opened > 0
  <2>1. CASE Reopens(line)
    <3>1. last \in Turns /\ told' = Opened(last) /\ told[last].opened > 0
      BY <1>1, <1>3, <2>1 DEF Reopens, Begun
    <3>2. /\ told' \in [Turns -> Accounts]
          /\ \A t \in Turns : t # last => told'[t] = told[t]
          /\ told[last].opened \in Nat /\ told'[last].opened = told[last].opened + 1
      BY <1>3, <3>1, OpenedFields
    <3>3. told'[last].opened > 0
      BY <3>2
    <3> QED BY <3>1, <3>2, <3>3
  <2>2. CASE ~Reopens(line)
    BY <1>1, <1>3, <2>2
  <2> QED BY <2>1, <2>2
<1>5. filed' \subseteq (Turns \X (Turns \cup {None}) \X BOOLEAN)
  <2>1. line.turn \in Turns /\ line.late \in BOOLEAN
    BY <1>1, <1>2 DEF Core, RunsAreOfTurns, Lines
  <2>2. id \in Turns \cup {None} /\ filed \subseteq (Turns \X (Turns \cup {None}) \X BOOLEAN)
    BY <1>1, <1>3 DEF TypeOK
  <2> QED BY <1>1, <2>1, <2>2
<1>6. TypeOK'
  BY <1>1, <1>2, <1>3, <1>4, <1>5 DEF TypeOK
<1>7. NoProcess' /\ RunsAreOfTurns' /\ AnswersAreAwaited'
  BY <1>1, <1>2 DEF Core, NoProcess, RunsAreOfTurns, AnswersAreAwaited
<1>8. TurnsAreBegun'
  <2>1. TurnsAreBegun /\ {turn.id, last, pi.run} \subseteq Turns \cup {None}
    BY CoreFacts DEF Core
  <2>2. \E i \in {turn.id, last} : turn'.id = i /\ Begun(i)
    BY <1>1, <1>3
  <2>3. \A x \in Range(stdout') : x \in Range(stdout)
    BY <1>2
  <2> QED BY <1>1, <1>4, <2>1, <2>2, <2>3, CoreFacts, StillBegun
<1> QED BY <1>6, <1>7, <1>8 DEF Core

LEMMA ProcessExitsCore == ASSUME Core, ProcessExits PROVE Core'
<1>1. /\ pi' = [state |-> "none", run |-> None, backlog |-> 0, tool |-> FALSE]
      /\ session' = "none" /\ stdin' = <<>> /\ stdout' = <<>>
      /\ call' = [c \in Callers |-> "none"] /\ turn' = Idle
      /\ told' = (IF turn.id = None THEN told
                  ELSE Ended(turn.id, IF turn.aborted THEN "interrupted" ELSE "failed"))
      /\ tools' = FALSE
      /\ UNCHANGED <<last, queued, worked, filed, races>>
  BY DEF ProcessExits
<1>2. budget' \in [Kinds -> Nat]
  BY DEF ProcessExits, Unspent, Spend, Core, TypeOK, Kinds
<1>3. /\ turn.id \in Turns \cup {None} /\ told \in [Turns -> Accounts]
      /\ TypeOK /\ Begun(last) /\ last \in Turns \cup {None}
  BY CoreFacts
<1>4. /\ told' \in [Turns -> Accounts]
      /\ \A t \in Turns : told'[t].opened = told[t].opened
  <2>1. CASE turn.id = None
    BY <1>1, <1>3, <2>1
  <2>2. CASE turn.id # None
    <3> DEFINE t == turn.id
               state == IF turn.aborted THEN "interrupted" ELSE "failed"
    <3>1. t \in Turns /\ state \in States /\ told' = Ended(t, state)
      BY <1>1, <1>3, <2>2 DEF States
    <3> HIDE DEF t, state
    <3>2. /\ told' \in [Turns -> Accounts]
          /\ \A u \in Turns : u # t => told'[u] = told[u]
          /\ told'[t].opened = told[t].opened
      BY <1>3, <3>1, EndedFields
    <3> QED BY <3>2
  <2> QED BY <2>1, <2>2
<1>5. turn' \in TurnStates /\ turn'.id = None /\ ~turn'.armed
  <2>1. None \in Turns \cup {None}
    OBVIOUS
  <2> QED BY <1>1, <2>1, FreshTurn
<1>6. /\ stdin' \in Seq(Commands) /\ stdout' \in Seq(Lines)
      /\ Range(stdin') = {} /\ Range(stdout') = {} /\ Len(stdin') = 0 /\ Len(stdout') = 0
  BY <1>1 DEF Range
<1>7. call' \in [Callers -> Answers] /\ \A c \in Callers : call'[c] = "none"
  BY <1>1 DEF Answers
<1>8. /\ pi' \in [state : {"none", "idle", "busy"}, run : Turns \cup {None}, backlog : Nat,
                  tool : BOOLEAN]
      /\ pi'.state = "none" /\ pi'.run = None /\ ~pi'.tool
  BY <1>1
<1>9. TypeOK'
  BY <1>1, <1>2, <1>3, <1>4, <1>5, <1>6, <1>7, <1>8 DEF TypeOK
<1>10. NoProcess' /\ RunsAreOfTurns'
  BY <1>1, <1>5, <1>6, <1>7, <1>8 DEF NoProcess, RunsAreOfTurns
<1>11. AnswersAreAwaited'
  <2>1. Range(Asked(stdout')) = {} /\ Len(Asked(stdout')) = 0
    <3>1. Len(Asked(stdout')) = Len(stdout')
          /\ \A x \in Range(Asked(stdout')) : \E i \in 1 .. Len(stdout') : x = stdout'[i].to
      BY <1>6, AskedOf
    <3> QED BY <1>6, <3>1
  <2>2. OneOfEach(stdin') /\ OneOfEach(Asked(stdout'))
    BY <1>6, <2>1 DEF OneOfEach
  <2>3. call'["stream"] = "none"
    BY <1>7 DEF Callers
  <2> QED BY <1>6, <2>1, <2>2, <2>3 DEF AnswersAreAwaited, Awaiting
<1>12. TurnsAreBegun'
  <2>1. TurnsAreBegun /\ {None, last} \subseteq Turns \cup {None} /\ Begun(None)
    BY <1>3 DEF Core, Begun
  <2>2. call'["reactor"] # "model"
    BY <1>7 DEF Callers
  <2> QED BY <1>1, <1>3, <1>4, <1>5, <1>6, <1>8, <2>1, <2>2, CoreFacts, StillBegun
<1> QED BY <1>9, <1>10, <1>11, <1>12 DEF Core

-----------------------------------------------------------------------------
(* What the process does.                                                    *)

Processes == [state : {"none", "idle", "busy"}, run : Turns \cup {None}, backlog : Nat,
              tool : BOOLEAN]

\* The process goes on: what it has worked for, and works for, stays so.
GoesOn ==
    /\ pi' \in Processes /\ pi'.state # "none"
    /\ pi'.state = "busy" => pi'.run # None
    /\ pi'.tool => pi'.state = "busy"
    /\ worked \subseteq worked' /\ worked' \subseteq Turns
    /\ \A t \in Turns : Works(t) => Works(t)'
    /\ budget' \in [Kinds -> Nat]

LEMMA Spent ==
    ASSUME budget \in [Kinds -> Nat],
           UNCHANGED budget \/ \E what \in Kinds : Spend(what)
    PROVE  budget' \in [Kinds -> Nat]
BY DEF Spend

LEMMA TwoLines ==
    ASSUME NEW a \in Lines, NEW b \in Lines
    PROVE  <<a, b>> \in Seq(Lines) /\ Len(<<a, b>>) = 2 /\ <<a, b>>[1] = a /\ <<a, b>>[2] = b
<1> HIDE DEF Lines
<1> QED OBVIOUS

LEMMA OneRemark ==
    ASSUME NEW o \in Seq(Lines), NEW run \in Turns,
           NEW kind \in Output \cup {"terminal", "queued", "drained"}
    PROVE  LET new == o \o <<Line(kind, run)>> IN Remarks(o, new, Len(new), run)
<1> DEFINE lines == <<Line(kind, run)>>
<1>1. Remark(Line(kind, run), run)
  BY LineFields
<1>2. lines \in Seq(Lines) /\ Len(lines) = 1 /\ lines[1] = Line(kind, run)
  BY <1>1 DEF Remark
<1> HIDE DEF lines
<1>3. 1 \in 0 .. Len(lines) /\ \A k \in 1 .. 1 : Remark(lines[k], run)
  BY <1>1, <1>2
<1>4. Remarks(o, o \o lines, Len(o) + 1, run) /\ Len(o \o lines) = Len(o) + Len(lines)
  BY <1>2, <1>3, Speaks
<1> QED BY <1>2, <1>4 DEF lines

\* It works, ends a tool or a run, or says something of its own accord.
LEMMA SpeaksFreely ==
    ASSUME Core, Work \/ EndTool \/ FinishRun \/ SpeakLate
    PROVE  /\ ProcessOnly /\ stdin' = stdin
           /\ pi.run \in Turns /\ pi'.run = pi.run /\ pi.state # "none"
           /\ Remarks(stdout, stdout', Len(stdout'), pi.run)
           /\ GoesOn
<1>1. /\ pi \in Processes /\ worked \subseteq Turns /\ budget \in [Kinds -> Nat]
      /\ stdout \in Seq(Lines)
      /\ pi.state = "busy" => pi.run # None
      /\ pi.tool => pi.state = "busy"
  BY DEF Core, TypeOK, RunsAreOfTurns, Processes
<1>2. pi.run \in Turns /\ pi.state # "none" /\ stdin' = stdin /\ ProcessOnly
  BY <1>1 DEF Work, EndTool, FinishRun, SpeakLate, Processes
<1>3. budget' \in [Kinds -> Nat]
  <2>1. UNCHANGED budget \/ \E what \in Kinds : Spend(what)
    BY DEF Work, EndTool, FinishRun, SpeakLate, Unspent, Kinds
  <2> QED BY <1>1, <2>1, Spent
<1>4. \E kind \in Output \cup {"terminal", "queued", "drained"} :
         stdout' = stdout \o <<Line(kind, pi.run)>>
  <2>1. CASE Work
    BY <2>1 DEF Work, Says, Output
  <2>2. CASE EndTool
    BY <2>2 DEF EndTool, Says, Output
  <2>3. CASE FinishRun
    BY <2>3 DEF FinishRun, Says, Output
  <2>4. CASE SpeakLate
    BY <2>4 DEF SpeakLate, Says, Output
  <2> QED BY <2>1, <2>2, <2>3, <2>4
<1>5. Remarks(stdout, stdout', Len(stdout'), pi.run)
  BY <1>1, <1>2, <1>4, OneRemark
<1>6. /\ pi' \in Processes /\ pi'.state # "none" /\ pi'.run = pi.run
      /\ pi'.tool => pi'.state = "busy"
      /\ \/ UNCHANGED worked /\ (pi.state = "busy" => pi'.state = "busy")
         \/ worked' = worked \cup {pi.run}
  <2>1. CASE Work
    BY <1>1, <2>1 DEF Work, Processes
  <2>2. CASE EndTool
    BY <1>1, <2>2 DEF EndTool, Processes
  <2>3. CASE FinishRun
    <3>1. CASE pi.backlog > 0
      <4>1. pi' = [pi EXCEPT !.backlog = @ - 1] /\ UNCHANGED worked /\ pi.backlog - 1 \in Nat
        BY <1>1, <2>3, <3>1 DEF FinishRun, Processes
      <4> QED BY <1>1, <1>2, <4>1 DEF Processes
    <3>2. CASE ~(pi.backlog > 0)
      <4>1. pi' = [pi EXCEPT !.state = "idle"] /\ worked' = worked \cup {pi.run} /\ ~pi.tool
        BY <2>3, <3>2 DEF FinishRun
      <4> QED BY <1>1, <1>2, <4>1 DEF Processes
    <3> QED BY <3>1, <3>2
  <2>4. CASE SpeakLate
    BY <1>1, <2>4 DEF SpeakLate, Processes
  <2> QED BY <2>1, <2>2, <2>3, <2>4
<1>7. GoesOn
  <2>1. ASSUME NEW t \in Turns, Works(t) PROVE Works(t)'
    BY <1>6, <2>1 DEF Works
  <2>2. worked \subseteq worked' /\ worked' \subseteq Turns
    BY <1>1, <1>2, <1>6
  <2>3. pi'.run # None
    BY <1>2, <1>6, PiAssumption DEF Turns, None
  <2> QED BY <1>3, <1>6, <2>1, <2>2, <2>3 DEF GoesOn
<1> QED BY <1>2, <1>5, <1>6, <1>7

\* It takes a command and answers it: a prompt is begun or refused, and a look
\* finds it idle only when no run is going on.
LEMMA TakesCommand ==
    ASSUME Core, TakeCommand \/ RefuseModel
    PROVE  LET x == Head(stdin)
           IN  /\ ProcessOnly /\ stdin # <<>> /\ stdin' = Tail(stdin)
               /\ pi'.run \in {pi.run, x.turn}
               /\ pi'.run # pi.run => x.kind \in {"prompt", "steer"}
               /\ GoesOn
               /\ \E ok \in BOOLEAN :
                     /\ Remarks(stdout, stdout', Len(stdout') - 1, pi.run)
                     /\ stdout'[Len(stdout')] = Answer(x, ok)
                     /\ x.kind = "prompt" /\ ok => \A t \in Turns : t = x.turn => Works(t)'
                     /\ x.kind = "look" /\ ok => pi.state # "busy"
<1> DEFINE x == Head(stdin)
           busy == pi.state = "busy"
<1>1. /\ pi \in Processes /\ worked \subseteq Turns /\ budget \in [Kinds -> Nat]
      /\ stdout \in Seq(Lines) /\ stdin \in Seq(Commands)
      /\ pi.state = "busy" => pi.run # None
      /\ pi.tool => pi.state = "busy"
  BY DEF Core, TypeOK, RunsAreOfTurns, Processes
<1>2. stdin # <<>> /\ stdin' = Tail(stdin) /\ ProcessOnly
  BY DEF TakeCommand, RefuseModel
<1>3. x \in Commands /\ Sound(x)
  BY <1>1, <1>2, CoreFacts, Taken DEF Awaiting
<1>4. pi.state # "none"
  BY <1>2 DEF Core, NoProcess
<1>5. budget' \in [Kinds -> Nat]
  <2>1. UNCHANGED budget \/ \E what \in Kinds : Spend(what)
    BY DEF TakeCommand, RefuseModel, Unspent, Kinds
  <2> QED BY <1>1, <2>1, Spent
<1> HIDE DEF x
<1>6. ASSUME NEW lines \in Seq(Lines), NEW ok \in BOOLEAN, Len(lines) > 0,
             lines[Len(lines)] = Answer(x, ok),
             \A k \in 1 .. Len(lines) - 1 : Remark(lines[k], pi.run), Says(lines)
      PROVE  /\ Remarks(stdout, stdout', Len(stdout') - 1, pi.run)
             /\ stdout'[Len(stdout')] = Answer(x, ok)
  <2> DEFINE n == Len(lines) - 1
  <2>1. n \in 0 .. Len(lines) /\ Len(stdout) \in Nat /\ Len(lines) \in Nat
    BY <1>1, <1>6, InPipe
  <2>2. /\ Remarks(stdout, stdout', Len(stdout) + n, pi.run)
        /\ Len(stdout') = Len(stdout) + Len(lines)
        /\ stdout'[Len(stdout) + Len(lines)] = lines[Len(lines)]
    BY <1>1, <1>6, <2>1, Speaks DEF Says
  <2>3. Len(stdout) + n = Len(stdout') - 1
    BY <2>1, <2>2
  <2> QED BY <1>6, <2>2, <2>3
<1>7. ASSUME NEW ok \in BOOLEAN, Says(<<Answer(x, ok)>>)
      PROVE  /\ Remarks(stdout, stdout', Len(stdout') - 1, pi.run)
             /\ stdout'[Len(stdout')] = Answer(x, ok)
  <2> DEFINE lines == <<Answer(x, ok)>>
  <2>1. Answer(x, ok) \in Lines
    BY <1>3, AnswerFields
  <2>2. lines \in Seq(Lines) /\ Len(lines) = 1 /\ lines[1] = Answer(x, ok) /\ Says(lines)
    BY <1>7, <2>1
  <2> HIDE DEF lines
  <2> QED BY <1>6, <2>2
<1>8. CASE RefuseModel
  <2>1. Says(<<Answer(x, FALSE)>>) /\ x.kind = "model" /\ UNCHANGED <<pi, worked>>
    BY <1>8 DEF RefuseModel, x
  <2>2. GoesOn
    BY <1>1, <1>4, <1>5, <2>1 DEF GoesOn, Works
  <2> QED BY <1>2, <1>7, <2>1, <2>2 DEF x
<1>9. CASE TakeCommand
  <2> DEFINE A == IF pi.tool THEN <<Line("toolEnd", pi.run)>> ELSE <<>>
             B == IF pi.backlog > 0 THEN <<Line("drained", pi.run)>> ELSE <<>>
             C == <<Line("terminal", pi.run), Answer(x, TRUE)>>
             E == x.kind = "look" => ~busy
  <2>1. CASE x.kind \in {"prompt", "steer"} /\ ~busy
    <3>1. /\ pi' = [pi EXCEPT !.state = "busy", !.run = x.turn]
          /\ Says(<<Answer(x, TRUE)>>) /\ UNCHANGED worked
      BY <1>9, <2>1 DEF TakeCommand, x
    <3>2. x.turn \in Turns
      BY <1>3, <2>1 DEF Sound, Commands
    <3>3. pi' \in Processes /\ pi'.state = "busy" /\ pi'.run = x.turn /\ pi'.tool = pi.tool
      BY <1>1, <3>1, <3>2 DEF Processes
    <3>4. GoesOn /\ \A t \in Turns : t = x.turn => Works(t)'
      <4>1. x.turn # None
        BY <1>3, <2>1 DEF Sound
      <4>2. /\ \A t \in Turns : t = x.turn => Works(t)'
            /\ \A t \in Turns : Works(t) => Works(t)'
        BY <2>1, <3>1, <3>3 DEF Works
      <4>3. worked \subseteq worked' /\ worked' \subseteq Turns
        BY <1>1, <3>1
      <4> QED BY <1>5, <3>3, <4>1, <4>2, <4>3 DEF GoesOn
    <3> QED BY <1>2, <1>7, <2>1, <3>1, <3>3, <3>4 DEF x
  <2>2. CASE x.kind = "prompt" /\ busy
    <3>1. Says(<<Answer(x, FALSE)>>) /\ UNCHANGED <<pi, worked>>
      BY <1>9, <2>2 DEF TakeCommand, x
    <3>2. GoesOn
      BY <1>1, <1>4, <1>5, <3>1 DEF GoesOn, Works
    <3> QED BY <1>2, <1>7, <2>2, <3>1, <3>2 DEF x
  <2>3. CASE x.kind = "steer" /\ busy
    <3>1. /\ pi' = [pi EXCEPT !.backlog = @ + 1] /\ UNCHANGED worked
          /\ Says(<<Line("queued", pi.run), Answer(x, TRUE)>>)
      BY <1>9, <2>3 DEF TakeCommand, x
    <3>2. pi' \in Processes /\ pi'.state = pi.state /\ pi'.run = pi.run /\ pi'.tool = pi.tool
      <4>1. pi.backlog + 1 \in Nat
        BY <1>1 DEF Processes
      <4>2. pi' = [pi EXCEPT !.backlog = pi.backlog + 1]
        BY <3>1
      <4> QED BY <1>1, <4>1, <4>2 DEF Processes
    <3>3. GoesOn
      BY <1>1, <1>4, <1>5, <3>1, <3>2 DEF GoesOn, Works
    <3> DEFINE lines == <<Line("queued", pi.run), Answer(x, TRUE)>>
    <3>4. Remark(Line("queued", pi.run), pi.run) /\ Answer(x, TRUE) \in Lines
      <4>1. pi.run \in Turns
        BY <1>1, <2>3 DEF Processes
      <4> QED BY <1>3, <4>1, LineFields, AnswerFields
    <3>5. /\ lines \in Seq(Lines) /\ Len(lines) = 2 /\ lines[1] = Line("queued", pi.run)
          /\ lines[2] = Answer(x, TRUE) /\ Says(lines)
      BY <3>1, <3>4, TwoLines DEF Remark
    <3> HIDE DEF lines
    <3>6. \A k \in 1 .. Len(lines) - 1 : Remark(lines[k], pi.run)
      BY <3>4, <3>5
    <3>7. /\ Remarks(stdout, stdout', Len(stdout') - 1, pi.run)
          /\ stdout'[Len(stdout')] = Answer(x, TRUE)
      <4>1. Len(lines) > 0 /\ lines[Len(lines)] = Answer(x, TRUE)
        BY <3>5
      <4> QED BY <1>6, <3>5, <3>6, <4>1
    <3> QED BY <1>2, <2>3, <3>2, <3>3, <3>7 DEF x
  <2>4. CASE x.kind = "abort" /\ busy
    <3>1. /\ pi' = [pi EXCEPT !.state = "idle", !.backlog = 0, !.tool = FALSE]
          /\ Says(A \o B \o C) /\ worked' = worked \cup {pi.run}
      BY <1>9, <2>4 DEF TakeCommand, x
    <3>2. pi' \in Processes /\ pi'.state = "idle" /\ pi'.run = pi.run /\ ~pi'.tool
      BY <1>1, <3>1 DEF Processes
    <3>3. pi.run \in Turns
      BY <1>1, <2>4 DEF Processes
    <3>4. GoesOn
      BY <1>1, <1>5, <3>1, <3>2, <3>3 DEF GoesOn, Works
    <3>5. /\ \A kind \in {"toolEnd", "drained", "terminal"} : Remark(Line(kind, pi.run), pi.run)
          /\ Answer(x, TRUE) \in Lines
      BY <1>3, <3>3, LineFields, AnswerFields DEF Output
    <3>6. /\ A \in Seq(Lines) /\ Len(A) \in Nat /\ \A k \in 1 .. Len(A) : Remark(A[k], pi.run)
          /\ B \in Seq(Lines) /\ Len(B) \in Nat /\ \A k \in 1 .. Len(B) : Remark(B[k], pi.run)
          /\ C \in Seq(Lines) /\ Len(C) = 2 /\ Remark(C[1], pi.run) /\ C[2] = Answer(x, TRUE)
      <4>1. /\ Line("toolEnd", pi.run) \in Lines /\ Line("drained", pi.run) \in Lines
            /\ Line("terminal", pi.run) \in Lines
        BY <3>5 DEF Remark
      <4>2. A \in Seq(Lines) /\ Len(A) \in Nat /\ \A k \in 1 .. Len(A) : Remark(A[k], pi.run)
        BY <3>5, <4>1
      <4>3. B \in Seq(Lines) /\ Len(B) \in Nat /\ \A k \in 1 .. Len(B) : Remark(B[k], pi.run)
        BY <3>5, <4>1
      <4>4. C \in Seq(Lines) /\ Len(C) = 2 /\ Remark(C[1], pi.run) /\ C[2] = Answer(x, TRUE)
        BY <3>5, <4>1, TwoLines
      <4> QED BY <4>2, <4>3, <4>4
    <3> HIDE DEF A, B, C
    <3> DEFINE D == A \o B
               lines == D \o C
    <3>7. /\ D \in Seq(Lines) /\ Len(D) = Len(A) + Len(B)
          /\ \A k \in 1 .. Len(D) : Remark(D[k], pi.run)
      <4>1. /\ D \in Seq(Lines) /\ Len(D) = Len(A) + Len(B)
            /\ \A k \in 1 .. Len(A) + Len(B) : D[k] = IF k <= Len(A) THEN A[k] ELSE B[k - Len(A)]
        BY <3>6, ConcatProperties
      <4> HIDE DEF D
      <4>2. \A k \in 1 .. Len(D) : k <= Len(A) => D[k] = A[k] /\ k \in 1 .. Len(A)
        BY <3>6, <4>1
      <4>3. \A k \in 1 .. Len(D) : ~(k <= Len(A)) =>
               D[k] = B[k - Len(A)] /\ k - Len(A) \in 1 .. Len(B)
        BY <3>6, <4>1
      <4> QED BY <3>6, <4>1, <4>2, <4>3
    <3> HIDE DEF D
    <3>8. /\ lines \in Seq(Lines) /\ Len(lines) = Len(D) + 2 /\ Len(D) \in Nat
          /\ \A k \in 1 .. Len(lines) - 1 : Remark(lines[k], pi.run)
          /\ lines[Len(lines)] = Answer(x, TRUE)
      <4>1. /\ lines \in Seq(Lines) /\ Len(lines) = Len(D) + 2 /\ Len(D) \in Nat
            /\ \A k \in 1 .. Len(D) + 2 : lines[k] = IF k <= Len(D) THEN D[k] ELSE C[k - Len(D)]
        <5>1. Len(D) \in Nat
          BY <3>7, InPipe
        <5>2. /\ lines \in Seq(Lines) /\ Len(lines) = Len(D) + Len(C)
              /\ \A k \in 1 .. Len(D) + Len(C) :
                    lines[k] = IF k <= Len(D) THEN D[k] ELSE C[k - Len(D)]
          <6>1. D \in Seq(Lines) /\ C \in Seq(Lines)
            BY <3>6, <3>7
          <6> QED BY <6>1, ConcatProperties
        <5> HIDE DEF lines
        <5> QED BY <3>6, <5>1, <5>2
      <4> HIDE DEF lines
      <4>2. \A k \in 1 .. Len(D) : lines[k] = D[k]
        BY <4>1
      <4>3. lines[Len(D) + 1] = C[1] /\ lines[Len(D) + 2] = C[2]
        BY <4>1
      <4>4. \A k \in 1 .. Len(lines) - 1 : k \in 1 .. Len(D) \/ k = Len(D) + 1
        BY <4>1
      <4> QED BY <3>6, <3>7, <4>1, <4>2, <4>3, <4>4
    <3>9. Says(lines)
      BY <3>1 DEF D
    <3> HIDE DEF lines
    <3>10. /\ Remarks(stdout, stdout', Len(stdout') - 1, pi.run)
           /\ stdout'[Len(stdout')] = Answer(x, TRUE)
      <4>1. Len(lines) > 0
        BY <3>8
      <4> QED BY <1>6, <3>8, <3>9, <4>1
    <3> QED BY <1>2, <2>4, <3>2, <3>4, <3>10 DEF x
  <2>5. CASE x.kind \notin {"prompt", "steer"} /\ ~(x.kind = "abort" /\ busy)
    <3>1. Says(<<Answer(x, E)>>) /\ UNCHANGED <<pi, worked>>
      BY <1>9, <2>5 DEF TakeCommand, x
    <3>2. GoesOn
      BY <1>1, <1>4, <1>5, <3>1 DEF GoesOn, Works
    <3>3. E \in BOOLEAN /\ (x.kind = "look" /\ E => pi.state # "busy")
      OBVIOUS
    <3> HIDE DEF E
    <3>4. /\ Remarks(stdout, stdout', Len(stdout') - 1, pi.run)
          /\ stdout'[Len(stdout')] = Answer(x, E)
      BY <1>7, <3>1, <3>3
    <3> QED BY <1>2, <2>5, <3>1, <3>2, <3>3, <3>4 DEF x
  <2> QED BY <2>1, <2>2, <2>3, <2>4, <2>5
<1> QED BY <1>8, <1>9
\* The process has taken commands and said things; nothing else has changed.
LEMMA GoesOnCore ==
    ASSUME Core, GoesOn, ProcessOnly, pi.state # "none",
           stdin' \in Seq(Commands), Range(stdin') \subseteq Range(stdin),
           stdout' \in Seq(Lines), Awaiting(stdin', stdout', call),
           \A line \in Range(stdout') :
              \/ line \in Range(stdout) \/ Remark(line, pi.run)
              \/ /\ line \in Lines /\ line.kind = "answer" /\ line.turn = None
                 /\ Begun(line.to.turn),
           NEW r \in Turns \cup {None}, pi'.run = r, Begun(r)
    PROVE  Core'
<1>1. UNCHANGED <<session, turn, last, tools, queued, call, told, filed, races>>
  BY DEF ProcessOnly
<1>2. TypeOK'
  BY <1>1, CoreFacts DEF TypeOK, GoesOn, Processes
<1>3. NoProcess'
  BY <1>1 DEF Core, NoProcess, GoesOn
<1>4. RunsAreOfTurns'
  <2>1. \A line \in Range(stdout') : line.kind # "answer" => line.turn # None /\ line.to = NoCommand
    BY DEF Core, RunsAreOfTurns, Remark
  <2>2. turn'.armed => turn'.id # None /\ turn'.pending # "none"
    BY <1>1, CoreFacts
  <2> QED BY <2>1, <2>2 DEF RunsAreOfTurns, GoesOn
<1>5. AnswersAreAwaited'
  BY <1>1 DEF AnswersAreAwaited
<1>6. TurnsAreBegun'
  <2>1. TurnsAreBegun /\ {turn.id, last, r} \subseteq Turns \cup {None}
    BY CoreFacts DEF Core
  <2>2. \A command \in Range(stdin') : command \in Range(stdin)
    OBVIOUS
  <2>3. \A line \in Range(stdout') :
           line \in Range(stdout) \/ (line \in Lines /\ Begun(line.turn) /\ Begun(line.to.turn))
    <3> SUFFICES ASSUME NEW line \in Range(stdout'), line \notin Range(stdout)
                 PROVE  line \in Lines /\ Begun(line.turn) /\ Begun(line.to.turn)
      OBVIOUS
    <3>1. CASE Remark(line, pi.run)
      BY <3>1, CoreFacts, NoCommandFields DEF Remark, Begun
    <3>2. CASE ~Remark(line, pi.run)
      BY <3>2 DEF Begun
    <3> QED BY <3>1, <3>2
  <2> QED BY <1>1, <2>1, <2>2, <2>3, CoreFacts, StillBegun
<1> QED BY <1>2, <1>3, <1>4, <1>5, <1>6 DEF Core

LEMMA SpeaksFreelyCore ==
    ASSUME Core, Work \/ EndTool \/ FinishRun \/ SpeakLate
    PROVE  Core'
<1>1. /\ ProcessOnly /\ stdin' = stdin
      /\ pi.run \in Turns /\ pi'.run = pi.run /\ pi.state # "none"
      /\ Remarks(stdout, stdout', Len(stdout'), pi.run)
      /\ GoesOn
  BY SpeaksFreely
<1>2. /\ Awaiting(stdin, stdout', call) /\ stdout' \in Seq(Lines)
      /\ \A line \in Range(stdout') : line \in Range(stdout) \/ Remark(line, pi.run)
  BY <1>1, CoreFacts, HearsRemarks DEF Remarks
<1> QED BY <1>1, <1>2, CoreFacts, GoesOnCore

LEMMA TakesCommandCore ==
    ASSUME Core, TakeCommand \/ RefuseModel
    PROVE  Core'
<1> DEFINE x == Head(stdin)
<1>1. /\ ProcessOnly /\ stdin # <<>> /\ stdin' = Tail(stdin) /\ pi'.run \in {pi.run, x.turn}
      /\ GoesOn
      /\ \E ok \in BOOLEAN :
            /\ Remarks(stdout, stdout', Len(stdout') - 1, pi.run)
            /\ stdout'[Len(stdout')] = Answer(x, ok)
  BY TakesCommand
<1>2. PICK ok \in BOOLEAN :
         /\ Remarks(stdout, stdout', Len(stdout') - 1, pi.run)
         /\ stdout'[Len(stdout')] = Answer(x, ok)
  BY <1>1
<1>3. /\ Awaiting(stdin', stdout', call) /\ stdout' \in Seq(Lines)
      /\ \A line \in Range(stdout') :
            line \in Range(stdout) \/ Remark(line, pi.run) \/ line = Answer(x, ok)
  BY <1>1, <1>2, CoreFacts, HearsAnswer DEF Remarks
<1>4. /\ x \in Commands /\ x \in Range(stdin) /\ x.turn \in Turns \cup {None} /\ Begun(x.turn)
      /\ stdin' \in Seq(Commands) /\ Range(stdin') \subseteq Range(stdin)
  <2>1. /\ x \in Commands /\ x \in Range(stdin)
        /\ stdin' \in Seq(Commands) /\ Range(stdin') \subseteq Range(stdin)
    BY <1>1, CoreFacts, Taken
  <2>2. Begun(x.turn)
    BY <2>1 DEF Core, TurnsAreBegun
  <2>3. x.turn \in Turns \cup {None}
    BY <2>1 DEF Commands
  <2> QED BY <2>1, <2>2, <2>3
<1> HIDE DEF x
<1>5. /\ Answer(x, ok) \in Lines /\ Answer(x, ok).kind = "answer" /\ Answer(x, ok).turn = None
      /\ Answer(x, ok).to = x
  BY <1>4, AnswerFields
<1>6. pi.state # "none"
  BY <1>1 DEF Core, NoProcess
<1>7. \A line \in Range(stdout') :
         \/ line \in Range(stdout) \/ Remark(line, pi.run)
         \/ /\ line \in Lines /\ line.kind = "answer" /\ line.turn = None
            /\ Begun(line.to.turn)
  BY <1>3, <1>4, <1>5
<1>8. \E r \in Turns \cup {None} : pi'.run = r /\ Begun(r)
  BY <1>1, <1>4, CoreFacts
<1> QED BY <1>1, <1>3, <1>4, <1>6, <1>7, <1>8, GoesOnCore

LEMMA NextCore == ASSUME Core, Next PROVE Core'
BY StartSessionCore, SendWithModelCore, SteerCore, InterruptCore, StopSessionCore, SendCore,
   QuietPeriodOverCore, ReadAnswerCore, ReadLineCore, TimeOutCore, ProcessExitsCore,
   SpeaksFreelyCore, TakesCommandCore DEF Next, Process
-----------------------------------------------------------------------------
(* What the listeners are told of the turns.                                 *)

LEMMA ShownStays ==
    ASSUME Shown, told' = told, turn'.id = turn.id
    PROVE  Shown'
BY DEF Shown, Running

LEMMA ShownOpens ==
    ASSUME Core, Shown, turn.id = None, NEW t \in Turns, told' = Opened(t), turn'.id = t
    PROVE  Shown'
<1>1. /\ told' \in [Turns -> Accounts]
      /\ \A u \in Turns : u # t => told'[u] = told[u]
      /\ told[t].opened \in Nat /\ told'[t].opened = told[t].opened + 1
      /\ told'[t].ended = told[t].ended
  BY CoreFacts, OpenedFields
<1>2. \A u \in Turns : told[u].opened \in Nat /\ told[u].ended \in Nat /\ u # None
  BY CoreFacts DEF Accounts, Turns, None
<1>3. told[t].opened = told[t].ended
  BY <1>2 DEF Shown, Running
<1>4. ASSUME NEW u \in Turns
      PROVE  /\ told'[u].opened = told'[u].ended \/ told'[u].opened = told'[u].ended + 1
             /\ Running(u)' <=> u = t
  <2>1. CASE u = t
    BY <1>1, <1>2, <1>3, <2>1 DEF Running
  <2>2. CASE u # t
    BY <1>1, <1>2, <1>4, <2>2 DEF Running, Shown
  <2> QED BY <2>1, <2>2
<1> QED BY <1>4 DEF Shown, Running

LEMMA ShownEnds ==
    ASSUME Core, Shown, NEW t \in Turns, turn.id = t, NEW state \in States,
           told' = Ended(t, state), turn'.id = None
    PROVE  Shown'
<1>1. /\ told' \in [Turns -> Accounts]
      /\ \A u \in Turns : u # t => told'[u] = told[u]
      /\ told[t].ended \in Nat /\ told'[t].ended = told[t].ended + 1
      /\ told'[t].opened = told[t].opened
  BY CoreFacts, EndedFields
<1>2. \A u \in Turns : told[u].opened \in Nat /\ told[u].ended \in Nat /\ u # None
  BY CoreFacts DEF Accounts, Turns, None
<1>3. told[t].opened = told[t].ended + 1
  BY <1>2 DEF Shown, Running
<1>4. ASSUME NEW u \in Turns
      PROVE  /\ told'[u].opened = told'[u].ended \/ told'[u].opened = told'[u].ended + 1
             /\ ~Running(u)'
  <2>1. CASE u = t
    BY <1>1, <1>2, <1>3, <2>1 DEF Running
  <2>2. CASE u # t
    BY <1>1, <1>2, <1>4, <2>2 DEF Running, Shown
  <2> QED BY <2>1, <2>2
<1> QED BY <1>2, <1>4 DEF Shown, Running

\* The active turn is failed, or there was none.
LEMMA FailActiveShown == ASSUME Core, Shown, session # "none", FailActive PROVE Shown'
<1>1. CASE turn.id = None
  BY <1>1, ShownStays DEF FailActive
<1>2. CASE turn.id # None
  <2> DEFINE t == turn.id
             state == "failed"
  <2>1. t \in Turns /\ state \in States /\ told' = Ended(t, state) /\ turn' = Idle
    BY <1>2, CoreFacts DEF FailActive, States
  <2>2. turn'.id = None
    BY <2>1 DEF Idle, Fresh
  <2> HIDE DEF t, state
  <2>3. turn.id = t
    BY DEF t
  <2> QED BY <2>1, <2>2, <2>3, ShownEnds
<1> QED BY <1>1, <1>2

LEMMA FailsShown ==
    ASSUME Core, Shown, session # "none", NEW x, Fails(x)
    PROVE  Shown'
<1>1. UNCHANGED <<turn, told>> \/ FailActive
  BY DEF Fails
<1> QED BY <1>1, FailActiveShown, ShownStays

LEMMA BeginTurnShown ==
    ASSUME Core, Shown, NEW c, BeginTurn(c), NextTurn \in Turns, "overtaken" \notin races'
    PROVE  Shown'
<1> DEFINE t == NextTurn
<1>1. turn.id = None /\ t \in Turns /\ told' = Opened(t) /\ turn' = Fresh(t)
  BY DEF BeginTurn
<1>2. turn'.id = t
  BY <1>1 DEF Fresh
<1> HIDE DEF t
<1> QED BY <1>1, <1>2, ShownOpens

LEMMA LookAnsweredShown ==
    ASSUME Core, Shown, NEW x \in Commands, Sound(x), x.by = "timer", NEW idle,
           LookAnswered(x, idle), "stale_look" \notin races'
    PROVE  Shown'
<1>1. CASE idle /\ ~queued /\ ~tools
  <2> DEFINE t == x.turn
             state == x.state
  <2>1. /\ t \in Turns /\ state \in States /\ told' = Ended(t, state) /\ turn' = Idle
        /\ turn.id = t
    BY <1>1 DEF LookAnswered, EndByLook, Sound, Commands, Callers
  <2>2. turn'.id = None
    BY <2>1 DEF Idle, Fresh
  <2> HIDE DEF t, state
  <2> QED BY <2>1, <2>2, ShownEnds
<1>2. CASE ~(idle /\ ~queued /\ ~tools)
  <2>1. turn' = Schedule(turn, x.state) /\ told' = told
    BY <1>2 DEF LookAnswered
  <2>2. turn'.id = turn.id
    <3>1. x.state \in States
      BY DEF Sound, Commands, Callers
    <3> QED BY <2>1, <3>1, CoreFacts, Schedules
  <2> QED BY <2>1, <2>2, ShownStays
<1> QED BY <1>1, <1>2

\* What reading an answer does, by whom the answer is for.
LEMMA ReadAnswerFacts ==
    ASSUME Core, ReadAnswer
    PROVE  LET x == Head(stdout).to
               ok == Head(stdout).ok
           IN  /\ session # "none" /\ x \in Commands /\ Sound(x) /\ Awaited(x, call)
               /\ stdout # <<>> /\ Head(stdout).kind = "answer" /\ stdout' = Tail(stdout)
               /\ UNCHANGED <<session, queued, pi, worked, filed>>
               /\ \/ /\ UNCHANGED <<stdin, turn, last, tools, told, races>>
                     /\ call' = call \/ call' = [call EXCEPT ![x.by] = "none"]
                     /\ ~Refuses(Head(stdout), turn.id)
                  \/ x.by = "timer" /\ LookAnswered(x, ok) /\ UNCHANGED <<call, stdin>>
                  \/ /\ x.by = "reactor" /\ BeginTurn(x.by) /\ call["reactor"] = "model"
                     /\ NextTurn \in Turns
                  \/ x.by \in Callers /\ Fails(x) /\ UNCHANGED stdin
<1> DEFINE x == Head(stdout).to
           ok == Head(stdout).ok
           begins == x.kind = "model" /\ ok
           accepted == x.kind \in {"prompt", "steer"} /\ ok
<1>1. /\ stdout # <<>> /\ Head(stdout).kind = "answer" /\ stdout' = Tail(stdout)
      /\ UNCHANGED <<session, queued, pi, worked, filed>>
      /\ \/ x.by = "none" /\ UNCHANGED <<stdin, turn, last, tools, told, races, call>>
         \/ x.by = "timer" /\ LookAnswered(x, ok) /\ UNCHANGED <<call, stdin>>
         \/ x.by \in Callers /\ begins /\ BeginTurn(x.by)
         \/ /\ x.by \in Callers /\ accepted
            /\ Waits(x.by, "none")
            /\ UNCHANGED <<stdin, turn, last, tools, told, races>>
         \/ x.by \in Callers /\ ~begins /\ ~accepted /\ Fails(x) /\ UNCHANGED stdin
  BY DEF ReadAnswer
<1>2. session # "none" /\ x \in Commands /\ Sound(x) /\ Awaited(x, call)
  BY <1>1, ReadsLine
<1>3. ASSUME x.by = "none" \/ (x.kind \in {"prompt", "steer"} /\ ok)
      PROVE  ~Refuses(Head(stdout), turn.id)
  BY <1>3 DEF Refuses, Prompts, Callers
<1> HIDE DEF x, ok
<1>4. x.by \in Callers /\ begins => /\ x.by = "reactor" /\ call["reactor"] = "model"
                                    /\ NextTurn \in Turns
  BY <1>2, CoreFacts DEF Awaited, Awaiting, Callers
<1> QED BY <1>1, <1>2, <1>3, <1>4 DEF x, ok, Waits

\* A message that starts a turn is only sent when a turn may start.
LEMMA SendFacts ==
    ASSUME Core, NEW c \in Callers, Send(c)
    PROVE  /\ session # "none" /\ UNCHANGED <<session, queued, pi, stdout, worked, filed>>
           /\ \/ turn.id # None /\ FailActive /\ UNCHANGED <<last, call, stdin>>
              \/ turn.id = None /\ BeginTurn(c) /\ NextTurn \in Turns
<1>1. turn.id = None => NextTurn \in Turns
  <2>1. NextTurn \in Nat \ {0} /\ MaxTurns \in Nat
    BY NextIsNew, PiAssumption DEF Core
  <2> QED BY <2>1 DEF Send, MayStart, Turns
<1> QED BY <1>1 DEF Send

LEMMA NextShown ==
    ASSUME Core, Shown, Next, Without({"stale_look", "overtaken"})'
    PROVE  Shown'
<1>1. "stale_look" \notin races' /\ "overtaken" \notin races'
  BY DEF Without
<1>2. CASE StartSession
  <2>1. told' = told /\ turn' = Idle /\ turn.id = None
    BY <1>2 DEF StartSession, Core, NoProcess
  <2> QED BY <2>1, ShownStays DEF Idle, Fresh
<1>3. CASE SendWithModel \/ Steer \/ Process
  <2>1. told' = told /\ turn' = turn
    BY <1>3 DEF SendWithModel, Steer, Process, ProcessOnly, TakeCommand, RefuseModel, Work, EndTool,
                FinishRun, SpeakLate
  <2> QED BY <2>1, ShownStays
<1>4. CASE Interrupt \/ StopSession \/ QuietPeriodOver
  <2>1. told' = told /\ turn'.id = turn.id
    BY <1>4, CoreFacts DEF Interrupt, StopSession, QuietPeriodOver, TurnStates
  <2> QED BY <2>1, ShownStays
<1>5. ASSUME NEW c \in Callers, Send(c) PROVE Shown'
  BY <1>1, <1>5, SendFacts, FailActiveShown, BeginTurnShown
<1>6. CASE ReadAnswer
  <2> DEFINE x == Head(stdout).to
             ok == Head(stdout).ok
  <2>1. /\ session # "none" /\ x \in Commands /\ Sound(x)
        /\ \/ UNCHANGED <<turn, told>>
           \/ x.by = "timer" /\ LookAnswered(x, ok)
           \/ BeginTurn(x.by) /\ NextTurn \in Turns
           \/ Fails(x)
    BY <1>6, ReadAnswerFacts
  <2> HIDE DEF x, ok
  <2> QED BY <1>1, <2>1, ShownStays, LookAnsweredShown, BeginTurnShown, FailsShown
<1>7. CASE ReadLine
  <2> DEFINE line == Head(stdout)
  <2>1. /\ turn'.id = (IF Reopens(line) THEN last ELSE turn.id)
        /\ told' = (IF Reopens(line) THEN Opened(last) ELSE told)
    BY <1>7, ReadLineFacts
  <2> HIDE DEF line
  <2>2. CASE Reopens(line)
    <3>1. turn.id = None /\ last \in Turns
      BY <2>2, CoreFacts DEF Reopens
    <3> QED BY <2>1, <2>2, <3>1, ShownOpens
  <2>3. CASE ~Reopens(line)
    BY <2>1, <2>3, ShownStays
  <2> QED BY <2>2, <2>3
<1>8. CASE TimeOut
  <2>1. PICK k \in 1 .. Len(stdin) : Fails(stdin[k])
    BY <1>8 DEF TimeOut
  <2>2. session # "none"
    <3>1. stdin # <<>>
      BY <2>1, CoreFacts
    <3> QED BY <3>1 DEF Core, NoProcess
  <2> QED BY <2>1, <2>2, FailsShown
<1>9. CASE ProcessExits
  <2>1. /\ turn' = Idle
        /\ told' = (IF turn.id = None THEN told
                    ELSE Ended(turn.id, IF turn.aborted THEN "interrupted" ELSE "failed"))
    BY <1>9 DEF ProcessExits
  <2>2. turn'.id = None
    BY <2>1 DEF Idle, Fresh
  <2>3. CASE turn.id = None
    BY <2>1, <2>2, <2>3, ShownStays
  <2>4. CASE turn.id # None
    <3> DEFINE t == turn.id
               state == IF turn.aborted THEN "interrupted" ELSE "failed"
    <3>1. t \in Turns /\ state \in States /\ told' = Ended(t, state) /\ turn.id = t
      BY <2>1, <2>4, CoreFacts DEF States
    <3> HIDE DEF t, state
    <3> QED BY <2>2, <3>1, ShownEnds
  <2> QED BY <2>3, <2>4
<1> QED BY <1>2, <1>3, <1>4, <1>5, <1>6, <1>7, <1>8, <1>9 DEF Next
-----------------------------------------------------------------------------
(* What the process works for, and what its output is filed under.           *)

LEMMA FilesUnder ==
    ASSUME Core
    PROVE  /\ FiledUnder \in Turns \cup {None} /\ FiledUnder \in Nat
           /\ \A t \in Turns \cup {None} : t \in Nat
           /\ Begun(FiledUnder)
BY CoreFacts DEF FiledUnder, Turns, None

\* Nothing is left behind when output is filed under the same turn or a later one.
LEMMA StillFollowed ==
    ASSUME Core, RunsAreFollowed,
           NEW n \in Turns \cup {None}, FiledUnder <= n, FiledUnder' = n,
           NEW r \in Turns \cup {None}, pi'.run = r, r <= n,
           \A command \in Range(stdin') :
              \/ command \in Range(stdin)
              \/ command.kind \in {"prompt", "steer"} => command.turn <= n,
           \A line \in Range(stdout') : line \in Range(stdout) \/ line.turn <= n,
           \A p \in filed' : p \in filed \/ p[2] > p[1]
    PROVE  RunsAreFollowed'
<1>1. FiledUnder \in Nat /\ n \in Nat
  BY FilesUnder
<1>2. ASSUME NEW command \in Range(stdin'), command.kind \in {"prompt", "steer"}
      PROVE  command.turn <= n
  <2>1. CASE command \in Range(stdin)
    <3>1. command.turn <= FiledUnder
      BY <1>2, <2>1 DEF RunsAreFollowed
    <3>2. command.turn \in Nat
      <4>1. command \in Commands
        BY <2>1, CoreFacts, InPipe
      <4>2. command.turn \in Turns \cup {None}
        BY <4>1 DEF Commands
      <4> QED BY <4>2, FilesUnder
    <3> QED BY <1>1, <3>1, <3>2
  <2>2. CASE command \notin Range(stdin)
    BY <1>2, <2>2
  <2> QED BY <2>1, <2>2
<1>3. ASSUME NEW line \in Range(stdout') PROVE line.turn <= n
  <2>1. CASE line \in Range(stdout)
    <3>1. line.turn <= FiledUnder
      BY <2>1 DEF RunsAreFollowed
    <3>2. line.turn \in Nat
      <4>1. line \in Lines
        BY <2>1, CoreFacts, InPipe
      <4>2. line.turn \in Turns \cup {None}
        BY <4>1 DEF Lines
      <4> QED BY <4>2, FilesUnder
    <3> QED BY <1>1, <3>1, <3>2
  <2>2. CASE line \notin Range(stdout)
    BY <1>3, <2>2
  <2> QED BY <2>1, <2>2
<1>4. \A p \in filed' : p[2] > p[1]
  BY DEF RunsAreFollowed
<1> QED BY <1>2, <1>3, <1>4 DEF RunsAreFollowed

\* The same when output is filed as before and the process works as before.
LEMMA FiledAsBefore ==
    ASSUME Core, RunsAreFollowed, FiledUnder' = FiledUnder, pi'.run = pi.run,
           \A command \in Range(stdin') :
              \/ command \in Range(stdin)
              \/ command.kind \in {"prompt", "steer"} => command.turn <= FiledUnder,
           Range(stdout') \subseteq Range(stdout), filed' = filed
    PROVE  RunsAreFollowed'
<1>1. pi.run <= FiledUnder
  BY DEF RunsAreFollowed
<1>2. /\ FiledUnder \in Turns \cup {None} /\ pi.run \in Turns \cup {None}
      /\ FiledUnder <= FiledUnder
  BY CoreFacts, FilesUnder
<1>3. \A line \in Range(stdout') : line \in Range(stdout)
  OBVIOUS
<1> QED BY <1>1, <1>2, <1>3, StillFollowed

LEMMA BeginTurnFollowed ==
    ASSUME Core, RunsAreFollowed, NEW c \in Callers, BeginTurn(c), NextTurn \in Turns,
           "overtaken" \notin races', UNCHANGED <<pi, filed>>,
           Range(stdout') \subseteq Range(stdout)
    PROVE  RunsAreFollowed'
<1> DEFINE n == NextTurn
           x == Command("prompt", n, "none", c)
<1>1. turn' = Fresh(n) /\ Write(x) /\ n \in Turns
  BY DEF BeginTurn
<1>2. FiledUnder < n /\ n # None
  <2>1. n \in Nat \ {0} /\ \A t \in Turns : told[t].opened > 0 <=> t < n
    BY NextIsNew DEF Core
  <2> HIDE DEF n
  <2> QED BY <2>1, FilesUnder DEF Begun, None
<1> HIDE DEF n
<1>3. FiledUnder' = n
  BY <1>1, <1>2 DEF FiledUnder, Fresh
<1>4. x \in Commands /\ x.turn = n
  BY <1>1, CommandFields DEF States
<1> HIDE DEF x
<1>5. Range(stdin') \subseteq Range(stdin) \cup {x}
  BY <1>1, <1>4, CoreFacts, Writes
<1>6. /\ n \in Nat /\ FiledUnder \in Nat /\ pi.run \in Nat /\ pi.run \in Turns \cup {None}
      /\ pi.run <= FiledUnder
  BY <1>1, CoreFacts, FilesUnder DEF RunsAreFollowed
<1>7. FiledUnder <= n /\ pi.run <= n /\ n <= n
  BY <1>2, <1>6
<1>8. \A command \in Range(stdin') :
         \/ command \in Range(stdin)
         \/ command.kind \in {"prompt", "steer"} => command.turn <= n
  BY <1>4, <1>5, <1>7
<1>9. \A line \in Range(stdout') : line \in Range(stdout)
  OBVIOUS
<1> QED BY <1>1, <1>3, <1>6, <1>7, <1>8, <1>9, StillFollowed

\* A turn that is given up is a race of its own.
LEMMA FailsFollowed ==
    ASSUME Core, RunsAreFollowed, session # "none", NEW x, Fails(x),
           "given_up" \notin races', UNCHANGED <<pi, filed>>,
           Range(stdout') \subseteq Range(stdout),
           \A command \in Range(stdin') :
              \/ command \in Range(stdin)
              \/ command.kind \in {"prompt", "steer"} => command.turn <= FiledUnder
    PROVE  RunsAreFollowed'
<1>1. turn' = turn /\ last' = last
  <2>1. last' = last
    BY DEF Fails
  <2>2. turn' = turn \/ FailActive
    BY DEF Fails
  <2> QED BY <2>1, <2>2 DEF FailActive
<1>2. FiledUnder' = FiledUnder
  BY <1>1 DEF FiledUnder
<1> QED BY <1>2, FiledAsBefore

LEMMA LookAnsweredFollowed ==
    ASSUME Core, RunsAreFollowed, NEW x \in Commands, Sound(x), x.by = "timer", NEW idle,
           LookAnswered(x, idle), "stale_look" \notin races',
           UNCHANGED <<pi, filed, stdin>>, Range(stdout') \subseteq Range(stdout)
    PROVE  RunsAreFollowed'
<1>1. FiledUnder' = FiledUnder
  <2>1. CASE idle /\ ~queued /\ ~tools
    <3>1. turn.id = x.turn /\ turn' = Idle /\ last' = x.turn /\ x.turn # None
      BY <2>1 DEF LookAnswered, EndByLook, Sound, Commands, Callers
    <3> QED BY <3>1 DEF FiledUnder, Idle, Fresh
  <2>2. CASE ~(idle /\ ~queued /\ ~tools)
    <3>1. turn' = Schedule(turn, x.state) /\ last' = last
      BY <2>2 DEF LookAnswered
    <3>2. turn'.id = turn.id
      <4>1. x.state \in States
        BY DEF Sound, Commands, Callers
      <4> QED BY <3>1, <4>1, CoreFacts, Schedules
    <3> QED BY <3>1, <3>2 DEF FiledUnder
  <2> QED BY <2>1, <2>2
<1> QED BY <1>1, FiledAsBefore

\* A command that is sent is none, or one for the active turn.
LEMMA WritesFollowed ==
    ASSUME Core, RunsAreFollowed, turn'.id = turn.id, UNCHANGED <<last, pi, filed, stdout>>,
           NEW x \in Commands, Write(x), x.kind \in {"prompt", "steer"} => x.turn = turn.id,
           turn.id # None \/ x.kind \notin {"prompt", "steer"}
    PROVE  RunsAreFollowed'
<1>1. FiledUnder' = FiledUnder
  BY DEF FiledUnder
<1>2. Range(stdin') \subseteq Range(stdin) \cup {x}
  BY CoreFacts, Writes
<1>3. x.kind \in {"prompt", "steer"} => x.turn <= FiledUnder
  <2>1. turn.id # None => FiledUnder = turn.id
    BY DEF FiledUnder
  <2> QED BY <2>1, FilesUnder
<1> QED BY <1>1, <1>2, <1>3, FiledAsBefore

LEMMA ReadLineFollowed == ASSUME Core, RunsAreFollowed, ReadLine PROVE RunsAreFollowed'
<1> DEFINE line == Head(stdout)
           id == Kept(line).id
<1>1. /\ stdout # <<>> /\ line.kind # "answer" /\ stdout' = Tail(stdout) /\ turn'.id = id
      /\ id = (IF Reopens(line) THEN last ELSE turn.id)
      /\ filed' = (IF line.kind \in Output /\ id # line.turn
                   THEN filed \cup {<<line.turn, id, line.late>>} ELSE filed)
      /\ UNCHANGED <<last, pi, stdin>>
  BY ReadLineFacts
<1>2. line \in Lines /\ line \in Range(stdout) /\ Range(stdout') \subseteq Range(stdout)
  BY <1>1, ReadsLine
<1> HIDE DEF line, id
<1>3. FiledUnder' = FiledUnder
  BY <1>1 DEF FiledUnder, Reopens
<1>4. line.turn <= FiledUnder /\ line.turn # None /\ line.turn \in Nat
  <2>1. line.turn \in Turns \cup {None}
    BY <1>2 DEF Lines
  <2> QED BY <1>1, <1>2, <2>1, FilesUnder DEF RunsAreFollowed, Core, RunsAreOfTurns
<1>5. line.kind \in Output => id = FiledUnder
  <2>1. FiledUnder # None
    BY <1>4, FilesUnder DEF None
  <2> QED BY <1>1, <2>1 DEF FiledUnder, Reopens, StaysOpen
<1>6. \A p \in filed' : p \in filed \/ p[2] > p[1]
  <2>1. line.kind \in Output /\ id # line.turn => id > line.turn
    BY <1>4, <1>5, FilesUnder
  <2> QED BY <1>1, <2>1
<1>7. /\ FiledUnder \in Turns \cup {None} /\ FiledUnder <= FiledUnder
      /\ pi.run \in Turns \cup {None} /\ pi.run <= FiledUnder
  BY CoreFacts, FilesUnder DEF RunsAreFollowed
<1>8. \A x \in Range(stdout') : x \in Range(stdout)
  BY <1>2
<1> QED BY <1>1, <1>3, <1>6, <1>7, <1>8, StillFollowed

\* Nothing is left of a process that is gone.
LEMMA EmptyFollowed ==
    ASSUME Core, RunsAreFollowed, stdin' = <<>>, stdout' = <<>>, pi'.run = None, filed' = filed,
           NEW n \in Nat, FiledUnder' = n
    PROVE  RunsAreFollowed'
<1>1. Range(stdin') = {} /\ Range(stdout') = {} /\ None <= n
  BY DEF Range, None
<1> QED BY <1>1 DEF RunsAreFollowed

LEMMA ProcessFollowed == ASSUME Core, RunsAreFollowed, Process PROVE RunsAreFollowed'
<1>1. UNCHANGED <<turn, last, filed>>
  BY DEF Process, TakeCommand, RefuseModel, Work, EndTool, FinishRun, SpeakLate, ProcessOnly
<1>2. FiledUnder' = FiledUnder
  BY <1>1 DEF FiledUnder
<1>3. /\ FiledUnder \in Turns \cup {None} /\ FiledUnder <= FiledUnder
      /\ pi.run \in Turns \cup {None} /\ pi.run <= FiledUnder /\ None <= FiledUnder
  BY CoreFacts, FilesUnder DEF RunsAreFollowed, None
<1>4. CASE Work \/ EndTool \/ FinishRun \/ SpeakLate
  <2>1. /\ stdin' = stdin /\ pi'.run = pi.run
        /\ Remarks(stdout, stdout', Len(stdout'), pi.run)
    BY <1>4, SpeaksFreely
  <2>2. \A line \in Range(stdout') : line \in Range(stdout) \/ Remark(line, pi.run)
    BY <2>1, CoreFacts, HearsRemarks
  <2>3. \A line \in Range(stdout') : line \in Range(stdout) \/ line.turn <= FiledUnder
    BY <1>3, <2>2 DEF Remark
  <2> QED BY <1>1, <1>2, <1>3, <2>1, <2>3, StillFollowed
<1>5. CASE TakeCommand \/ RefuseModel
  <2> DEFINE x == Head(stdin)
  <2>1. /\ stdin # <<>> /\ stdin' = Tail(stdin) /\ pi'.run \in {pi.run, x.turn}
        /\ pi'.run # pi.run => x.kind \in {"prompt", "steer"}
        /\ \E ok \in BOOLEAN :
              /\ Remarks(stdout, stdout', Len(stdout') - 1, pi.run)
              /\ stdout'[Len(stdout')] = Answer(x, ok)
    BY <1>5, TakesCommand
  <2>2. PICK ok \in BOOLEAN :
           /\ Remarks(stdout, stdout', Len(stdout') - 1, pi.run)
           /\ stdout'[Len(stdout')] = Answer(x, ok)
    BY <2>1
  <2>3. x \in Commands /\ x \in Range(stdin) /\ Range(stdin') \subseteq Range(stdin)
    BY <2>1, CoreFacts, Taken
  <2>4. \A line \in Range(stdout') :
           line \in Range(stdout) \/ Remark(line, pi.run) \/ line = Answer(x, ok)
    BY <2>1, <2>2, CoreFacts, HearsAnswer
  <2> HIDE DEF x
  <2>5. Answer(x, ok).turn = None
    BY <2>3, AnswerFields
  <2>6. \A line \in Range(stdout') : line \in Range(stdout) \/ line.turn <= FiledUnder
    BY <1>3, <2>4, <2>5 DEF Remark
  <2>7. \E r \in Turns \cup {None} : pi'.run = r /\ r <= FiledUnder
    <3>1. x.turn \in Turns \cup {None}
      BY <2>3 DEF Commands
    <3>2. x.kind \in {"prompt", "steer"} => x.turn <= FiledUnder
      BY <2>3 DEF RunsAreFollowed
    <3> QED BY <1>3, <2>1, <3>1, <3>2
  <2>8. \A command \in Range(stdin') : command \in Range(stdin)
    BY <2>3
  <2> QED BY <1>1, <1>2, <1>3, <2>6, <2>7, <2>8, StillFollowed
<1> QED BY <1>4, <1>5 DEF Process

\* What is sent of the active turn is a command.
LEMMA TurnCommand ==
    ASSUME Core, NEW kind \in {"steer", "abort", "look"}, NEW by \in Callers \cup {"timer"},
           NEW state \in {"none", turn.pending}
    PROVE  /\ Command(kind, turn.id, state, by) \in Commands
           /\ Command(kind, turn.id, state, by).kind = kind
           /\ Command(kind, turn.id, state, by).turn = turn.id
           /\ Command(kind, turn.id, state, by).by = by
<1>1. turn.id \in Turns \cup {None} /\ state \in States \cup {"none"}
  BY CoreFacts
<1> QED BY <1>1, CommandFields

LEMMA NextFollowed ==
    ASSUME Core, RunsAreFollowed, Next, Without({"stale_look", "overtaken", "given_up"})'
    PROVE  RunsAreFollowed'
<1>1. "stale_look" \notin races' /\ "overtaken" \notin races' /\ "given_up" \notin races'
  BY DEF Without
<1>2. CASE StartSession
  <2>1. /\ turn' = Idle /\ last' = None /\ pi' = [pi EXCEPT !.state = "idle", !.run = None]
        /\ stdin' = <<>> /\ stdout' = <<>> /\ filed' = filed
    BY <1>2 DEF StartSession, Core, NoProcess
  <2>2. FiledUnder' = 0 /\ pi'.run = None
    BY <2>1 DEF FiledUnder, Idle, Fresh, None, Core, TypeOK
  <2> QED BY <2>1, <2>2, EmptyFollowed
<1>3. CASE SendWithModel
  <2> DEFINE x == Command("model", None, "none", "reactor")
  <2>1. x \in Commands /\ x.kind = "model"
    BY CommandFields DEF Callers
  <2>2. Write(x) /\ UNCHANGED <<turn, last, pi, filed, stdout>>
    BY <1>3 DEF SendWithModel
  <2> HIDE DEF x
  <2> QED BY <2>1, <2>2, WritesFollowed
<1>4. CASE Steer
  <2> DEFINE x == Command("steer", turn.id, "none", "stream")
  <2>1. x \in Commands /\ x.turn = turn.id
    BY TurnCommand DEF Callers
  <2>2. Write(x) /\ UNCHANGED <<turn, last, pi, filed, stdout>> /\ turn.id # None
    BY <1>4 DEF Steer
  <2> HIDE DEF x
  <2> QED BY <2>1, <2>2, WritesFollowed
<1>5. CASE Interrupt
  <2> DEFINE x == Command("abort", turn.id, "none", "reactor")
  <2>1. x \in Commands /\ x.kind = "abort"
    BY TurnCommand DEF Callers
  <2>2. Write(x) /\ UNCHANGED <<last, pi, filed, stdout>> /\ turn'.id = turn.id
    BY <1>5, CoreFacts DEF Interrupt, TurnStates
  <2> HIDE DEF x
  <2> QED BY <2>1, <2>2, WritesFollowed
<1>6. CASE StopSession
  <2>1. CASE turn.id = None
    <3>1. UNCHANGED <<turn, last, pi, filed, stdin, stdout>>
      BY <1>6, <2>1 DEF StopSession
    <3>2. FiledUnder' = FiledUnder
      BY <3>1 DEF FiledUnder
    <3> QED BY <3>1, <3>2, FiledAsBefore
  <2>2. CASE turn.id # None
    <3> DEFINE x == Command("abort", turn.id, "none", "reactor")
    <3>1. x \in Commands /\ x.kind = "abort"
      BY TurnCommand DEF Callers
    <3>2. Write(x) /\ UNCHANGED <<last, pi, filed, stdout>> /\ turn'.id = turn.id
      BY <1>6, <2>2, CoreFacts DEF StopSession, TurnStates
    <3> HIDE DEF x
    <3> QED BY <3>1, <3>2, WritesFollowed
  <2> QED BY <2>1, <2>2
<1>7. CASE QuietPeriodOver
  <2> DEFINE x == Command("look", turn.id, turn.pending, "timer")
  <2>1. x \in Commands /\ x.kind = "look"
    BY TurnCommand
  <2>2. Write(x) /\ UNCHANGED <<last, pi, filed, stdout>> /\ turn'.id = turn.id
    BY <1>7, CoreFacts DEF QuietPeriodOver, TurnStates
  <2> HIDE DEF x
  <2> QED BY <2>1, <2>2, WritesFollowed
<1>8. ASSUME NEW c \in Callers, Send(c) PROVE RunsAreFollowed'
  <2>1. /\ session # "none" /\ UNCHANGED <<pi, stdout, filed>>
        /\ \/ turn.id # None /\ FailActive
           \/ BeginTurn(c) /\ NextTurn \in Turns
    BY <1>8, SendFacts
  <2>2. ~(turn.id # None /\ FailActive)
    BY <1>1, <2>1 DEF FailActive
  <2> QED BY <1>1, <2>1, <2>2, BeginTurnFollowed
<1>9. CASE ReadAnswer
  <2> DEFINE x == Head(stdout).to
             ok == Head(stdout).ok
  <2>1. /\ session # "none" /\ x \in Commands /\ Sound(x) /\ stdout # <<>> /\ stdout' = Tail(stdout)
        /\ UNCHANGED <<pi, filed>>
        /\ \/ UNCHANGED <<stdin, turn, last>>
           \/ x.by = "timer" /\ LookAnswered(x, ok) /\ UNCHANGED stdin
           \/ x.by = "reactor" /\ BeginTurn(x.by) /\ NextTurn \in Turns
           \/ Fails(x) /\ UNCHANGED stdin
    BY <1>9, ReadAnswerFacts
  <2>2. Range(stdout') \subseteq Range(stdout)
    BY <2>1, ReadsLine
  <2> HIDE DEF x, ok
  <2>3. CASE UNCHANGED <<stdin, turn, last>>
    <3>1. FiledUnder' = FiledUnder
      BY <2>3 DEF FiledUnder
    <3> QED BY <2>1, <2>2, <2>3, <3>1, FiledAsBefore
  <2>4. CASE x.by = "timer" /\ LookAnswered(x, ok) /\ UNCHANGED stdin
    BY <1>1, <2>1, <2>2, <2>4, LookAnsweredFollowed
  <2>5. CASE x.by = "reactor" /\ BeginTurn(x.by) /\ NextTurn \in Turns
    BY <1>1, <2>1, <2>2, <2>5, BeginTurnFollowed DEF Callers
  <2>6. CASE Fails(x) /\ UNCHANGED stdin
    BY <1>1, <2>1, <2>2, <2>6, FailsFollowed
  <2> QED BY <2>1, <2>3, <2>4, <2>5, <2>6
<1>10. CASE ReadLine
  BY <1>10, ReadLineFollowed
<1>11. CASE TimeOut
  <2>1. PICK k \in 1 .. Len(stdin) :
           Fails(stdin[k]) /\ stdin' = [stdin EXCEPT ![k].by = "none"]
    BY <1>11 DEF TimeOut
  <2>2. UNCHANGED <<pi, stdout, filed>>
    BY <1>11 DEF TimeOut
  <2> DEFINE x == stdin[k]
             y == [x EXCEPT !.by = "none"]
  <2>3. x \in Commands /\ x \in Range(stdin)
    BY CoreFacts, InPipe
  <2>4. session # "none"
    <3>1. stdin # <<>>
      BY CoreFacts
    <3> QED BY <3>1 DEF Core, NoProcess
  <2>5. \A command \in Range(stdin') : command \in Range(stdin) \/ command = y
    BY <2>1, CoreFacts, GivesUp
  <2>6. y.kind = x.kind /\ y.turn = x.turn
    BY <2>3 DEF Commands
  <2>7. Fails(x)
    BY <2>1
  <2> HIDE DEF x, y
  <2>8. y.kind \in {"prompt", "steer"} => y.turn <= FiledUnder
    BY <2>3, <2>6 DEF RunsAreFollowed
  <2> QED BY <1>1, <2>2, <2>4, <2>5, <2>7, <2>8, FailsFollowed
<1>12. CASE ProcessExits
  <2>1. /\ turn' = Idle /\ last' = last /\ filed' = filed /\ stdin' = <<>> /\ stdout' = <<>>
        /\ pi'.run = None
    BY <1>12 DEF ProcessExits
  <2>2. FiledUnder' = last /\ last \in Nat
    BY <2>1, CoreFacts, FilesUnder DEF FiledUnder, Idle, Fresh
  <2> QED BY <2>1, <2>2, EmptyFollowed
<1>13. CASE Process
  BY <1>13, ProcessFollowed
<1> QED BY <1>2, <1>3, <1>4, <1>5, <1>6, <1>7, <1>8, <1>9, <1>10, <1>11, <1>12, <1>13 DEF Next
-----------------------------------------------------------------------------
(* A turn is looked after once its prompt has been taken.                    *)

LEMMA RacesGrow == ASSUME Core, Next PROVE races \subseteq races'
<1>1. CASE StartSession \/ SendWithModel \/ Steer \/ Interrupt \/ StopSession \/ QuietPeriodOver
           \/ ProcessExits
  BY <1>1 DEF StartSession, SendWithModel, Steer, Interrupt, StopSession, QuietPeriodOver,
              ProcessExits
<1>2. CASE \E c \in Callers : Send(c)
  BY <1>2 DEF Send, FailActive, BeginTurn
<1>3. CASE ReadAnswer
  BY <1>3 DEF ReadAnswer, LookAnswered, EndByLook, BeginTurn, Fails, FailActive
<1>4. CASE ReadLine
  BY <1>4, ReadLineFacts
<1>5. CASE TimeOut
  BY <1>5 DEF TimeOut, Fails, FailActive
<1>6. CASE Process
  BY <1>6 DEF Process, TakeCommand, RefuseModel, Work, EndTool, FinishRun, SpeakLate, ProcessOnly
<1> QED BY <1>1, <1>2, <1>3, <1>4, <1>5, <1>6 DEF Next

\* Without an active turn there is nothing to look after.
LEMMA NobodyIsLookedAfter ==
    ASSUME turn'.id = None, last' # None => last' \in worked'
    PROVE  LooksFollowWork'
BY DEF LooksFollowWork

\* A command is written: a look only while the turn is pursued.
LEMMA WritesFollowWork ==
    ASSUME Core, LooksFollowWork, turn'.id = turn.id, UNCHANGED <<last, pi, worked, stdout>>,
           NEW x \in Commands, Write(x), call["reactor"] = "close" => call'["reactor"] = "close"
    PROVE  LooksFollowWork'
<1>1. CASE turn.id = None
  BY <1>1, NobodyIsLookedAfter DEF LooksFollowWork
<1>2. CASE turn.id # None
  <2> DEFINE t == turn.id
  <2>1. /\ call["reactor"] = "close" \/ Pursued(t)
        /\ LooksWait(t) /\ IdleIsDone(t) /\ t # None
    BY <1>2 DEF LooksFollowWork
  <2> HIDE DEF t
  <2> SUFFICES ASSUME NEW u, u = t
               PROVE  /\ call'["reactor"] = "close" \/ Pursued(u)'
                      /\ LooksWait(u)' /\ IdleIsDone(u)'
    BY DEF LooksFollowWork, t
  <2>2. (Works(u)' <=> Works(u)) /\ (Refused(u)' <=> Refused(u))
    BY DEF Works, Refused
  <2>3. IdleIsDone(u)'
    BY <2>1 DEF IdleIsDone
  <2>4. CASE stdin' = stdin
    BY <2>1, <2>2, <2>3, <2>4 DEF Pursued, LooksWait
  <2>5. CASE stdin' # stdin
    <3>1. stdin' = Append(stdin, x) /\ call["reactor"] # "close"
      BY <2>5, CoreFacts, Writes DEF Write
    <3>2. /\ Len(stdin) \in Nat /\ Len(stdin') = Len(stdin) + 1
          /\ \A i \in 1 .. Len(stdin) : stdin'[i] = stdin[i]
          /\ Range(stdin') = Range(stdin) \cup {x}
          /\ \A y \in Range(stdin) : \E i \in 1 .. Len(stdin) : stdin[i] = y
      BY <3>1, CoreFacts, Written, InPipe
    <3>3. Pursued(u)'
      BY <2>1, <2>2, <3>1, <3>2 DEF Pursued
    <3>4. LooksWait(u)'
      <4> SUFFICES ASSUME NEW i \in 1 .. Len(stdin'), Looks(stdin'[i], u), ~Works(u), ~Refused(u)
                   PROVE  \E j \in 1 .. (i - 1) : Prompts(stdin'[j], u)
        BY <2>2 DEF LooksWait
      <4>1. CASE i \in 1 .. Len(stdin)
        <5>1. PICK j \in 1 .. (i - 1) : Prompts(stdin[j], u)
          BY <2>1, <3>2, <4>1 DEF LooksWait
        <5>2. stdin'[j] = stdin[j]
          BY <3>2, <4>1
        <5> QED BY <5>1, <5>2
      <4>2. CASE i = Len(stdin) + 1
        <5>1. PICK j \in 1 .. Len(stdin) : Prompts(stdin[j], u)
          BY <2>1, <3>1, <3>2 DEF Pursued
        <5>2. stdin'[j] = stdin[j] /\ j \in 1 .. (i - 1)
          BY <3>2, <4>2
        <5> QED BY <5>1, <5>2
      <4> QED BY <3>2, <4>1, <4>2
    <3> QED BY <2>3, <3>3, <3>4
  <2> QED BY <2>4, <2>5
<1> QED BY <1>1, <1>2

\* A line is read that refuses no prompt of the active turn.
LEMMA ReadingFollowsWork ==
    ASSUME Core, LooksFollowWork, turn'.id = turn.id, stdout # <<>>, stdout' = Tail(stdout),
           ~Refuses(Head(stdout), turn.id), UNCHANGED <<last, pi, worked, stdin>>,
           call["reactor"] = "close" => call'["reactor"] = "close"
    PROVE  LooksFollowWork'
<1>1. CASE turn.id = None
  BY <1>1, NobodyIsLookedAfter DEF LooksFollowWork
<1>2. CASE turn.id # None
  <2> DEFINE t == turn.id
  <2>1. /\ call["reactor"] = "close" \/ Pursued(t)
        /\ LooksWait(t) /\ IdleIsDone(t) /\ t # None /\ ~Refuses(Head(stdout), t)
    BY <1>2 DEF LooksFollowWork
  <2> HIDE DEF t
  <2> SUFFICES ASSUME NEW u, u = t
               PROVE  /\ call'["reactor"] = "close" \/ Pursued(u)'
                      /\ LooksWait(u)' /\ IdleIsDone(u)'
    BY DEF LooksFollowWork, t
  <2>2. /\ stdout' \in Seq(Lines) /\ Head(stdout) = stdout[1]
        /\ Len(stdout) \in Nat \ {0} /\ Len(stdout') = Len(stdout) - 1
        /\ \A i \in 1 .. Len(stdout') : stdout'[i] = stdout[i + 1] /\ i + 1 \in 1 .. Len(stdout)
    BY CoreFacts, Taken
  <2>3. Refused(u) => Refused(u)'
    <3> SUFFICES ASSUME Refused(u) PROVE Refused(u)'
      OBVIOUS
    <3>1. PICK k \in 1 .. Len(stdout) : Refuses(stdout[k], u)
      BY CoreFacts, InPipe DEF Refused
    <3>2. k # 1
      BY <2>1, <2>2, <3>1
    <3>3. k - 1 \in 1 .. Len(stdout') /\ stdout'[k - 1] = stdout[k]
      BY <2>2, <3>2
    <3>4. \A i \in 1 .. Len(stdout') : stdout'[i] \in Range(stdout')
      BY <2>2, InPipe
    <3>5. stdout[k] \in Range(stdout')
      BY <3>3, <3>4
    <3> QED BY <3>1, <3>5 DEF Refused
  <2>4. Works(u)' <=> Works(u)
    BY DEF Works
  <2>5. Pursued(u) => Pursued(u)'
    BY <2>3, <2>4 DEF Pursued
  <2>6. LooksWait(u)'
    BY <2>1, <2>3, <2>4 DEF LooksWait
  <2>7. IdleIsDone(u)'
    <3> SUFFICES ASSUME NEW i \in 1 .. Len(stdout'), Looks(stdout'[i].to, u), stdout'[i].ok,
                        u \notin worked
                 PROVE  \E j \in 1 .. (i - 1) : Refuses(stdout'[j], u)
      BY DEF IdleIsDone
    <3>1. PICK k \in 1 .. i : Refuses(stdout[k], u)
      <4>1. i + 1 \in 1 .. Len(stdout) /\ stdout'[i] = stdout[i + 1] /\ (i + 1) - 1 = i
        BY <2>2
      <4> QED BY <2>1, <4>1 DEF IdleIsDone
    <3>2. k # 1
      BY <2>1, <2>2, <3>1
    <3>3. k - 1 \in 1 .. (i - 1) /\ stdout'[k - 1] = stdout[k]
      BY <2>2, <3>2
    <3> QED BY <3>1, <3>3
  <2> QED BY <2>1, <2>5, <2>6, <2>7
<1> QED BY <1>1, <1>2
\* What fails is no prompt of the active turn, or the turn is given up.
LEMMA FailsEffect ==
    ASSUME Core, session # "none", NEW x \in Commands, Sound(x), Awaited(x, call), x.by # "none",
           Fails(x)
    PROVE  /\ last' = last
           /\ \/ turn'.id = None
              \/ /\ turn' = turn /\ x.kind \in {"look", "abort"}
                 /\ call["reactor"] = "close" => call'["reactor"] = "close"
<1>1. last' = last
  BY DEF Fails
<1>2. CASE x.kind = "look"
  BY <1>1, <1>2 DEF Fails
<1>3. CASE x.kind = "abort"
  <2>1. call["reactor"] # "close"
    BY <1>3, CoreFacts DEF Sound, Awaited, Awaiting, Callers, Commands
  <2>2. turn' = turn
    BY <1>3 DEF Fails
  <2> QED BY <1>1, <1>3, <2>1, <2>2
<1>4. CASE x.kind \notin {"look", "abort"}
  <2>1. FailActive
    BY <1>4 DEF Fails
  <2>2. turn'.id = None
    BY <2>1, CoreFacts, GivesUpActive
  <2> QED BY <1>1, <2>2
<1> QED BY <1>2, <1>3, <1>4

\* A look that ends the active turn finds it worked for.
LEMMA LookFindsWork ==
    ASSUME Core, LooksFollowWork, stdout # <<>>,
           NEW x \in Commands, x = Head(stdout).to, Sound(x), x.by = "timer",
           Head(stdout).ok, turn.id = x.turn
    PROVE  x.turn \in worked
<1>1. x.turn # None /\ x.kind = "look"
  BY DEF Sound
<1>2. 1 \in 1 .. Len(stdout) /\ Head(stdout) = stdout[1]
  BY CoreFacts, Taken
<1>3. \A j \in 1 .. (1 - 1) : FALSE
  OBVIOUS
<1>4. IdleIsDone(x.turn)
  BY <1>1 DEF LooksFollowWork
<1>5. Looks(stdout[1].to, x.turn) /\ stdout[1].ok
  BY <1>1, <1>2 DEF Looks
<1> QED BY <1>2, <1>3, <1>4, <1>5 DEF IdleIsDone

LEMMA LookAnsweredFollowsWork ==
    ASSUME Core, LooksFollowWork, stdout # <<>>, stdout' = Tail(stdout),
           NEW x \in Commands, x = Head(stdout).to, Sound(x), x.by = "timer",
           LookAnswered(x, Head(stdout).ok), "stale_look" \notin races',
           UNCHANGED <<pi, worked, stdin, call>>
    PROVE  LooksFollowWork'
<1>1. CASE Head(stdout).ok /\ ~queued /\ ~tools
  <2>1. turn.id = x.turn /\ turn' = Idle /\ last' = x.turn /\ x.turn # None /\ x.kind = "look"
    BY <1>1 DEF LookAnswered, EndByLook, Sound, Commands, Callers
  <2>2. x.turn \in worked
    BY <1>1, <2>1, LookFindsWork
  <2>3. turn'.id = None
    BY <2>1 DEF Idle, Fresh
  <2> QED BY <2>1, <2>2, <2>3, NobodyIsLookedAfter
<1>2. CASE ~(Head(stdout).ok /\ ~queued /\ ~tools)
  <2>1. turn' = Schedule(turn, x.state) /\ last' = last
    BY <1>2 DEF LookAnswered
  <2>2. turn'.id = turn.id
    <3>1. x.state \in States
      BY DEF Sound, Commands, Callers
    <3> QED BY <2>1, <3>1, CoreFacts, Schedules
  <2>3. ~Refuses(Head(stdout), turn.id)
    BY DEF Refuses, Prompts, Callers
  <2> QED BY <2>1, <2>2, <2>3, ReadingFollowsWork
<1> QED BY <1>1, <1>2

\* A turn begins with its prompt; nobody has looked after it yet.
LEMMA BeginTurnFollowsWork ==
    ASSUME Core, NEW c \in Callers, BeginTurn(c), NextTurn \in Turns,
           c = "reactor" => call["reactor"] # "close",
           stdout' \in Seq(Lines), Range(stdout') \subseteq Range(stdout)
    PROVE  LooksFollowWork'
<1> DEFINE t == NextTurn
           x == Command("prompt", t, "none", c)
<1>1. /\ turn' = Fresh(t) /\ Write(x) /\ t \in Turns /\ last' = None
      /\ call' = [call EXCEPT ![c] = "prompt"]
  BY DEF BeginTurn, Waits
<1>2. ~Begun(t)
  <2>1. t \in Nat \ {0} /\ \A u \in Turns : told[u].opened > 0 <=> u < t
    BY NextIsNew DEF Core
  <2> HIDE DEF t
  <2> QED BY <1>1, <2>1 DEF Begun, None
<1> HIDE DEF t
<1>3. x \in Commands /\ x.turn = t /\ x.kind = "prompt" /\ x.by = c
  BY <1>1, CommandFields DEF States
<1> HIDE DEF x
<1>4. turn'.id = t
  BY <1>1 DEF Fresh
<1> SUFFICES ASSUME NEW u, u = t
             PROVE  /\ call'["reactor"] = "close" \/ Pursued(u)'
                    /\ LooksWait(u)' /\ IdleIsDone(u)'
  BY <1>1, <1>4 DEF LooksFollowWork
<1>5. \A command \in Range(stdin) : ~Looks(command, u)
  BY <1>2 DEF Looks, Core, TurnsAreBegun
<1>6. \A line \in Range(stdout) : ~Looks(line.to, u)
  BY <1>2 DEF Looks, Core, TurnsAreBegun
<1>7. stdin' \in Seq(Commands) /\ Range(stdin') \subseteq Range(stdin) \cup {x}
  BY <1>1, <1>3, CoreFacts, Writes
<1>8. LooksWait(u)'
  <2>1. ~Looks(x, u)
    BY <1>3 DEF Looks
  <2>2. \A i \in 1 .. Len(stdin') : stdin'[i] \in Range(stdin')
    BY <1>7, InPipe
  <2>3. \A i \in 1 .. Len(stdin') : ~Looks(stdin'[i], u)
    BY <1>5, <1>7, <2>1, <2>2
  <2> QED BY <2>3 DEF LooksWait
<1>9. IdleIsDone(u)'
  <2>1. \A i \in 1 .. Len(stdout') : stdout'[i] \in Range(stdout')
    BY InPipe
  <2>2. \A i \in 1 .. Len(stdout') : ~Looks(stdout'[i].to, u)
    BY <1>6, <2>1
  <2> QED BY <2>2 DEF IdleIsDone
<1>10. call'["reactor"] = "close" \/ Pursued(u)'
  <2>1. CASE call["reactor"] = "close"
    BY <1>1, <2>1, CoreFacts DEF Callers
  <2>2. CASE call["reactor"] # "close"
    <3>1. stdin' = Append(stdin, x)
      BY <1>1, <1>3, <2>2, CoreFacts, Writes
    <3>2. x \in Range(stdin')
      BY <1>3, <3>1, CoreFacts, Written
    <3>3. Prompts(x, u)
      BY <1>3 DEF Prompts
    <3> QED BY <3>2, <3>3 DEF Pursued
  <2> QED BY <2>1, <2>2
<1> QED BY <1>8, <1>9, <1>10

\* A look, or an abort, is given up: the prompts stay where they are.
LEMMA GivingUpFollowsWork ==
    ASSUME Core, LooksFollowWork, turn' = turn, UNCHANGED <<last, pi, worked, stdout>>,
           NEW k \in 1 .. Len(stdin), stdin[k].kind \in {"look", "abort"},
           stdin' \in Seq(Commands), Len(stdin') = Len(stdin),
           \A i \in 1 .. Len(stdin) : i # k => stdin'[i] = stdin[i],
           stdin'[k].kind = stdin[k].kind, stdin'[k].turn = stdin[k].turn,
           call["reactor"] = "close" => call'["reactor"] = "close"
    PROVE  LooksFollowWork'
<1>1. CASE turn.id = None
  BY <1>1, NobodyIsLookedAfter DEF LooksFollowWork
<1>2. CASE turn.id # None
  <2> DEFINE t == turn.id
  <2>1. /\ call["reactor"] = "close" \/ Pursued(t)
        /\ LooksWait(t) /\ IdleIsDone(t) /\ t # None
    BY <1>2 DEF LooksFollowWork
  <2>2. Len(stdin) \in Nat
    BY CoreFacts, InPipe
  <2>3. \A i \in 1 .. Len(stdin) : stdin'[i].kind = stdin[i].kind /\ stdin'[i].turn = stdin[i].turn
    OBVIOUS
  <2> HIDE DEF t
  <2> SUFFICES ASSUME NEW u, u = t
               PROVE  /\ call'["reactor"] = "close" \/ Pursued(u)'
                      /\ LooksWait(u)' /\ IdleIsDone(u)'
    BY DEF LooksFollowWork, t
  <2>4. (Works(u)' <=> Works(u)) /\ (Refused(u)' <=> Refused(u))
    BY DEF Works, Refused
  <2>5. IdleIsDone(u)'
    BY <2>1 DEF IdleIsDone
  <2>6. \A j \in 1 .. Len(stdin) : Prompts(stdin[j], u) => j # k /\ stdin'[j] = stdin[j]
    BY DEF Prompts
  <2>7. Pursued(u) => Pursued(u)'
    <3> SUFFICES ASSUME NEW command \in Range(stdin), Prompts(command, u)
                 PROVE  \E other \in Range(stdin') : Prompts(other, u)
      BY <2>4 DEF Pursued
    <3>1. PICK j \in 1 .. Len(stdin) : stdin[j] = command
      BY CoreFacts, InPipe
    <3>2. stdin'[j] = command /\ j \in 1 .. Len(stdin')
      BY <2>6, <3>1
    <3>3. \A i \in 1 .. Len(stdin') : stdin'[i] \in Range(stdin')
      BY InPipe
    <3> QED BY <3>2, <3>3
  <2>8. LooksWait(u)'
    <3> SUFFICES ASSUME NEW i \in 1 .. Len(stdin), Looks(stdin'[i], u), ~Works(u), ~Refused(u)
                 PROVE  \E j \in 1 .. (i - 1) : Prompts(stdin'[j], u)
      BY <2>4 DEF LooksWait
    <3>1. Looks(stdin[i], u)
      BY <2>3 DEF Looks
    <3>2. PICK j \in 1 .. (i - 1) : Prompts(stdin[j], u)
      BY <2>1, <3>1 DEF LooksWait
    <3>3. j \in 1 .. Len(stdin)
      BY <2>2
    <3> QED BY <2>6, <3>2, <3>3
  <2> QED BY <2>1, <2>5, <2>7, <2>8
<1> QED BY <1>1, <1>2

LEMMA ReadLineFollowsWork == ASSUME Core, LooksFollowWork, ReadLine PROVE LooksFollowWork'
<1> DEFINE line == Head(stdout)
<1>1. /\ stdout # <<>> /\ line.kind # "answer" /\ stdout' = Tail(stdout)
      /\ turn'.id = (IF Reopens(line) THEN last ELSE turn.id)
      /\ UNCHANGED <<last, call, pi, stdin, worked>>
  BY ReadLineFacts
<1>2. ~Refuses(line, turn.id)
  BY <1>1 DEF Refuses
<1>3. CASE ~Reopens(line)
  BY <1>1, <1>2, <1>3, ReadingFollowsWork
<1>4. CASE Reopens(line)
  <2>1. turn'.id = last /\ last \in worked
    BY <1>1, <1>4 DEF Reopens, LooksFollowWork
  <2> SUFFICES ASSUME NEW u, u = last
               PROVE  Pursued(u)' /\ LooksWait(u)' /\ IdleIsDone(u)'
    BY <1>1, <2>1 DEF LooksFollowWork
  <2>2. u \in worked' /\ Works(u)'
    BY <1>1, <2>1 DEF Works
  <2> QED BY <2>2 DEF Pursued, LooksWait, IdleIsDone
<1> QED BY <1>3, <1>4
\* It says something of its own accord: no look is answered by it.
LEMMA SpeakingFollowsWork ==
    ASSUME Core, LooksFollowWork, Work \/ EndTool \/ FinishRun \/ SpeakLate
    PROVE  LooksFollowWork'
<1>1. /\ ProcessOnly /\ stdin' = stdin /\ GoesOn
      /\ Remarks(stdout, stdout', Len(stdout'), pi.run)
  BY SpeaksFreely
<1>2. /\ stdout' \in Seq(Lines) /\ Len(stdout) \in Nat /\ Len(stdout') \in Nat
      /\ \A k \in 1 .. Len(stdout) : stdout'[k] = stdout[k]
      /\ \A k \in 1 .. Len(stdout') : k > Len(stdout) => stdout'[k].to = NoCommand
      /\ \A line \in Range(stdout) : line \in Range(stdout')
  <2>1. stdout' \in Seq(Lines) /\ Len(stdout) \in Nat /\ Len(stdout') \in Nat
    BY <1>1, CoreFacts, InPipe DEF Remarks
  <2>2. \A line \in Range(stdout) : line \in Range(stdout')
    BY <1>1, CoreFacts, HearsRemarks
  <2> QED BY <1>1, <2>1, <2>2 DEF Remarks, Remark
<1>3. turn' = turn /\ last' = last /\ call' = call /\ worked \subseteq worked'
  BY <1>1 DEF ProcessOnly, GoesOn
<1>4. CASE turn.id = None
  BY <1>3, <1>4, NobodyIsLookedAfter DEF LooksFollowWork
<1>5. CASE turn.id # None
  <2> DEFINE t == turn.id
  <2>1. /\ call["reactor"] = "close" \/ Pursued(t)
        /\ LooksWait(t) /\ IdleIsDone(t) /\ t \in Turns
        /\ last # None => last \in worked
    BY <1>5, CoreFacts DEF LooksFollowWork
  <2> HIDE DEF t
  <2> SUFFICES ASSUME NEW u, u = t
               PROVE  /\ call'["reactor"] = "close" \/ Pursued(u)'
                      /\ LooksWait(u)' /\ IdleIsDone(u)'
    BY <1>3, <2>1 DEF LooksFollowWork, t
  <2>2. (Works(u) => Works(u)') /\ (Refused(u) => Refused(u)')
    BY <1>1, <1>2, <2>1 DEF GoesOn, Refused
  <2>3. (Pursued(u) => Pursued(u)') /\ LooksWait(u)'
    BY <1>1, <2>1, <2>2 DEF Pursued, LooksWait
  <2>4. IdleIsDone(u)'
    <3> SUFFICES ASSUME NEW i \in 1 .. Len(stdout'), Looks(stdout'[i].to, u), stdout'[i].ok,
                        u \notin worked'
                 PROVE  \E j \in 1 .. (i - 1) : Refuses(stdout'[j], u)
      BY DEF IdleIsDone
    <3>1. i \in 1 .. Len(stdout)
      BY <1>2, NoCommandFields DEF Looks
    <3>2. PICK j \in 1 .. (i - 1) : Refuses(stdout[j], u)
      BY <1>2, <1>3, <2>1, <3>1 DEF IdleIsDone
    <3>3. stdout'[j] = stdout[j]
      BY <1>2, <3>1
    <3> QED BY <3>2, <3>3
  <2> QED BY <1>3, <2>1, <2>3, <2>4
<1> QED BY <1>4, <1>5

\* It takes the prompt, or refuses it; a look that comes after finds the turn
\* worked for, or finds the refusal on its way.
LEMMA TakingFollowsWork ==
    ASSUME Core, LooksFollowWork, TakeCommand \/ RefuseModel
    PROVE  LooksFollowWork'
<1> DEFINE x == Head(stdin)
<1>1. /\ ProcessOnly /\ stdin # <<>> /\ stdin' = Tail(stdin) /\ GoesOn
      /\ \E ok \in BOOLEAN :
            /\ Remarks(stdout, stdout', Len(stdout') - 1, pi.run)
            /\ stdout'[Len(stdout')] = Answer(x, ok)
            /\ x.kind = "prompt" /\ ok => \A t \in Turns : t = x.turn => Works(t)'
            /\ x.kind = "look" /\ ok => pi.state # "busy"
  BY TakesCommand
<1>2. PICK ok \in BOOLEAN :
         /\ Remarks(stdout, stdout', Len(stdout') - 1, pi.run)
         /\ stdout'[Len(stdout')] = Answer(x, ok)
         /\ x.kind = "prompt" /\ ok => \A t \in Turns : t = x.turn => Works(t)'
         /\ x.kind = "look" /\ ok => pi.state # "busy"
  BY <1>1
<1>3. /\ \A line \in Range(stdout) : line \in Range(stdout')
      /\ Answer(x, ok) \in Range(stdout')
  BY <1>1, <1>2, CoreFacts, HearsAnswer
<1>4. /\ stdin' \in Seq(Commands) /\ x \in Commands /\ x = stdin[1]
      /\ Len(stdin) \in Nat \ {0} /\ Len(stdin') = Len(stdin) - 1
      /\ \A i \in 1 .. Len(stdin') : stdin'[i] = stdin[i + 1] /\ i + 1 \in 1 .. Len(stdin)
  BY <1>1, CoreFacts, Taken
<1>5. turn' = turn /\ last' = last /\ call' = call /\ worked \subseteq worked'
  BY <1>1 DEF ProcessOnly, GoesOn
<1> HIDE DEF x
<1>6. /\ Len(stdout) \in Nat /\ Len(stdout') \in Nat /\ Len(stdout) < Len(stdout')
      /\ \A k \in 1 .. Len(stdout) : stdout'[k] = stdout[k]
      /\ \A k \in 1 .. Len(stdout') :
            k > Len(stdout) /\ k # Len(stdout') => stdout'[k].to = NoCommand
      /\ stdout'[Len(stdout')].to = x /\ stdout'[Len(stdout')].ok = ok
  <2>1. /\ Len(stdout) \in Nat /\ stdout' \in Seq(Lines) /\ Len(stdout') \in Nat
    BY <1>2, CoreFacts, InPipe DEF Remarks
  <2>2. Answer(x, ok).to = x /\ Answer(x, ok).ok = ok
    BY <1>4, AnswerFields
  <2> QED BY <1>2, <2>1, <2>2 DEF Remarks, Remark
<1>7. CASE turn.id = None
  BY <1>5, <1>7, NobodyIsLookedAfter DEF LooksFollowWork
<1>8. CASE turn.id # None
  <2> DEFINE t == turn.id
  <2>1. /\ call["reactor"] = "close" \/ Pursued(t)
        /\ LooksWait(t) /\ IdleIsDone(t) /\ t \in Turns
        /\ last # None => last \in worked
    BY <1>8, CoreFacts DEF LooksFollowWork
  <2> HIDE DEF t
  <2> SUFFICES ASSUME NEW u, u = t
               PROVE  /\ call'["reactor"] = "close" \/ Pursued(u)'
                      /\ LooksWait(u)' /\ IdleIsDone(u)'
    BY <1>5, <2>1 DEF LooksFollowWork, t
  <2>2. (Works(u) => Works(u)') /\ (Refused(u) => Refused(u)')
    BY <1>1, <1>3, <2>1 DEF GoesOn, Refused
  <2>3. Prompts(x, u) => Works(u)' \/ Refused(u)'
    <3>1. CASE ok
      BY <1>2, <2>1, <3>1 DEF Prompts
    <3>2. CASE ~ok /\ Prompts(x, u)
      <4>1. Refuses(Answer(x, ok), u)
        BY <1>4, <3>2, AnswerFields DEF Refuses
      <4> QED BY <1>3, <4>1 DEF Refused
    <3> QED BY <3>1, <3>2
  <2>4. \A k \in 1 .. Len(stdin) : Prompts(stdin[k], u) =>
           \/ Works(u)' \/ Refused(u)'
           \/ k - 1 \in 1 .. Len(stdin') /\ Prompts(stdin'[k - 1], u)
    <3> SUFFICES ASSUME NEW k \in 1 .. Len(stdin), Prompts(stdin[k], u), k # 1
                 PROVE  k - 1 \in 1 .. Len(stdin') /\ Prompts(stdin'[k - 1], u)
      BY <1>4, <2>3
    <3>1. k - 1 \in 1 .. Len(stdin') /\ (k - 1) + 1 = k
      BY <1>4
    <3> QED BY <1>4, <3>1
  <2>5. Pursued(u) => Pursued(u)'
    <3> SUFFICES ASSUME NEW y \in Range(stdin), Prompts(y, u), ~Works(u)', ~Refused(u)'
                 PROVE  \E z \in Range(stdin') : Prompts(z, u)
      BY <2>2 DEF Pursued
    <3>1. PICK k \in 1 .. Len(stdin) : stdin[k] = y
      BY CoreFacts, InPipe
    <3>2. k - 1 \in 1 .. Len(stdin') /\ Prompts(stdin'[k - 1], u)
      BY <2>4, <3>1
    <3>3. \A i \in 1 .. Len(stdin') : stdin'[i] \in Range(stdin')
      BY <1>4, InPipe
    <3> QED BY <3>2, <3>3
  <2>6. LooksWait(u)'
    <3> SUFFICES ASSUME NEW i \in 1 .. Len(stdin'), Looks(stdin'[i], u), ~Works(u)', ~Refused(u)'
                 PROVE  \E j \in 1 .. (i - 1) : Prompts(stdin'[j], u)
      BY DEF LooksWait
    <3>1. PICK k \in 1 .. i : Prompts(stdin[k], u)
      <4>1. i + 1 \in 1 .. Len(stdin) /\ stdin'[i] = stdin[i + 1] /\ (i + 1) - 1 = i
        BY <1>4
      <4> QED BY <2>1, <2>2, <4>1 DEF LooksWait
    <3>2. k \in 1 .. Len(stdin)
      BY <1>4
    <3>3. k - 1 \in 1 .. Len(stdin') /\ Prompts(stdin'[k - 1], u)
      BY <2>4, <3>1, <3>2
    <3>4. k - 1 \in 1 .. (i - 1)
      BY <1>4, <3>3
    <3> QED BY <3>3, <3>4
  <2>7. IdleIsDone(u)'
    <3> SUFFICES ASSUME NEW i \in 1 .. Len(stdout'), Looks(stdout'[i].to, u), stdout'[i].ok,
                        u \notin worked'
                 PROVE  \E j \in 1 .. (i - 1) : Refuses(stdout'[j], u)
      BY DEF IdleIsDone
    <3>1. CASE i \in 1 .. Len(stdout)
      <4>1. PICK j \in 1 .. (i - 1) : Refuses(stdout[j], u)
        BY <1>5, <1>6, <2>1, <3>1 DEF IdleIsDone
      <4>2. stdout'[j] = stdout[j]
        BY <1>6, <3>1
      <4> QED BY <4>1, <4>2
    <3>2. CASE i > Len(stdout)
      <4>1. i = Len(stdout')
        BY <1>6, <3>2, NoCommandFields DEF Looks
      <4>2. Looks(x, u) /\ ok
        BY <1>6, <4>1
      <4>3. ~Works(u)
        BY <1>2, <1>5, <4>2 DEF Looks, Works
      <4>4. Refused(u)
        <5>1. 1 \in 1 .. Len(stdin) /\ \A j \in 1 .. (1 - 1) : FALSE
          BY <1>4
        <5> QED BY <1>4, <2>1, <4>2, <4>3, <5>1 DEF LooksWait
      <4>5. PICK j \in 1 .. Len(stdout) : Refuses(stdout[j], u)
        BY <4>4, CoreFacts, InPipe DEF Refused
      <4>6. stdout'[j] = stdout[j] /\ j \in 1 .. (i - 1)
        BY <1>6, <4>1
      <4> QED BY <4>5, <4>6
    <3> QED BY <1>6, <3>1, <3>2
  <2> QED BY <1>5, <2>1, <2>5, <2>6, <2>7
<1> QED BY <1>7, <1>8
LEMMA NextFollowsWork ==
    ASSUME Core, LooksFollowWork, Next, Without({"stale_look"})'
    PROVE  LooksFollowWork'
<1>1. "stale_look" \notin races'
  BY DEF Without
<1>2. CASE StartSession
  <2>1. turn'.id = None /\ last' = None
    BY <1>2 DEF StartSession, Idle, Fresh
  <2> QED BY <2>1, NobodyIsLookedAfter
<1>3. CASE SendWithModel
  <2> DEFINE x == Command("model", None, "none", "reactor")
  <2>1. x \in Commands
    BY CommandFields DEF Callers
  <2>2. /\ Write(x) /\ UNCHANGED <<turn, last, pi, worked, stdout>>
        /\ call["reactor"] # "close"
    BY <1>3 DEF SendWithModel
  <2> HIDE DEF x
  <2> QED BY <2>1, <2>2, WritesFollowWork
<1>4. CASE Steer
  <2> DEFINE x == Command("steer", turn.id, "none", "stream")
  <2>1. x \in Commands
    BY TurnCommand DEF Callers
  <2>2. /\ Write(x) /\ UNCHANGED <<turn, last, pi, worked, stdout>>
        /\ call'["reactor"] = call["reactor"]
    BY <1>4, CoreFacts DEF Steer, Waits, Callers
  <2> HIDE DEF x
  <2> QED BY <2>1, <2>2, WritesFollowWork
<1>5. CASE Interrupt
  <2> DEFINE x == Command("abort", turn.id, "none", "reactor")
  <2>1. x \in Commands
    BY TurnCommand DEF Callers
  <2>2. /\ Write(x) /\ UNCHANGED <<last, pi, worked, stdout>> /\ turn'.id = turn.id
        /\ call["reactor"] # "close"
    BY <1>5, CoreFacts DEF Interrupt, TurnStates
  <2> HIDE DEF x
  <2> QED BY <2>1, <2>2, WritesFollowWork
<1>6. CASE StopSession
  <2>1. CASE turn.id = None
    <3>1. UNCHANGED <<turn, last, worked>>
      BY <1>6, <2>1 DEF StopSession
    <3> QED BY <2>1, <3>1, NobodyIsLookedAfter DEF LooksFollowWork
  <2>2. CASE turn.id # None
    <3> DEFINE x == Command("abort", turn.id, "none", "reactor")
    <3>1. x \in Commands
      BY TurnCommand DEF Callers
    <3>2. /\ Write(x) /\ UNCHANGED <<last, pi, worked, stdout>> /\ turn'.id = turn.id
          /\ call["reactor"] # "close"
      BY <1>6, <2>2, CoreFacts DEF StopSession, TurnStates
    <3> HIDE DEF x
    <3> QED BY <3>1, <3>2, WritesFollowWork
  <2> QED BY <2>1, <2>2
<1>7. CASE QuietPeriodOver
  <2> DEFINE x == Command("look", turn.id, turn.pending, "timer")
  <2>1. x \in Commands
    BY TurnCommand
  <2>2. /\ Write(x) /\ UNCHANGED <<last, pi, worked, stdout, call>> /\ turn'.id = turn.id
    BY <1>7, CoreFacts DEF QuietPeriodOver, TurnStates
  <2> HIDE DEF x
  <2> QED BY <2>1, <2>2, WritesFollowWork
<1>8. ASSUME NEW c \in Callers, Send(c) PROVE LooksFollowWork'
  <2>1. /\ session # "none" /\ UNCHANGED <<stdout, worked>>
        /\ \/ turn.id # None /\ FailActive /\ last' = last
           \/ BeginTurn(c) /\ NextTurn \in Turns
    BY <1>8, SendFacts
  <2>2. CASE FailActive /\ last' = last
    <3>1. turn'.id = None
      BY <2>1, <2>2, CoreFacts, GivesUpActive
    <3> QED BY <2>1, <2>2, <3>1, NobodyIsLookedAfter DEF LooksFollowWork
  <2>3. CASE BeginTurn(c) /\ NextTurn \in Turns
    <3>1. call[c] = "none"
      BY <1>8 DEF Send
    <3>2. stdout' \in Seq(Lines) /\ Range(stdout') \subseteq Range(stdout)
      BY <2>1, CoreFacts
    <3> QED BY <2>3, <3>1, <3>2, BeginTurnFollowsWork
  <2> QED BY <2>1, <2>2, <2>3
<1>9. CASE ReadAnswer
  <2> DEFINE x == Head(stdout).to
             ok == Head(stdout).ok
  <2>1. /\ session # "none" /\ x \in Commands /\ Sound(x) /\ Awaited(x, call)
        /\ stdout # <<>> /\ stdout' = Tail(stdout) /\ UNCHANGED <<pi, worked>>
        /\ \/ /\ UNCHANGED <<stdin, turn, last>>
              /\ call' = call \/ call' = [call EXCEPT ![x.by] = "none"]
              /\ ~Refuses(Head(stdout), turn.id)
           \/ x.by = "timer" /\ LookAnswered(x, ok) /\ UNCHANGED <<call, stdin>>
           \/ /\ x.by = "reactor" /\ BeginTurn(x.by) /\ call["reactor"] = "model"
              /\ NextTurn \in Turns
           \/ x.by \in Callers /\ Fails(x) /\ UNCHANGED stdin
    BY <1>9, ReadAnswerFacts
  <2>2. stdout' \in Seq(Lines) /\ Range(stdout') \subseteq Range(stdout)
    BY <2>1, ReadsLine
  <2>3. CASE /\ UNCHANGED <<stdin, turn, last>>
             /\ call' = call \/ call' = [call EXCEPT ![x.by] = "none"]
             /\ ~Refuses(Head(stdout), turn.id)
    <3>1. call["reactor"] = "close" => call'["reactor"] = "close"
      <4>1. x.by = "reactor" => call["reactor"] # "close"
        BY <2>1 DEF Awaited, Callers, Commands
      <4> HIDE DEF x
      <4> QED BY <2>3, <4>1, CoreFacts DEF Callers
    <3> HIDE DEF x, ok
    <3> QED BY <2>1, <2>3, <3>1, ReadingFollowsWork
  <2>4. CASE x.by = "timer" /\ LookAnswered(x, ok) /\ UNCHANGED <<call, stdin>>
    BY <1>1, <2>1, <2>4, LookAnsweredFollowsWork
  <2>5. CASE /\ x.by = "reactor" /\ BeginTurn(x.by) /\ call["reactor"] = "model"
             /\ NextTurn \in Turns
    <3> HIDE DEF x, ok
    <3> QED BY <2>2, <2>5, BeginTurnFollowsWork DEF Callers
  <2>6. CASE x.by \in Callers /\ Fails(x) /\ UNCHANGED stdin
    <3>1. x.by # "none"
      BY <2>6 DEF Callers
    <3>2. /\ last' = last
          /\ \/ turn'.id = None
             \/ /\ turn' = turn /\ x.kind \in {"look", "abort"}
                /\ call["reactor"] = "close" => call'["reactor"] = "close"
      BY <2>1, <2>6, <3>1, FailsEffect
    <3>3. CASE turn'.id = None
      BY <2>1, <3>2, <3>3, NobodyIsLookedAfter DEF LooksFollowWork
    <3>4. CASE /\ turn' = turn /\ x.kind \in {"look", "abort"}
               /\ call["reactor"] = "close" => call'["reactor"] = "close"
      <4>1. ~Refuses(Head(stdout), turn.id)
        BY <3>4 DEF Refuses, Prompts
      <4> QED BY <2>1, <2>6, <3>2, <3>4, <4>1, ReadingFollowsWork
    <3> QED BY <3>2, <3>3, <3>4
  <2> HIDE DEF x, ok
  <2> QED BY <2>1, <2>3, <2>4, <2>5, <2>6
<1>10. CASE ReadLine
  BY <1>10, ReadLineFollowsWork
<1>11. CASE TimeOut
  <2>1. PICK k \in 1 .. Len(stdin) :
           /\ stdin[k].by # "none" /\ Fails(stdin[k])
           /\ stdin' = [stdin EXCEPT ![k].by = "none"]
    BY <1>11 DEF TimeOut
  <2>2. UNCHANGED <<pi, stdout, worked>>
    BY <1>11 DEF TimeOut
  <2> DEFINE x == stdin[k]
             y == [x EXCEPT !.by = "none"]
  <2>3. x \in Commands /\ x \in Range(stdin) /\ Sound(x) /\ Awaited(x, call)
    <3>1. x \in Commands /\ x \in Range(stdin)
      BY CoreFacts, InPipe
    <3> QED BY <3>1, CoreFacts DEF Awaiting
  <2>4. session # "none"
    <3>1. stdin # <<>>
      BY CoreFacts
    <3> QED BY <3>1 DEF Core, NoProcess
  <2>5. /\ last' = last
        /\ \/ turn'.id = None
           \/ /\ turn' = turn /\ x.kind \in {"look", "abort"}
              /\ call["reactor"] = "close" => call'["reactor"] = "close"
    BY <2>1, <2>3, <2>4, FailsEffect
  <2>6. CASE turn'.id = None
    BY <2>2, <2>5, <2>6, NobodyIsLookedAfter DEF LooksFollowWork
  <2>7. CASE /\ turn' = turn /\ x.kind \in {"look", "abort"}
             /\ call["reactor"] = "close" => call'["reactor"] = "close"
    <3>1. /\ stdin' \in Seq(Commands) /\ Len(stdin') = Len(stdin)
          /\ \A l \in 1 .. Len(stdin) : l # k => stdin'[l] = stdin[l]
          /\ stdin'[k] = y
      BY <2>1, CoreFacts, GivesUp
    <3>2. stdin'[k].kind = x.kind /\ stdin'[k].turn = x.turn
      BY <2>3, <3>1 DEF Commands
    <3> QED BY <2>2, <2>5, <2>7, <3>1, <3>2, GivingUpFollowsWork
  <2> QED BY <2>5, <2>6, <2>7
<1>12. CASE ProcessExits
  <2>1. turn'.id = None /\ UNCHANGED <<last, worked>>
    BY <1>12 DEF ProcessExits, Idle, Fresh
  <2> QED BY <2>1, NobodyIsLookedAfter DEF LooksFollowWork
<1>13. CASE Process
  BY <1>13, SpeakingFollowsWork, TakingFollowsWork DEF Process
<1> QED BY <1>2, <1>3, <1>4, <1>5, <1>6, <1>7, <1>8, <1>9, <1>10, <1>11, <1>12, <1>13 DEF Next

-----------------------------------------------------------------------------
(* What is said of a run before it is finished, and the turn it is read in.  *)

\* The turn stays: no more than a line is read, which refuses nothing.
LEMMA EarlyStays ==
    ASSUME Core, EarlyIsActive, turn'.id = turn.id, worked' = worked, pi'.run = pi.run,
           \A command \in Range(stdin') :
              \/ command \in Range(stdin)
              \/ command.kind \in {"prompt", "steer"} => command.turn = turn.id,
           \/ stdout' = stdout
           \/ stdout # <<>> /\ stdout' = Tail(stdout) /\ ~Refuses(Head(stdout), turn.id),
           \A p \in filed' : p \in filed \/ p[3]
    PROVE  EarlyIsActive'
<1> DEFINE t == turn.id
<1>1. EarlyBeforeIdle(t)
  BY DEF EarlyIsActive
<1>2. turn'.id = t
  OBVIOUS
<1>3. Range(stdout') \subseteq Range(stdout)
  BY CoreFacts, Taken
<1>4. /\ pi'.run \in worked' \cup {None, t}
      /\ \A command \in Range(stdin') :
            command.kind \in {"prompt", "steer"} => command.turn \in worked' \cup {t}
      /\ \A line \in Range(stdout') : Early(line) => line.turn = t
      /\ \A p \in filed' : p[3]
  BY <1>3 DEF EarlyIsActive
<1> SUFFICES ASSUME NEW u, u = t PROVE EarlyBeforeIdle(u)'
  BY <1>2, <1>4 DEF EarlyIsActive
<1>5. CASE stdout' = stdout
  BY <1>1, <1>5 DEF EarlyBeforeIdle
<1>6. CASE stdout # <<>> /\ stdout' = Tail(stdout) /\ ~Refuses(Head(stdout), t)
  <2> HIDE DEF t
  <2>1. /\ Head(stdout) = stdout[1]
        /\ Len(stdout) \in Nat \ {0} /\ Len(stdout') = Len(stdout) - 1
        /\ \A i \in 1 .. Len(stdout') : stdout'[i] = stdout[i + 1] /\ i + 1 \in 1 .. Len(stdout)
    BY <1>6, CoreFacts, Taken
  <2> SUFFICES ASSUME NEW i \in 1 .. Len(stdout'), NEW j \in 1 .. Len(stdout'), i < j,
                      Looks(stdout'[i].to, u), stdout'[i].ok, Early(stdout'[j])
               PROVE  \E k \in 1 .. (i - 1) : Refuses(stdout'[k], u)
    BY DEF EarlyBeforeIdle
  <2>2. PICK k \in 1 .. i : Refuses(stdout[k], u)
    <3>1. /\ i + 1 \in 1 .. Len(stdout) /\ stdout'[i] = stdout[i + 1] /\ (i + 1) - 1 = i
          /\ j + 1 \in 1 .. Len(stdout) /\ stdout'[j] = stdout[j + 1] /\ i + 1 < j + 1
      BY <2>1
    <3> QED BY <1>1, <3>1 DEF EarlyBeforeIdle
  <2>3. k # 1
    BY <1>6, <2>1, <2>2
  <2>4. k - 1 \in 1 .. (i - 1) /\ stdout'[k - 1] = stdout[k]
    BY <2>1, <2>3
  <2> QED BY <2>2, <2>4
<1> QED BY <1>5, <1>6

\* Between turns nothing is left of a run that is not finished: a turn begins
\* or is opened again.
LEMMA EarlyBetween ==
    ASSUME Core, EarlyIsActive, turn.id = None, worked' = worked, pi'.run = pi.run,
           \A command \in Range(stdin') :
              \/ command \in Range(stdin)
              \/ command.kind \in {"prompt", "steer"} => command.turn = turn'.id,
           stdout' \in Seq(Lines), Range(stdout') \subseteq Range(stdout),
           \A p \in filed' : p \in filed \/ p[3]
    PROVE  EarlyIsActive'
<1>1. \A command \in Range(stdin) :
         command.kind \in {"prompt", "steer"} => command.turn \in worked
  BY CoreFacts DEF EarlyIsActive, Awaiting, Sound
<1>2. \A line \in Range(stdout) : ~Early(line)
  BY DEF EarlyIsActive, Early, Output, Core, RunsAreOfTurns
<1>3. \A line \in Range(stdout') : ~Early(line)
  BY <1>2
<1>4. \A j \in 1 .. Len(stdout') : ~Early(stdout'[j])
  BY <1>3, InPipe
<1> SUFFICES ASSUME NEW u, u = turn'.id PROVE EarlyBeforeIdle(u)'
  BY <1>1, <1>3 DEF EarlyIsActive
<1> QED BY <1>4 DEF EarlyBeforeIdle

\* A process that is gone, or starts, says nothing.
LEMMA EarlyEmpty ==
    ASSUME EarlyIsActive, stdin' = <<>>, stdout' = <<>>, pi'.run = None, filed' = filed
    PROVE  EarlyIsActive'
<1>1. Range(stdin') = {} /\ Range(stdout') = {} /\ Len(stdout') = 0
  BY DEF Range
<1> SUFFICES ASSUME NEW u, u = turn'.id PROVE EarlyBeforeIdle(u)'
  BY <1>1 DEF EarlyIsActive
<1> QED BY <1>1 DEF EarlyBeforeIdle

LEMMA NothingEarly ==
    ASSUME NEW o \in Seq(Lines), \A j \in 1 .. Len(o) : ~Early(o[j])
    PROVE  \A line \in Range(o) : ~Early(line)
BY InPipe

\* The look that ends the turn has found the process idle: all that was said of
\* the run has been read.
LEMMA EarlyEnds ==
    ASSUME Core, EarlyIsActive, stdout # <<>>, stdout' = Tail(stdout), turn.id \in worked,
           Looks(Head(stdout).to, turn.id), Head(stdout).ok, turn'.id = None,
           UNCHANGED <<pi, worked, stdin, filed>>
    PROVE  EarlyIsActive'
<1>1. /\ Head(stdout) = stdout[1] /\ stdout' \in Seq(Lines)
      /\ Len(stdout) \in Nat \ {0} /\ Len(stdout') = Len(stdout) - 1
      /\ \A i \in 1 .. Len(stdout') : stdout'[i] = stdout[i + 1] /\ i + 1 \in 1 .. Len(stdout)
  BY CoreFacts, Taken
<1>2. ASSUME NEW j \in 1 .. Len(stdout'), Early(stdout'[j]) PROVE FALSE
  <2>1. /\ 1 \in 1 .. Len(stdout) /\ j + 1 \in 1 .. Len(stdout) /\ 1 < j + 1
        /\ Early(stdout[j + 1])
    BY <1>1, <1>2
  <2>2. \E k \in 1 .. (1 - 1) : Refuses(stdout[k], turn.id)
    BY <1>1, <2>1 DEF EarlyIsActive, EarlyBeforeIdle
  <2> QED BY <2>2
<1>3. \A line \in Range(stdout') : ~Early(line)
  <2>1. stdout' \in Seq(Lines) /\ \A j \in 1 .. Len(stdout') : ~Early(stdout'[j])
    BY <1>1, <1>2
  <2> QED BY <2>1, NothingEarly
<1> SUFFICES ASSUME NEW u, u = turn'.id PROVE EarlyBeforeIdle(u)'
  BY <1>3 DEF EarlyIsActive
<1> QED BY <1>2 DEF EarlyBeforeIdle

\* What the process says of a run it has not finished is for the active turn,
\* which no look has found worked for.
LEMMA EarlySaid ==
    ASSUME Core, LooksFollowWork, EarlyIsActive, ProcessOnly, worked \subseteq worked',
           Range(stdin') \subseteq Range(stdin), pi'.run \in worked \cup {None, turn.id},
           stdout' \in Seq(Lines), Len(stdout) <= Len(stdout'),
           \A k \in 1 .. Len(stdout) : stdout'[k] = stdout[k],
           \A k \in 1 .. Len(stdout') :
              \/ k <= Len(stdout) \/ Remark(stdout'[k], pi.run)
              \/ k = Len(stdout') /\ stdout'[k].kind = "answer"
    PROVE  EarlyIsActive'
<1>1. turn' = turn /\ filed' = filed
  BY DEF ProcessOnly
<1>2. Len(stdout) \in Nat /\ Len(stdout') \in Nat
  BY CoreFacts, InPipe
<1>3. ASSUME NEW k \in 1 .. Len(stdout'), k > Len(stdout), Early(stdout'[k])
      PROVE  /\ Remark(stdout'[k], pi.run) /\ pi.run = turn.id
             /\ turn.id # None /\ turn.id \notin worked
  <2>1. Remark(stdout'[k], pi.run)
    BY <1>2, <1>3 DEF Early, Output
  <2>2. pi.run # None /\ pi.run \notin worked
    BY <1>3, <2>1 DEF Early, Remark
  <2> QED BY <2>1, <2>2 DEF EarlyIsActive
<1>4. ASSUME NEW line \in Range(stdout'), Early(line) PROVE line.turn = turn.id
  <2>1. PICK k \in 1 .. Len(stdout') : stdout'[k] = line
    BY InPipe
  <2>2. CASE k <= Len(stdout)
    <3>1. line \in Range(stdout)
      BY <1>2, <2>1, <2>2, CoreFacts, InPipe
    <3> QED BY <1>4, <3>1 DEF EarlyIsActive
  <2>3. CASE k > Len(stdout)
    BY <1>3, <1>4, <2>1, <2>3 DEF Remark
  <2> QED BY <1>2, <2>2, <2>3
<1>5. /\ pi'.run \in worked' \cup {None, turn.id}
      /\ \A command \in Range(stdin') :
            command.kind \in {"prompt", "steer"} => command.turn \in worked' \cup {turn.id}
      /\ \A p \in filed' : p[3]
  BY <1>1 DEF EarlyIsActive
<1> SUFFICES ASSUME NEW u, u = turn.id PROVE EarlyBeforeIdle(u)'
  BY <1>1, <1>4, <1>5 DEF EarlyIsActive
<1> SUFFICES ASSUME NEW i \in 1 .. Len(stdout'), NEW j \in 1 .. Len(stdout'), i < j,
                    Looks(stdout'[i].to, u), stdout'[i].ok, Early(stdout'[j])
             PROVE  \E k \in 1 .. (i - 1) : Refuses(stdout'[k], u)
  BY DEF EarlyBeforeIdle
<1>6. i <= Len(stdout)
  <2>1. ASSUME i > Len(stdout) PROVE Remark(stdout'[i], pi.run)
    BY <1>2, <2>1
  <2> QED BY <1>2, <2>1, NoCommandFields DEF Remark, Looks
<1>7. i \in 1 .. Len(stdout) /\ stdout'[i] = stdout[i]
  BY <1>2, <1>6
<1>8. PICK k \in 1 .. (i - 1) : Refuses(stdout[k], u)
  <2>1. CASE j <= Len(stdout)
    <3>1. j \in 1 .. Len(stdout) /\ stdout'[j] = stdout[j]
      BY <1>2, <2>1
    <3> QED BY <1>7, <3>1 DEF EarlyIsActive, EarlyBeforeIdle
  <2>2. CASE j > Len(stdout)
    <3>1. u # None /\ u \notin worked
      BY <1>3, <2>2
    <3>2. IdleIsDone(u)
      BY <3>1 DEF LooksFollowWork
    <3> QED BY <1>7, <3>1, <3>2 DEF IdleIsDone
  <2> QED BY <1>2, <2>1, <2>2
<1>9. stdout'[k] = stdout[k]
  BY <1>2, <1>7
<1> QED BY <1>8, <1>9

LEMMA EarlyInProcess ==
    ASSUME Core, LooksFollowWork, EarlyIsActive, Process
    PROVE  EarlyIsActive'
<1>1. CASE Work \/ EndTool \/ FinishRun \/ SpeakLate
  <2>1. /\ ProcessOnly /\ stdin' = stdin /\ pi'.run = pi.run /\ GoesOn
        /\ Remarks(stdout, stdout', Len(stdout'), pi.run)
    BY <1>1, SpeaksFreely
  <2>2. pi'.run \in worked \cup {None, turn.id} /\ worked \subseteq worked'
    BY <2>1 DEF EarlyIsActive, GoesOn
  <2>3. Len(stdout) \in Nat
    BY CoreFacts, InPipe
  <2>4. /\ stdout' \in Seq(Lines) /\ Len(stdout) <= Len(stdout')
        /\ \A k \in 1 .. Len(stdout) : stdout'[k] = stdout[k]
        /\ \A k \in 1 .. Len(stdout') : k <= Len(stdout) \/ Remark(stdout'[k], pi.run)
    BY <2>1, <2>3 DEF Remarks
  <2> QED BY <2>1, <2>2, <2>4, EarlySaid
<1>2. CASE TakeCommand \/ RefuseModel
  <2> DEFINE x == Head(stdin)
  <2>1. /\ ProcessOnly /\ stdin # <<>> /\ stdin' = Tail(stdin) /\ GoesOn
        /\ pi'.run \in {pi.run, x.turn}
        /\ pi'.run # pi.run => x.kind \in {"prompt", "steer"}
        /\ \E ok \in BOOLEAN :
              /\ Remarks(stdout, stdout', Len(stdout') - 1, pi.run)
              /\ stdout'[Len(stdout')] = Answer(x, ok)
    BY <1>2, TakesCommand
  <2>2. PICK ok \in BOOLEAN :
           /\ Remarks(stdout, stdout', Len(stdout') - 1, pi.run)
           /\ stdout'[Len(stdout')] = Answer(x, ok)
    BY <2>1
  <2>3. x \in Commands /\ x \in Range(stdin) /\ Range(stdin') \subseteq Range(stdin)
    BY <2>1, CoreFacts, Taken
  <2> HIDE DEF x
  <2>4. pi'.run \in worked \cup {None, turn.id} /\ worked \subseteq worked'
    BY <2>1, <2>3 DEF EarlyIsActive, GoesOn
  <2>5. stdout'[Len(stdout')].kind = "answer"
    BY <2>2, <2>3, AnswerFields
  <2>6. Len(stdout) \in Nat /\ stdout' \in Seq(Lines) /\ Len(stdout') \in Nat
    BY <2>2, CoreFacts, InPipe DEF Remarks
  <2>7. /\ Len(stdout) <= Len(stdout')
        /\ \A k \in 1 .. Len(stdout) : stdout'[k] = stdout[k]
        /\ \A k \in 1 .. Len(stdout') :
              \/ k <= Len(stdout) \/ Remark(stdout'[k], pi.run)
              \/ k = Len(stdout') /\ stdout'[k].kind = "answer"
    BY <2>2, <2>5, <2>6 DEF Remarks
  <2> QED BY <2>1, <2>3, <2>4, <2>6, <2>7, EarlySaid
<1> QED BY <1>1, <1>2 DEF Process

\* Unless the turn is given up, what fails is no prompt of the active turn.
LEMMA FailsKeeps ==
    ASSUME session # "none", NEW x, Sound(x), Fails(x), "given_up" \notin races'
    PROVE  turn' = turn /\ \A line : line.to = x => ~Refuses(line, turn.id)
<1>1. CASE x.kind \in {"look", "abort"}
  BY <1>1 DEF Fails, Refuses, Prompts
<1>2. CASE x.kind \notin {"look", "abort"}
  <2>1. FailActive
    BY <1>2 DEF Fails
  <2>2. turn.id = None /\ turn' = turn
    BY <2>1 DEF FailActive
  <2> QED BY <2>2 DEF Sound, Refuses, Prompts
<1> QED BY <1>1, <1>2

LEMMA EarlyWrites ==
    ASSUME Core, EarlyIsActive, turn'.id = turn.id, UNCHANGED <<pi, worked, filed, stdout>>,
           NEW x \in Commands, Write(x), x.kind \in {"prompt", "steer"} => x.turn = turn.id
    PROVE  EarlyIsActive'
<1>1. Range(stdin') \subseteq Range(stdin) \cup {x}
  BY CoreFacts, Writes
<1>2. \A command \in Range(stdin') :
         \/ command \in Range(stdin)
         \/ command.kind \in {"prompt", "steer"} => command.turn = turn.id
  BY <1>1
<1> QED BY <1>2, EarlyStays

LEMMA EarlyBegins ==
    ASSUME Core, EarlyIsActive, NEW c \in Callers, BeginTurn(c), NextTurn \in Turns,
           "overtaken" \notin races', UNCHANGED <<pi, worked, filed>>,
           stdout' \in Seq(Lines), Range(stdout') \subseteq Range(stdout)
    PROVE  EarlyIsActive'
<1> DEFINE n == NextTurn
           x == Command("prompt", n, "none", c)
<1>1. turn' = Fresh(n) /\ Write(x) /\ n \in Turns /\ turn.id = None
  BY DEF BeginTurn
<1> HIDE DEF n
<1>2. turn'.id = n
  BY <1>1 DEF Fresh
<1>3. x \in Commands /\ x.turn = n
  BY <1>1, CommandFields DEF States
<1> HIDE DEF x
<1>4. Range(stdin') \subseteq Range(stdin) \cup {x}
  BY <1>1, <1>3, CoreFacts, Writes
<1>5. \A command \in Range(stdin') :
         \/ command \in Range(stdin)
         \/ command.kind \in {"prompt", "steer"} => command.turn = turn'.id
  BY <1>2, <1>3, <1>4
<1> QED BY <1>1, <1>5, EarlyBetween

LEMMA EarlyRead == ASSUME Core, EarlyIsActive, ReadLine PROVE EarlyIsActive'
<1> DEFINE line == Head(stdout)
           id == Kept(line).id
<1>1. /\ stdout # <<>> /\ line.kind # "answer" /\ stdout' = Tail(stdout) /\ turn'.id = id
      /\ id = (IF Reopens(line) THEN last ELSE turn.id)
      /\ filed' = (IF line.kind \in Output /\ id # line.turn
                   THEN filed \cup {<<line.turn, id, line.late>>} ELSE filed)
      /\ UNCHANGED <<last, pi, stdin, worked>>
  BY ReadLineFacts
<1>2. /\ line \in Lines /\ line \in Range(stdout)
      /\ stdout' \in Seq(Lines) /\ Range(stdout') \subseteq Range(stdout)
  BY <1>1, ReadsLine
<1>3. ~Refuses(line, turn.id)
  BY <1>1 DEF Refuses
<1>4. line.turn # None
  BY <1>1, <1>2 DEF Core, RunsAreOfTurns
<1> HIDE DEF line, id
<1>5. line.kind \in Output /\ id # line.turn => line.late
  BY <1>1, <1>2, <1>4 DEF EarlyIsActive, Early, Reopens
<1>6. \A p \in filed' : p \in filed \/ p[3]
  BY <1>1, <1>5
<1>7. CASE Reopens(line)
  <2>1. turn.id = None
    BY <1>7 DEF Reopens
  <2> QED BY <1>1, <1>2, <1>6, <2>1, EarlyBetween
<1>8. CASE ~Reopens(line)
  BY <1>1, <1>3, <1>6, <1>8, EarlyStays DEF line
<1> QED BY <1>7, <1>8

LEMMA EarlyLook ==
    ASSUME Core, LooksFollowWork, EarlyIsActive, stdout # <<>>, stdout' = Tail(stdout),
           NEW x \in Commands, x = Head(stdout).to, Sound(x), x.by = "timer",
           LookAnswered(x, Head(stdout).ok), "stale_look" \notin races',
           UNCHANGED <<pi, worked, stdin, filed>>
    PROVE  EarlyIsActive'
<1>1. CASE Head(stdout).ok /\ ~queued /\ ~tools
  <2>1. turn.id = x.turn /\ turn' = Idle /\ x.kind = "look"
    BY <1>1 DEF LookAnswered, EndByLook, Sound
  <2>2. turn.id \in worked
    BY <1>1, <2>1, LookFindsWork
  <2>3. turn'.id = None /\ Looks(Head(stdout).to, turn.id)
    BY <2>1 DEF Idle, Fresh, Looks
  <2> QED BY <1>1, <2>2, <2>3, EarlyEnds
<1>2. CASE ~(Head(stdout).ok /\ ~queued /\ ~tools)
  <2>1. turn' = Schedule(turn, x.state)
    BY <1>2 DEF LookAnswered
  <2>2. turn'.id = turn.id
    <3>1. x.state \in States
      BY DEF Sound, Commands, Callers
    <3> QED BY <2>1, <3>1, CoreFacts, Schedules
  <2>3. ~Refuses(Head(stdout), turn.id)
    BY DEF Refuses, Prompts, Callers
  <2> QED BY <2>2, <2>3, EarlyStays
<1> QED BY <1>1, <1>2

LEMMA NextEarly ==
    ASSUME Core, LooksFollowWork, EarlyIsActive, Next,
           Without({"stale_look", "overtaken", "given_up"})'
    PROVE  EarlyIsActive'
<1>1. "stale_look" \notin races' /\ "overtaken" \notin races' /\ "given_up" \notin races'
  BY DEF Without
<1>2. CASE StartSession \/ ProcessExits
  <2>1. stdin' = <<>> /\ stdout' = <<>> /\ filed' = filed
    BY <1>2 DEF StartSession, ProcessExits, Core, NoProcess
  <2>2. CASE StartSession
    <3>1. pi' = [pi EXCEPT !.state = "idle", !.run = None]
      BY <2>2 DEF StartSession
    <3>2. pi'.run = None
      BY <3>1 DEF Core, TypeOK
    <3> QED BY <2>1, <3>2, EarlyEmpty
  <2>3. CASE ProcessExits
    <3>1. pi'.run = None
      BY <2>3 DEF ProcessExits
    <3> QED BY <2>1, <3>1, EarlyEmpty
  <2> QED BY <1>2, <2>2, <2>3
<1>3. CASE SendWithModel
  <2> DEFINE x == Command("model", None, "none", "reactor")
  <2>1. x \in Commands /\ x.kind = "model"
    BY CommandFields DEF Callers
  <2>2. Write(x) /\ UNCHANGED <<turn, pi, worked, filed, stdout>>
    BY <1>3 DEF SendWithModel
  <2> HIDE DEF x
  <2> QED BY <2>1, <2>2, EarlyWrites
<1>4. CASE Steer
  <2> DEFINE x == Command("steer", turn.id, "none", "stream")
  <2>1. x \in Commands /\ x.turn = turn.id
    BY TurnCommand DEF Callers
  <2>2. Write(x) /\ UNCHANGED <<turn, pi, worked, filed, stdout>>
    BY <1>4 DEF Steer
  <2> HIDE DEF x
  <2> QED BY <2>1, <2>2, EarlyWrites
<1>5. CASE Interrupt
  <2> DEFINE x == Command("abort", turn.id, "none", "reactor")
  <2>1. x \in Commands /\ x.turn = turn.id
    BY TurnCommand DEF Callers
  <2>2. Write(x) /\ UNCHANGED <<pi, worked, filed, stdout>> /\ turn'.id = turn.id
    BY <1>5, CoreFacts DEF Interrupt, TurnStates
  <2> HIDE DEF x
  <2> QED BY <2>1, <2>2, EarlyWrites
<1>6. CASE StopSession
  <2>1. CASE turn.id = None
    <3>1. UNCHANGED <<turn, pi, worked, filed, stdin, stdout>>
      BY <1>6, <2>1 DEF StopSession
    <3> QED BY <3>1, EarlyStays
  <2>2. CASE turn.id # None
    <3> DEFINE x == Command("abort", turn.id, "none", "reactor")
    <3>1. x \in Commands /\ x.turn = turn.id
      BY TurnCommand DEF Callers
    <3>2. Write(x) /\ UNCHANGED <<pi, worked, filed, stdout>> /\ turn'.id = turn.id
      BY <1>6, <2>2, CoreFacts DEF StopSession, TurnStates
    <3> HIDE DEF x
    <3> QED BY <3>1, <3>2, EarlyWrites
  <2> QED BY <2>1, <2>2
<1>7. CASE QuietPeriodOver
  <2> DEFINE x == Command("look", turn.id, turn.pending, "timer")
  <2>1. x \in Commands /\ x.turn = turn.id
    BY TurnCommand
  <2>2. Write(x) /\ UNCHANGED <<pi, worked, filed, stdout>> /\ turn'.id = turn.id
    BY <1>7, CoreFacts DEF QuietPeriodOver, TurnStates
  <2> HIDE DEF x
  <2> QED BY <2>1, <2>2, EarlyWrites
<1>8. ASSUME NEW c \in Callers, Send(c) PROVE EarlyIsActive'
  <2>1. /\ session # "none" /\ UNCHANGED <<pi, stdout, worked, filed>>
        /\ \/ turn.id # None /\ FailActive
           \/ BeginTurn(c) /\ NextTurn \in Turns
    BY <1>8, SendFacts
  <2>2. ~(turn.id # None /\ FailActive)
    BY <1>1, <2>1 DEF FailActive
  <2>3. stdout' \in Seq(Lines) /\ Range(stdout') \subseteq Range(stdout)
    BY <2>1, CoreFacts
  <2> QED BY <1>1, <2>1, <2>2, <2>3, EarlyBegins
<1>9. CASE ReadAnswer
  <2> DEFINE x == Head(stdout).to
             ok == Head(stdout).ok
  <2>1. /\ session # "none" /\ x \in Commands /\ Sound(x) /\ stdout # <<>> /\ stdout' = Tail(stdout)
        /\ UNCHANGED <<pi, worked, filed>>
        /\ \/ UNCHANGED <<stdin, turn>> /\ ~Refuses(Head(stdout), turn.id)
           \/ x.by = "timer" /\ LookAnswered(x, ok) /\ UNCHANGED stdin
           \/ x.by = "reactor" /\ BeginTurn(x.by) /\ NextTurn \in Turns
           \/ Fails(x) /\ UNCHANGED stdin
    BY <1>9, ReadAnswerFacts
  <2>2. stdout' \in Seq(Lines) /\ Range(stdout') \subseteq Range(stdout)
    BY <2>1, ReadsLine
  <2>3. CASE UNCHANGED <<stdin, turn>> /\ ~Refuses(Head(stdout), turn.id)
    <3> HIDE DEF x, ok
    <3> QED BY <2>1, <2>3, EarlyStays
  <2>4. CASE x.by = "timer" /\ LookAnswered(x, ok) /\ UNCHANGED stdin
    BY <1>1, <2>1, <2>4, EarlyLook
  <2>5. CASE x.by = "reactor" /\ BeginTurn(x.by) /\ NextTurn \in Turns
    <3> HIDE DEF x, ok
    <3> QED BY <1>1, <2>1, <2>2, <2>5, EarlyBegins DEF Callers
  <2>6. CASE Fails(x) /\ UNCHANGED stdin
    <3>1. turn' = turn /\ ~Refuses(Head(stdout), turn.id)
      BY <1>1, <2>1, <2>6, FailsKeeps
    <3> HIDE DEF x, ok
    <3> QED BY <2>1, <2>6, <3>1, EarlyStays
  <2> QED BY <2>1, <2>3, <2>4, <2>5, <2>6
<1>10. CASE ReadLine
  BY <1>10, EarlyRead
<1>11. CASE TimeOut
  <2>1. PICK k \in 1 .. Len(stdin) :
           Fails(stdin[k]) /\ stdin' = [stdin EXCEPT ![k].by = "none"]
    BY <1>11 DEF TimeOut
  <2>2. UNCHANGED <<pi, stdout, worked, filed>>
    BY <1>11 DEF TimeOut
  <2> DEFINE x == stdin[k]
             y == [x EXCEPT !.by = "none"]
  <2>3. x \in Commands /\ x \in Range(stdin) /\ Sound(x)
    <3>1. x \in Commands /\ x \in Range(stdin)
      BY CoreFacts, InPipe
    <3> QED BY <3>1, CoreFacts DEF Awaiting
  <2>4. session # "none"
    <3>1. stdin # <<>>
      BY CoreFacts
    <3> QED BY <3>1 DEF Core, NoProcess
  <2>5. \A command \in Range(stdin') : command \in Range(stdin) \/ command = y
    BY <2>1, CoreFacts, GivesUp
  <2>6. y.kind = x.kind /\ y.turn = x.turn
    BY <2>3 DEF Commands
  <2>7. turn' = turn
    BY <1>1, <2>1, <2>3, <2>4, FailsKeeps
  <2> HIDE DEF x, y
  <2>8. y.kind \in {"prompt", "steer"} => y.turn \in worked \cup {turn.id}
    BY <2>3, <2>6 DEF EarlyIsActive
  <2>9. \A command \in Range(stdin') :
           command.kind \in {"prompt", "steer"} => command.turn \in worked \cup {turn.id}
    BY <2>5, <2>8 DEF EarlyIsActive
  <2>10. EarlyBeforeIdle(turn.id)'
    BY <2>2, <2>7 DEF EarlyIsActive, EarlyBeforeIdle
  <2> QED BY <2>2, <2>7, <2>9, <2>10 DEF EarlyIsActive
<1>12. CASE Process
  BY <1>12, EarlyInProcess
<1> QED BY <1>2, <1>3, <1>4, <1>5, <1>6, <1>7, <1>8, <1>9, <1>10, <1>11, <1>12 DEF Next

-----------------------------------------------------------------------------
(* Who publishes that a turn is completed.                                   *)

Completes(t) == told'[t].ended > told[t].ended /\ told'[t].as = "completed"

LEMMA OthersCompleteNone ==
    ASSUME told \in [Turns -> Accounts],
           \/ told' = told
           \/ \E u \in Turns : told' = Opened(u)
           \/ \E u \in Turns, state \in States \ {"completed"} : told' = Ended(u, state),
           NEW t \in Turns
    PROVE  ~Completes(t)
<1>1. told[t].ended \in Nat
  BY DEF Accounts
<1>2. CASE told' = told
  BY <1>1, <1>2 DEF Completes
<1>3. ASSUME NEW u \in Turns, told' = Opened(u) PROVE ~Completes(t)
  <2>1. told'[t].ended = told[t].ended
    <3>1. CASE t = u
      BY <1>3, <3>1, OpenedFields
    <3>2. CASE t # u
      <4>1. told'[t] = told[t]
        BY <1>3, <3>2, OpenedFields
      <4> QED BY <4>1
    <3> QED BY <3>1, <3>2
  <2> QED BY <1>1, <2>1 DEF Completes
<1>4. ASSUME NEW u \in Turns, NEW state \in States \ {"completed"}, told' = Ended(u, state)
      PROVE  ~Completes(t)
  <2>1. CASE t = u
    <3>1. told'[t].as = state
      BY <1>4, <2>1, EndedFields
    <3> QED BY <3>1 DEF Completes
  <2>2. CASE t # u
    <3>1. told'[t] = told[t]
      BY <1>4, <2>2, EndedFields
    <3> QED BY <1>1, <3>1 DEF Completes
  <2> QED BY <2>1, <2>2
<1> QED BY <1>2, <1>3, <1>4

\* Giving up completes nothing.
LEMMA GivingUpCompletesNone ==
    ASSUME Core, FailActive \/ \E x : Fails(x), NEW t \in Turns
    PROVE  ~Completes(t)
<1>1. told \in [Turns -> Accounts] /\ "failed" \in States \ {"completed"}
  BY CoreFacts DEF States
<1>2. FailActive \/ told' = told
  BY DEF Fails
<1>3. told' = told \/ \E u \in Turns : told' = Ended(u, "failed")
  BY <1>2, CoreFacts DEF FailActive
<1> QED BY <1>1, <1>3, OthersCompleteNone

LEMMA OnlyLooksComplete ==
    ASSUME Core, LooksFollowWork, Next, "stale_look" \notin races',
           NEW t \in Turns, Completes(t)
    PROVE  t \in worked
<1>1. told \in [Turns -> Accounts]
  BY CoreFacts
<1>2. CASE StartSession \/ SendWithModel \/ Steer \/ Interrupt \/ StopSession \/ QuietPeriodOver
           \/ Process
  <2>1. told' = told
    BY <1>2 DEF StartSession, SendWithModel, Steer, Interrupt, StopSession, QuietPeriodOver,
                Process, TakeCommand, RefuseModel, Work, EndTool, FinishRun, SpeakLate,
                ProcessOnly
  <2> QED BY <1>1, <2>1, OthersCompleteNone
<1>3. ASSUME NEW c, BeginTurn(c), NextTurn \in Turns PROVE FALSE
  <2>1. \E u \in Turns : told' = Opened(u)
    BY <1>3 DEF BeginTurn
  <2> QED BY <1>1, <2>1, OthersCompleteNone
<1>4. ASSUME NEW c \in Callers, Send(c) PROVE FALSE
  BY <1>3, <1>4, SendFacts, GivingUpCompletesNone
<1>5. CASE ReadAnswer
  <2> DEFINE x == Head(stdout).to
             ok == Head(stdout).ok
  <2>1. /\ stdout # <<>> /\ x \in Commands /\ Sound(x)
        /\ \/ told' = told
           \/ x.by = "timer" /\ LookAnswered(x, ok)
           \/ BeginTurn(x.by) /\ NextTurn \in Turns
           \/ Fails(x)
    BY <1>5, ReadAnswerFacts
  <2>2. told' # told
    BY <1>1, OthersCompleteNone
  <2>3. x.by = "timer" /\ LookAnswered(x, ok)
    <3> HIDE DEF x, ok
    <3> QED BY <1>3, <2>1, <2>2, GivingUpCompletesNone
  <2>4. /\ ok /\ told' = Ended(x.turn, x.state) /\ turn.id = x.turn
    BY <2>2, <2>3 DEF LookAnswered, EndByLook
  <2>5. x.turn \in worked
    BY <2>1, <2>3, <2>4, LookFindsWork
  <2>6. x.turn \in Turns /\ x.state \in States
    BY <2>1, <2>3 DEF Sound, Commands, Callers
  <2>7. t = x.turn
    <3> DEFINE u == x.turn
               state == x.state
    <3>1. u \in Turns /\ state \in States /\ told' = Ended(u, state)
      BY <2>4, <2>6
    <3> HIDE DEF u, state
    <3>2. t # u => told'[t] = told[t]
      BY <1>1, <3>1, EndedFields
    <3>3. told[t].ended \in Nat
      BY <1>1 DEF Accounts
    <3>4. t = u
      BY <3>2, <3>3 DEF Completes
    <3> QED BY <3>4 DEF u
  <2> QED BY <2>5, <2>7
<1>6. CASE ReadLine
  <2>1. told' = told \/ \E u \in Turns : told' = Opened(u)
    BY <1>6, ReadLineFacts, CoreFacts DEF Reopens
  <2> QED BY <1>1, <2>1, OthersCompleteNone
<1>7. CASE TimeOut
  <2>1. \E x : Fails(x)
    BY <1>7 DEF TimeOut
  <2> QED BY <2>1, GivingUpCompletesNone
<1>8. CASE ProcessExits
  <2>1. told' = told \/ \E u \in Turns, state \in States \ {"completed"} : told' = Ended(u, state)
    <3>1. CASE turn.id = None
      BY <1>8, <3>1 DEF ProcessExits
    <3>2. CASE turn.id # None
      <4>1. told' = Ended(turn.id, IF turn.aborted THEN "interrupted" ELSE "failed")
        BY <1>8, <3>2 DEF ProcessExits
      <4>2. (IF turn.aborted THEN "interrupted" ELSE "failed") \in States \ {"completed"}
        BY DEF States
      <4> QED BY <3>2, <4>1, <4>2, CoreFacts
    <3> QED BY <3>1, <3>2
  <2> QED BY <1>1, <2>1, OthersCompleteNone
<1> QED BY <1>2, <1>4, <1>5, <1>6, <1>7, <1>8 DEF Next

-----------------------------------------------------------------------------
(* The theorems.                                                             *)

LEMMA PiInvariantInitially == ASSUME Init PROVE PiInv
<1>1. MaxTurns \in Nat \ {0}
  BY PiAssumption
<1>2. /\ stdin \in Seq(Commands) /\ stdout \in Seq(Lines) /\ Len(stdin) = 0 /\ Len(stdout) = 0
      /\ Range(stdin) = {} /\ Range(stdout) = {}
  BY DEF Init, Range
<1>3. \A t \in Turns : told[t] \in Accounts /\ told[t].opened = 0 /\ told[t].ended = 0
  BY DEF Init, Accounts
<1>4. turn \in TurnStates /\ turn.id = None /\ ~turn.armed
  BY FreshTurn DEF Init
<1>5. budget \in [Kinds -> Nat]
  BY PiAssumption DEF Init
<1>6. TypeOK
  BY <1>2, <1>3, <1>4, <1>5 DEF Init, TypeOK, Answers, Accounts
<1>7. NoProcess /\ RunsAreOfTurns
  BY <1>2, <1>4 DEF Init, NoProcess, RunsAreOfTurns
<1>8. TurnsAreBegun
  <2>1. Started(0)
    BY <1>3 DEF Started, Turns
  <2>2. 0 \in 0 .. MaxTurns
    BY <1>1
  <2>3. Begun(turn.id) /\ Begun(last) /\ Begun(pi.run)
    BY <1>4 DEF Init, Begun
  <2>4. call["reactor"] # "model"
    BY DEF Init, Callers
  <2> QED BY <1>2, <2>1, <2>2, <2>3, <2>4 DEF TurnsAreBegun
<1>9. AnswersAreAwaited
  <2>1. Range(Asked(stdout)) = {} /\ Len(Asked(stdout)) = 0
    <3>1. Len(Asked(stdout)) = Len(stdout)
          /\ \A x \in Range(Asked(stdout)) : \E i \in 1 .. Len(stdout) : x = stdout[i].to
      BY <1>2, AskedOf
    <3> QED BY <1>2, <3>1
  <2>2. OneOfEach(stdin) /\ OneOfEach(Asked(stdout))
    BY <1>2, <2>1 DEF OneOfEach
  <2>3. call["stream"] = "none"
    BY DEF Init, Callers
  <2> QED BY <1>2, <2>1, <2>2, <2>3 DEF AnswersAreAwaited, Awaiting
<1>10. Shown
  BY <1>3, <1>4 DEF Shown, Running, Turns, None
<1>11. RunsAreFollowed
  <2>1. FiledUnder = 0 /\ pi.run = 0 /\ filed = {}
    BY <1>4 DEF Init, FiledUnder, None
  <2> QED BY <1>2, <2>1 DEF RunsAreFollowed
<1>12. LooksFollowWork
  BY <1>4 DEF Init, LooksFollowWork
<1>13. EarlyIsActive
  <2>1. pi.run = None /\ filed = {} /\ Range(stdin) = {} /\ Range(stdout) = {}
    BY <1>2 DEF Init
  <2>2. EarlyBeforeIdle(turn.id)
    BY <1>2 DEF EarlyBeforeIdle
  <2> QED BY <2>1, <2>2 DEF EarlyIsActive
<1> QED BY <1>6, <1>7, <1>8, <1>9, <1>10, <1>11, <1>12, <1>13 DEF PiInv

LEMMA PiInvariantKept == ASSUME PiInv, [Next]_vars PROVE PiInv'
<1>1. Core
  BY DEF PiInv, Core
<1>2. CASE Next
  <2>1. Core' /\ races \subseteq races'
    BY <1>1, <1>2, NextCore, RacesGrow
  <2>2. \A some : Without(some)' => Without(some)
    BY <2>1 DEF Without
  <2>3. Without({"stale_look", "overtaken"})' => Shown'
    BY <1>1, <1>2, <2>2, NextShown DEF PiInv
  <2>4. Without({"stale_look", "overtaken", "given_up"})' => RunsAreFollowed'
    BY <1>1, <1>2, <2>2, NextFollowed DEF PiInv
  <2>5. Without({"stale_look"})' => LooksFollowWork'
    BY <1>1, <1>2, <2>2, NextFollowsWork DEF PiInv
  <2>6. Without({"stale_look", "overtaken", "given_up"})' => EarlyIsActive'
    <3> SUFFICES ASSUME Without({"stale_look", "overtaken", "given_up"})' PROVE EarlyIsActive'
      OBVIOUS
    <3>1. Without({"stale_look", "overtaken", "given_up"})
      BY <2>2
    <3>2. Without({"stale_look"})
      BY <3>1 DEF Without
    <3>3. LooksFollowWork /\ EarlyIsActive
      BY <3>1, <3>2 DEF PiInv
    <3> QED BY <1>1, <1>2, <3>3, NextEarly
  <2> QED BY <2>1, <2>3, <2>4, <2>5, <2>6 DEF PiInv, Core
<1>3. CASE UNCHANGED vars
  <2>1. TypeOK' /\ NoProcess' /\ RunsAreOfTurns' /\ AnswersAreAwaited'
    BY <1>1, <1>3 DEF vars, Core, TypeOK, NoProcess, RunsAreOfTurns, AnswersAreAwaited
  <2>2. TurnsAreBegun'
    BY <1>1, <1>3 DEF vars, Core, TurnsAreBegun, Started, Begun, NextTurn
  <2>3. Without({"stale_look", "overtaken"})' => Shown'
    BY <1>3 DEF vars, PiInv, Without, Shown, Running
  <2>4. Without({"stale_look", "overtaken", "given_up"})' => RunsAreFollowed'
    BY <1>3 DEF vars, PiInv, Without, RunsAreFollowed, FiledUnder
  <2>5. Without({"stale_look"})' => LooksFollowWork'
    BY <1>3 DEF vars, PiInv, Without, LooksFollowWork, Pursued, Works, Refused, LooksWait,
                IdleIsDone
  <2>6. Without({"stale_look", "overtaken", "given_up"})' => EarlyIsActive'
    BY <1>3 DEF vars, PiInv, Without, EarlyIsActive, EarlyBeforeIdle
  <2> QED BY <2>1, <2>2, <2>3, <2>4, <2>5, <2>6 DEF PiInv
<1> QED BY <1>2, <1>3

\* The variables keep their types, nothing is left of a process that is gone,
\* every command that a caller waits for is under way or its answer is, and
\* turns are told, filed and looked after as PiInv says, whatever the number of
\* turns and of lines, faults and stops (PiCodexAdapter.ts, whole).
THEOREM PiInvariant == Spec => []PiInv
<1>1. Init => PiInv
  BY PiInvariantInitially
<1>2. PiInv /\ [Next]_vars => PiInv'
  BY PiInvariantKept
<1> QED BY <1>1, <1>2, PTL DEF Spec

\* A turn is shown as running exactly while the adapter holds it, unless a look
\* outlived its turn or a turn was started while the model was being set
\* (publications of sendTurn, finalizeTurnCompletion and the exit handler).
THEOREM TurnsAreShownAsHeld == Spec => []ShownAsHeld
<1>1. PiInv => ShownAsHeld
  <2> SUFFICES ASSUME PiInv, Without({"stale_look", "overtaken"}), NEW t \in Turns
               PROVE  /\ told[t].opened - told[t].ended \in {0, 1}
                      /\ Running(t) <=> turn.id = t
    BY DEF ShownAsHeld
  <2>1. told[t].opened \in Nat /\ told[t].ended \in Nat
    BY DEF PiInv, TypeOK, Accounts
  <2> QED BY <2>1 DEF PiInv, Shown
<1> QED BY <1>1, PiInvariant, PTL

\* What the process says while it works for a turn is published under that turn,
\* and what it says after the run is finished under that turn or a later one,
\* never under none, unless a turn was given up or one of the two races above
\* happened (handleProcessEvent, the reopening of lastCompletedTurn).
THEOREM OutputGoesToItsTurn == Spec => []OutputIsFiled
<1>1. PiInv => OutputIsFiled
  BY DEF PiInv, OutputIsFiled, RunsAreFollowed, EarlyIsActive
<1> QED BY <1>1, PiInvariant, PTL

\* The last answer of a turn that is shown as completed is that of a process
\* that has done its work: only finalizeTurnCompletion publishes "completed",
\* and the state it has asked for came after the prompt was taken.
THEOREM OnlyWorkIsCompleted == Spec => CompletedWasWorked
<1> DEFINE Shows == \A t \in Turns :
               (told'[t].ended > told[t].ended /\ told'[t].as = "completed"
                  /\ Without({"stale_look"})') => t \in worked
<1>1. PiInv /\ [Next]_vars => [Shows]_vars
  <2> SUFFICES ASSUME PiInv, Next, NEW t \in Turns, Completes(t), Without({"stale_look"})'
               PROVE  t \in worked
    BY DEF Completes
  <2>1. Core /\ "stale_look" \notin races'
    BY DEF PiInv, Core, Without
  <2>2. races \subseteq races'
    BY <2>1, RacesGrow
  <2>3. LooksFollowWork
    BY <2>1, <2>2 DEF PiInv, Without
  <2> QED BY <2>1, <2>3, OnlyLooksComplete
<1>2. [][Shows]_vars <=> CompletedWasWorked
  BY DEF CompletedWasWorked
<1> HIDE DEF Shows
<1> QED BY <1>1, <1>2, PiInvariant, PTL DEF Spec

-----------------------------------------------------------------------------
(* The subscription of a client to the events.                               *)

\* A set of naturals that is not empty has a least element: of the intervals up
\* to its members one contains no smaller one.
LEMMA LeastNatural ==
  ASSUME NEW S \in SUBSET Nat, S # {}
  PROVE  \E m \in S : \A n \in S : m <= n
<1> DEFINE R == StrictSubsetOrdering(Nat)
           F == FiniteSubsetsOf(Nat)
           T == {0..x : x \in S}
<1>1. IsWellFoundedOn(R, F)
  BY FS_StrictSubsetOrderingWellFounded
<1>2. T \subseteq F /\ T # {}
  <2>1. \A x \in Nat : 0..x \in F
    BY FS_Interval DEF FiniteSubsetsOf
  <2> QED BY <2>1
<1>3. \E u \in T : \A v \in T : ~ (<<v, u>> \in R)
  <2> HIDE DEF R, F, T
  <2> QED BY <1>1, <1>2, WFMin
<1>4. PICK m \in S : \A n \in S : ~ (<<0..n, 0..m>> \in R)
  BY <1>3
<1>5. ASSUME NEW n \in S, n < m PROVE FALSE
  <2>1. 0..n \subseteq 0..m /\ 0..n # 0..m
    <3>1. m \in 0..m /\ m \notin 0..n
      BY <1>5
    <3>2. 0..n \subseteq 0..m
      BY <1>5
    <3> QED BY <3>1, <3>2
  <2>2. 0..n \in SUBSET Nat /\ 0..m \in SUBSET Nat
    BY <1>5
  <2>3. <<0..n, 0..m>> \in R
    BY <2>1, <2>2 DEF StrictSubsetOrdering
  <2> QED BY <1>4, <2>3
<1> QED BY <1>5

-----------------------------------------------------------------------------
\* An event of the store that is put in order extends what was sent, in order.
LEMMA ResequenceInOrder ==
  ASSUME SubscriptionInv, NEW e \in 1..appended, Resequence(e)
  PROVE  /\ next' \in Nat /\ delivered' \in Seq(Nat) /\ held' \subseteq 1..appended
         /\ next' = from + Len(delivered') + 1 /\ next' <= appended + 1
         /\ \A i \in 1..Len(delivered') : delivered'[i] = from + i
<1>1. /\ appended \in Nat /\ MaxEvents \in Nat /\ appended <= MaxEvents
      /\ next \in Nat /\ from \in Nat /\ delivered \in Seq(Nat) /\ held \subseteq 1..appended
      /\ next = from + Len(delivered) + 1 /\ next <= appended + 1
      /\ \A i \in 1..Len(delivered) : delivered[i] = from + i
  BY SubscriptionAssumption DEF SubscriptionInv, SubscriptionTypeOK
<1>2. CASE e < next \/ e \in held
  BY <1>1, <1>2 DEF Resequence
<1>3. CASE ~ (e < next \/ e \in held)
  <2> DEFINE known == held \cup {e}
             gaps  == {n \in next..(MaxEvents + 1) : n \notin known}
             gap   == Min(gaps)
             sent  == [i \in 1..(gap - next) |-> next + i - 1]
  <2>1. /\ next' = gap
        /\ held' = {n \in known : n > gap}
        /\ delivered' = delivered \o sent
    BY <1>3 DEF Resequence
  <2>2. known \subseteq 1..appended
    BY <1>1
  <2>3. gaps \in SUBSET Nat /\ appended + 1 \in gaps
    <3>1. appended + 1 \in next..(MaxEvents + 1) /\ appended + 1 \notin known
      BY <1>1, <2>2
    <3> QED BY <1>1, <3>1
  <2>4. gap \in gaps /\ \A n \in gaps : gap <= n
    <3>1. \E m \in gaps : \A n \in gaps : m <= n
      <4> HIDE DEF gaps
      <4> QED BY <2>3, LeastNatural
    <3> QED BY <3>1 DEF Min
  <2>5. gap \in Nat /\ next <= gap /\ gap <= appended + 1
    BY <1>1, <2>3, <2>4
  <2> HIDE DEF gap
  <2>6. sent \in Seq(Nat) /\ Len(sent) = gap - next /\ gap - next \in Nat
        /\ \A i \in 1..(gap - next) : sent[i] = next + i - 1
    <3>1. gap - next \in Nat /\ \A i \in 1..(gap - next) : next + i - 1 \in Nat
      BY <1>1, <2>5
    <3>2. sent \in [1..(gap - next) -> Nat]
      BY <3>1
    <3> QED BY <3>1, <3>2
  <2> DEFINE l == Len(delivered)
             k == gap - next
  <2> HIDE DEF sent, l, k
  <2>7. /\ delivered \o sent \in Seq(Nat)
        /\ Len(delivered \o sent) = l + k
        /\ \A i \in 1..l : (delivered \o sent)[i] = delivered[i]
        /\ \A i \in 1..(l + k) : i \notin 1..l =>
              i - l \in 1..k /\ (delivered \o sent)[i] = sent[i - l]
    <3>1. delivered \in Seq(Nat) /\ sent \in Seq(Nat) /\ Len(delivered) = l /\ Len(sent) = k
      BY <1>1, <2>6 DEF l, k
    <3>2. /\ delivered \o sent \in Seq(Nat)
          /\ Len(delivered \o sent) = l + k
          /\ \A i \in 1..(l + k) : (delivered \o sent)[i] =
               IF i <= l THEN delivered[i] ELSE sent[i - l]
      BY <3>1, ConcatProperties
    <3>3. l \in Nat /\ k \in Nat
      BY <3>1, LenProperties
    <3>4. /\ \A i \in 1..l : i \in 1..(l + k) /\ i <= l
          /\ \A i \in 1..(l + k) : i \notin 1..l => i - l \in 1..k /\ ~ (i <= l)
      BY <3>3
    <3> QED BY <3>2, <3>4
  <2>8. l \in Nat /\ k \in Nat /\ next = from + l + 1 /\ gap = from + (l + k) + 1
    BY <1>1, <2>5, <2>6 DEF l, k
  <2>9. \A i \in 1..(l + k) : (delivered \o sent)[i] = from + i
    <3> SUFFICES ASSUME NEW i \in 1..(l + k) PROVE (delivered \o sent)[i] = from + i
      OBVIOUS
    <3>1. CASE i \in 1..l
      BY <1>1, <2>7, <3>1 DEF l
    <3>2. CASE i \notin 1..l
      <4>1. i - l \in 1..k /\ (delivered \o sent)[i] = next + (i - l) - 1
        BY <2>6, <2>7, <3>2 DEF k
      <4>2. next + (i - l) - 1 = from + i
        BY <1>1, <2>8
      <4> QED BY <4>1, <4>2
    <3> QED BY <3>1, <3>2
  <2>10. held' \subseteq 1..appended
    BY <2>1, <2>2
  <2> QED BY <2>1, <2>5, <2>7, <2>8, <2>9, <2>10
<1> QED BY <1>2, <1>3

\* The rest of a sequence of stored events is stored, and so is its first.
LEMMA StoredTail ==
  ASSUME NEW events \in Seq(Nat), events # <<>>, Stored(events)
  PROVE  Head(events) \in 1..appended /\ Tail(events) \in Seq(Nat) /\ Stored(Tail(events))
<1>1. /\ Head(events) = events[1] /\ 1 \in 1..Len(events) /\ Tail(events) \in Seq(Nat)
      /\ Len(Tail(events)) = Len(events) - 1 /\ Len(events) \in Nat
      /\ \A i \in 1..Len(Tail(events)) : Tail(events)[i] = events[i + 1]
  OBVIOUS
<1>2. \A i \in 1..Len(Tail(events)) : i + 1 \in 1..Len(events)
  BY <1>1
<1> QED BY <1>1, <1>2 DEF Stored

\* Taking an event off one of the two streams.
LEMMA TakeStep ==
  ASSUME SubscriptionInv, TakeReplay \/ TakeLive
  PROVE  SubscriptionInv'
<1>1. PICK e \in 1..appended :
        /\ Resequence(e)
        /\ UNCHANGED <<engine, phase, from>>
        /\ phase # "none"
        /\ replay' \in Seq(Nat) /\ Stored(replay')
        /\ live' \in Seq(Nat) /\ Stored(live')
  <2>1. CASE TakeReplay
    <3>1. /\ Head(replay) \in 1..appended
          /\ Tail(replay) \in Seq(Nat) /\ Stored(Tail(replay))
      BY <2>1, StoredTail DEF TakeReplay, SubscriptionInv, SubscriptionTypeOK
    <3> QED BY <2>1, <3>1 DEF TakeReplay, SubscriptionInv, SubscriptionTypeOK
  <2>2. CASE TakeLive
    <3>1. /\ Head(live) \in 1..appended
          /\ Tail(live) \in Seq(Nat) /\ Stored(Tail(live))
      BY <2>2, StoredTail DEF TakeLive, SubscriptionInv, SubscriptionTypeOK
    <3> QED BY <2>2, <3>1 DEF TakeLive, SubscriptionInv, SubscriptionTypeOK
  <2> QED BY <2>1, <2>2
<1>2. /\ next' \in Nat /\ delivered' \in Seq(Nat) /\ held' \subseteq 1..appended
      /\ next' = from + Len(delivered') + 1 /\ next' <= appended + 1
      /\ \A i \in 1..Len(delivered') : delivered'[i] = from + i
  BY <1>1, ResequenceInOrder
<1>3. SubscriptionTypeOK'
  BY <1>1, <1>2 DEF SubscriptionInv, SubscriptionTypeOK, engine
<1>4. Stored(replay)' /\ Stored(live)'
  BY <1>1 DEF Stored, engine
<1> QED BY <1>1, <1>2, <1>3, <1>4 DEF SubscriptionInv, engine

\* Reading the store: everything after the read model's sequence, up to now.
LEMMA ReadReplayStep ==
  ASSUME SubscriptionInv, ReadReplay
  PROVE  SubscriptionInv'
<1>1. /\ phase = "snapshot" /\ phase' = "replay"
      /\ UNCHANGED <<engine, from, live, next, held, delivered>>
  BY DEF ReadReplay
<1>2. appended \in Nat /\ from \in Nat /\ from <= appended
  BY DEF SubscriptionInv, SubscriptionTypeOK
<1>3. replay' \in Seq(Nat) /\ Stored(replay')
  <2>1. CASE replay' = [i \in 1..(appended - from) |-> from + i]
    <3> DEFINE n == appended - from
    <3>1. n \in Nat /\ \A i \in 1..n : from + i \in 1..appended /\ from + i \in Nat
      BY <1>2
    <3>2. replay' = [i \in 1..n |-> from + i]
      BY <2>1
    <3> HIDE DEF n
    <3>3. replay' \in [1..n -> Nat] /\ \A i \in 1..n : replay'[i] \in 1..appended
      BY <3>1, <3>2
    <3>4. replay' \in Seq(Nat) /\ Len(replay') = n
      BY <3>1, <3>3
    <3> QED BY <1>1, <3>3, <3>4 DEF Stored, engine
  <2>2. CASE UNCHANGED replay
    BY <2>2 DEF SubscriptionInv, SubscriptionTypeOK
  <2> QED BY <2>1, <2>2 DEF ReadReplay
<1>4. SubscriptionTypeOK'
  BY <1>1, <1>3 DEF SubscriptionInv, SubscriptionTypeOK, engine
<1>5. Stored(replay)' /\ Stored(live)'
  BY <1>1, <1>3 DEF SubscriptionInv, Stored, engine
<1> QED BY <1>1, <1>4, <1>5 DEF SubscriptionInv, engine

LEMMA PublishStep ==
  ASSUME SubscriptionInv, Publish
  PROVE  SubscriptionInv'
<1>1. /\ published \in Nat /\ projected \in Nat /\ appended \in Nat
      /\ published < projected /\ projected <= appended
      /\ published' = published + 1
      /\ UNCHANGED <<appended, projected, phase, from, replay, next, held, delivered>>
  BY DEF SubscriptionInv, SubscriptionTypeOK, Publish
<1>2. live' \in Seq(Nat) /\ Stored(live') /\ (phase = "none" => live' = live)
  <2>1. CASE phase = "live"
    <3> DEFINE e == published + 1
    <3>1. e \in 1..appended /\ e \in Nat /\ live' = Append(live, e)
      BY <1>1, <2>1 DEF Publish
    <3>2. live \in Seq(Nat) /\ Stored(live)
      BY DEF SubscriptionInv, SubscriptionTypeOK
    <3> HIDE DEF e
    <3>3. /\ Append(live, e) \in Seq(Nat) /\ Len(Append(live, e)) = Len(live) + 1
          /\ Len(live) \in Nat
          /\ Append(live, e)[Len(live) + 1] = e
          /\ \A i \in 1..Len(live) : Append(live, e)[i] = live[i]
      BY <3>1, <3>2
    <3>4. \A i \in 1..(Len(live) + 1) : i \in 1..Len(live) \/ i = Len(live) + 1
      BY <3>3
    <3> QED BY <2>1, <3>1, <3>2, <3>3, <3>4 DEF Stored
  <2>2. CASE phase # "live"
    BY <2>2 DEF Publish, SubscriptionInv, SubscriptionTypeOK
  <2> QED BY <2>1, <2>2
<1>3. SubscriptionTypeOK'
  BY <1>1, <1>2 DEF SubscriptionInv, SubscriptionTypeOK
<1>4. Stored(replay)' /\ Stored(live)'
  BY <1>1, <1>2 DEF SubscriptionInv, Stored
<1> QED BY <1>1, <1>2, <1>3, <1>4 DEF SubscriptionInv

LEMMA OtherSteps ==
  ASSUME SubscriptionInv,
         \/ Install \/ ReadModelSequence \/ SubscribeLive \/ UNCHANGED subscriptionVars
         \/ \E n \in 1..2 : Commit(n)
  PROVE  SubscriptionInv'
<1>1. ASSUME NEW n \in 1..2, Commit(n) PROVE SubscriptionInv'
  <2>1. /\ appended' = appended + n /\ appended \in Nat /\ appended' \in Nat
        /\ appended' <= MaxEvents
        /\ UNCHANGED <<projected, published, phase, from, replay, live, next, held, delivered>>
    BY <1>1 DEF Commit, SubscriptionInv, SubscriptionTypeOK
  <2>2. 1..appended \subseteq 1..appended' /\ appended <= appended'
    BY <2>1
  <2>3. SubscriptionTypeOK' /\ next' <= appended' + 1
    BY <2>1, <2>2 DEF SubscriptionInv, SubscriptionTypeOK
  <2>4. Stored(replay)' /\ Stored(live)'
    BY <2>1, <2>2 DEF SubscriptionInv, Stored
  <2> QED BY <2>1, <2>2, <2>3, <2>4 DEF SubscriptionInv
<1>2. CASE Install
  <2>1. SubscriptionTypeOK'
    BY <1>2 DEF Install, SubscriptionInv, SubscriptionTypeOK
  <2> QED BY <1>2, <2>1 DEF Install, SubscriptionInv, Stored
<1>3. CASE ReadModelSequence
  <2>1. /\ phase = "none" /\ phase' = "snapshot" /\ from' = projected /\ next' = projected + 1
        /\ UNCHANGED <<engine, replay, live, held, delivered>>
        /\ delivered = <<>> /\ projected \in Nat /\ projected <= appended /\ appended \in Nat
    BY <1>3 DEF ReadModelSequence, SubscriptionInv, SubscriptionTypeOK
  <2>2. SubscriptionTypeOK'
    BY <2>1 DEF SubscriptionInv, SubscriptionTypeOK, engine
  <2>3. next' = from' + Len(delivered') + 1 /\ next' <= appended' + 1
    BY <2>1 DEF engine
  <2> QED BY <2>1, <2>2, <2>3 DEF SubscriptionInv, Stored, engine
<1>4. CASE SubscribeLive
  <2>1. SubscriptionTypeOK'
    BY <1>4 DEF SubscribeLive, SubscriptionInv, SubscriptionTypeOK, engine
  <2> QED BY <1>4, <2>1 DEF SubscribeLive, SubscriptionInv, Stored, engine
<1>5. CASE UNCHANGED subscriptionVars
  BY <1>5 DEF subscriptionVars, engine, SubscriptionInv, SubscriptionTypeOK, Stored
<1> QED BY <1>1, <1>2, <1>3, <1>4, <1>5

-----------------------------------------------------------------------------
\* The order of what was sent, held and is to come holds in every state.
THEOREM SubscriptionInvariant == SubscriptionSpec => []SubscriptionInv
<1>1. SubscriptionInit => SubscriptionInv
  BY SubscriptionAssumption DEF SubscriptionInit, SubscriptionInv, SubscriptionTypeOK, Stored
<1>2. SubscriptionInv /\ [SubscriptionNext]_subscriptionVars => SubscriptionInv'
  BY TakeStep, ReadReplayStep, PublishStep, OtherSteps
  DEF SubscriptionNext, EngineStep, SubscriptionStep
<1> QED BY <1>1, <1>2, PTL DEF SubscriptionSpec

(***************************************************************************)
(* The client is sent the events after the one its subscription began at,  *)
(* in order and each once, however replay and live events interleave.      *)
(***************************************************************************)
THEOREM DeliveryIsInOrder == SubscriptionSpec => []DeliveredInOrder
<1>1. SubscriptionInv => DeliveredInOrder
  <2> SUFFICES ASSUME SubscriptionInv PROVE DeliveredInOrder
    OBVIOUS
  <2>1. /\ delivered \in Seq(Nat) /\ appended \in Nat /\ from \in Nat
        /\ next = from + Len(delivered) + 1 /\ next <= appended + 1
        /\ \A i \in 1..Len(delivered) : delivered[i] = from + i
    BY DEF SubscriptionInv, SubscriptionTypeOK
  <2>2. delivered = [i \in 1..Len(delivered) |-> delivered[i]]
    BY <2>1
  <2>3. delivered = [i \in 1..Len(delivered) |-> from + i]
    BY <2>1, <2>2
  <2>4. from + Len(delivered) <= appended
    <3>1. Len(delivered) \in Nat
      BY <2>1
    <3> QED BY <2>1, <3>1
  <2> QED BY <2>3, <2>4 DEF DeliveredInOrder
<1> QED BY <1>1, SubscriptionInvariant, PTL
=============================================================================
