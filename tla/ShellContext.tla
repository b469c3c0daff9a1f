---------------------------- MODULE ShellContext -----------------------------
(***************************************************************************)
(* What the agent is told of a terminal (manager/web/webssh_context.go and *)
(* webSSHAgentHandle.observe and ShellContext): the output of the remote   *)
(* shell is scanned byte by byte for the marks its integration script      *)
(* prints around every command, and the finished commands are kept for a   *)
(* while.                                                                  *)
(*                                                                         *)
(* The remote shell runs numbered commands.  A byte it prints carries the  *)
(* command it is from and its place there, which the scanner does not look *)
(* at; the body of a mark is one byte.  Other escape sequences, too long   *)
(* ones included, come between.  The masking of secrets is left out.       *)
(***************************************************************************)
EXTENDS Naturals, Sequences, SequencesExt

CONSTANTS
    Commands,       \* commands the shell runs
    MaxOutput,      \* bytes a command prints
    MaxNoise,       \* escape sequences that are no marks
    MaxTime,
    SequenceLimit,  \* bytes of an escape sequence that are kept (8192)
    BufferLimit,    \* bytes of output kept while a command runs (4096)
    OutputLimit,    \* bytes of output kept of a finished one (2048)
    RecordLimit,    \* finished commands kept (8)
    SharedLimit,    \* finished commands shared (3)
    Lifetime        \* how long they are shared (10 minutes)

VARIABLES
    shell,      \* the remote shell
    wire,       \* bytes it has printed that are not scanned yet
    s,          \* the scanner
    clock,
    shared      \* the last snapshot and when it was taken

vars == <<shell, wire, s, clock, shared>>

(* ---- the remote shell ---- *)

Byte(b) == [b |-> b, of |-> 0, at |-> 0]
Mark(kind, of, at) == [b |-> kind, of |-> of, at |-> at]
Bel(body) == <<Byte("ESC"), Byte("]")>> \o body \o <<Byte("BEL")>>
St(body) == <<Byte("ESC"), Byte("]")>> \o body \o <<Byte("ESC"), Byte("\\")>>
Noise == {<<Byte("ESC"), Byte("["), Byte("1"), Byte("m")>>,
          <<Byte("ESC"), Byte("P"), Byte("x"), Byte("ESC"), Byte("\\")>>,
          <<Byte("ESC"), Byte("x")>>,
          Bel(<<Byte("x")>>),
          Bel([i \in 1..(SequenceLimit + 2) |-> Byte("x")]),
          St([i \in 1..(SequenceLimit + 2) |-> Byte("x")])}

Init ==
    /\ shell = [at |-> "start", command |-> 0, printed |-> 0, noise |-> 0]
    /\ wire = <<>>
    /\ s = [state |-> 0, sequence |-> <<>>, pending |-> 0, current |-> <<>>, phase |-> "none",
            commands |-> <<>>, updated |-> 0, seen |-> FALSE]
    /\ clock = 1
    /\ shared = [commands |-> <<>>, at |-> 0]

Emits(bytes, next) ==
    /\ wire = <<>>
    /\ wire' = bytes
    /\ shell' = next
    /\ UNCHANGED <<s, clock, shared>>
Marks(kind, of, at, next) ==
    \E body \in {<<Mark(kind, of, at)>>} : Emits(Bel(body), next) \/ Emits(St(body), next)

\* Where a command may begin; not every integration marks the prompt.
Ready == {"start", "input", "drafted", "finished"}

\* The prompt: A, B, and what the user types there.
Prompt == /\ shell.at \in {"start", "abandoned", "running", "finished"}
          /\ Marks("A", 0, 0, [shell EXCEPT !.at = "prompt"])
InputBegins == /\ shell.at = "prompt"
               /\ Marks("B", 0, 0, [shell EXCEPT !.at = "input"])
Draft == /\ shell.at = "input"
         /\ Emits(<<Byte("x")>>, [shell EXCEPT !.at = "drafted"])
\* The end of a command that never ran: the first prompt and an empty line.
EmptyLine == /\ shell.at \in {"start", "input", "drafted"}
             /\ Marks("D", 0, 0, [shell EXCEPT !.at = "finished"])
\* The history names the command, or does not; a named one may come to nothing.
Names == /\ shell.at \in Ready /\ shell.command < Commands
         /\ Marks("E", shell.command + 1, 0,
                  [shell EXCEPT !.at = "named", !.command = @ + 1, !.printed = 0])
Abandons == /\ shell.at = "named"
            /\ shell' = [shell EXCEPT !.at = "abandoned"]
            /\ UNCHANGED <<wire, s, clock, shared>>
Runs == /\ shell.at = "named"
        /\ Marks("C", shell.command, 0, [shell EXCEPT !.at = "running"])
RunsUnnamed == /\ shell.at \in Ready /\ shell.command < Commands
               /\ Marks("C", shell.command + 1, 0,
                        [shell EXCEPT !.at = "running", !.command = @ + 1, !.printed = 0])
Prints == /\ shell.at = "running" /\ shell.printed < MaxOutput
          /\ Emits(<<Mark("x", shell.command, shell.printed + 1)>>, [shell EXCEPT !.printed = @ + 1])
Finishes == /\ shell.at = "running"
            /\ Marks("D", shell.command, shell.printed, [shell EXCEPT !.at = "finished"])
Disturbs == /\ shell.noise < MaxNoise
            /\ \E n \in Noise : Emits(n, [shell EXCEPT !.noise = @ + 1])

(* ---- the scanner ---- *)

Tail2(q, n) == IF Len(q) > n THEN SubSeq(q, Len(q) - n + 1, Len(q)) ELSE q

\* marker: a command starts.
markerC(m, now) == [s EXCEPT !.current = <<[command |-> s.pending, is |-> m.of, buffer |-> <<>>,
                                            truncated |-> FALSE, total |-> 0, finished |-> 0]>>,
                             !.pending = 0, !.phase = "running", !.updated = now, !.seen = TRUE]

\* marker: a command ends and is kept.
markerD(m, now) ==
    LET c == s.current[1]
        done == [c EXCEPT !.buffer = Tail2(@, OutputLimit), !.total = m.at, !.finished = now,
                          !.truncated = @ \/ Len(c.buffer) > OutputLimit]
    IN  [s EXCEPT !.commands = IF s.current = <<>> THEN @ ELSE Tail2(Append(@, done), RecordLimit),
                  !.current = <<>>, !.phase = "idle", !.updated = now, !.seen = TRUE]

\* marker: a prompt; a command that has not ended is forgotten.
markerA(m, now) == [s EXCEPT !.current = <<>>, !.pending = 0, !.phase = "prompt",
                             !.updated = now, !.seen = TRUE]

\* marker, on the whole body of a sequence.
marker(body) ==
    IF Len(body) # 1 THEN s
    ELSE CASE body[1].b = "E" -> [s EXCEPT !.pending = body[1].of, !.updated = clock, !.seen = TRUE]
           [] body[1].b = "A" -> markerA(body[1], clock)
           [] body[1].b = "B" -> [s EXCEPT !.phase = "input", !.updated = clock, !.seen = TRUE]
           [] body[1].b = "C" -> markerC(body[1], clock)
           [] body[1].b = "D" -> markerD(body[1], clock)
           [] OTHER -> s

Visible(x) == x.b \notin {"ESC", "BEL"}
Collected(c, x) ==
    LET buffer == Append(c.buffer, x)
    IN  IF Len(buffer) > BufferLimit
        THEN [c EXCEPT !.buffer = Tail2(buffer, OutputLimit), !.truncated = TRUE]
        ELSE [c EXCEPT !.buffer = buffer]

Marked(body) == [marker(body) EXCEPT !.sequence = <<>>, !.state = 0]
ToState(n) == [s EXCEPT !.sequence = <<>>, !.state = n]

\* The states of shellContext.observe, on one byte.
inText(x) ==
    IF x.b = "ESC" THEN ToState(1)
    ELSE IF s.current # <<>> /\ Visible(x)
    THEN [s EXCEPT !.current = <<Collected(s.current[1], x)>>]
    ELSE s
afterESC(x) ==
    CASE x.b = "]" -> ToState(2) [] x.b = "[" -> ToState(4) [] x.b = "P" -> ToState(5)
      [] OTHER -> ToState(0)

inOSC(x) ==
    CASE x.b = "BEL" -> Marked(s.sequence)
      [] x.b = "ESC" -> [s EXCEPT !.state = 3]
      [] OTHER -> IF Len(s.sequence) < SequenceLimit
                  THEN [s EXCEPT !.sequence = Append(@, x)] ELSE ToState(5)
endOfOSC(x) == IF x.b = "\\" THEN Marked(s.sequence) ELSE ToState(5)
inCSI(x) == IF x.b \in {"m", "x", "[", "]", "P", "\\"} THEN ToState(0) ELSE s
passedOver(x) == CASE x.b = "BEL" -> ToState(0) [] x.b = "ESC" -> ToState(6) [] OTHER -> s
endOfPassedOver(x) == IF x.b = "\\" THEN ToState(0) ELSE ToState(5)

\* How a read is cut into chunks makes no difference.
scan(x) ==
    CASE s.state = 0 -> inText(x) [] s.state = 1 -> afterESC(x) [] s.state = 2 -> inOSC(x)
      [] s.state = 3 -> endOfOSC(x) [] s.state = 4 -> inCSI(x)
      [] s.state = 5 -> passedOver(x) [] s.state = 6 -> endOfPassedOver(x)

\* webSSHAgentHandle.observe holds the lock of the handle while it scans.
observe ==
    /\ wire # <<>>
    /\ s' = scan(Head(wire))
    /\ wire' = Tail(wire)
    /\ UNCHANGED <<shell, clock, shared>>

(* ---- the readers ---- *)

\* snapshot, between two bytes.
snapshot ==
    /\ IF ~s.seen \/ clock - s.updated > Lifetime
       THEN /\ s' = [s EXCEPT !.commands = <<>>]
            /\ shared' = [commands |-> <<>>, at |-> clock]
       ELSE /\ shared' = [at |-> clock, commands |->
                              Tail2(SelectSeq(s.commands, LAMBDA c : clock - c.finished <= Lifetime),
                                    SharedLimit)]
            /\ UNCHANGED s
    /\ UNCHANGED <<shell, wire, clock>>

Tick ==
    /\ clock < MaxTime
    /\ clock' = clock + 1
    /\ UNCHANGED <<shell, wire, s, shared>>

Next ==
    \/ Prompt \/ InputBegins \/ Draft \/ EmptyLine \/ Names \/ Abandons \/ Runs \/ RunsUnnamed
    \/ Prints \/ Finishes \/ Disturbs
    \/ observe
    \/ snapshot
    \/ Tick

Spec == Init /\ [][Next]_vars

(* ---- properties ---- *)

\* Types, and every buffer within its limit.
TypeOK ==
    /\ s.state \in 0..6 /\ s.pending \in 0..Commands
    /\ Len(s.sequence) <= SequenceLimit
    /\ Len(s.current) <= 1 /\ \A c \in ToSet(s.current) : Len(c.buffer) <= BufferLimit
    /\ Len(s.commands) <= RecordLimit

\* What is kept of a command is the end of what that command has printed, and
\* it is called truncated exactly when something is missing: no byte of a
\* prompt, a draft, another command or an escape sequence gets into it, however
\* sequences are cut off, unfinished or too long (observe, marker).
OutputIsTheCommands ==
    \A c \in ToSet(s.commands) :
        /\ c.truncated <=> c.total > Len(c.buffer)
        /\ Len(c.buffer) = (IF c.total > OutputLimit THEN OutputLimit ELSE c.total)
        /\ \A i \in DOMAIN c.buffer :
               c.buffer[i].of = c.is /\ c.buffer[i].at = c.total - Len(c.buffer) + i

\* A command without a name in the history is kept without one: the name of
\* another command is never used for it (marker: pendingCommand).
NamesAreNotReused ==
    \A c \in ToSet(s.commands \o s.current) : c.command \in {0, c.is}

\* A snapshot holds the last commands that ended within the lifetime, no more
\* than it may share.
SharedIsRecent ==
    /\ Len(shared.commands) <= SharedLimit
    /\ \A c \in ToSet(shared.commands) : shared.at - c.finished <= Lifetime
==============================================================================
