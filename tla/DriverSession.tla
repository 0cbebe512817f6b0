---------------------------- MODULE DriverSession ----------------------------
(***************************************************************************)
(* One SEND: the script a driver writes for expect (or the two commands it  *)
(* runs through sshpass) against a router, over a connection that delivers  *)
(* in order.  A script is data, as it is in the drivers, which print it;    *)
(* the interpreter follows expect: of the patterns of a step the first that *)
(* occurs anywhere in what has been heard wins, what precedes the match is  *)
(* forgotten, a step that times out is passed over unless the script says   *)
(* otherwise, and after the end of file any use of the connection is an     *)
(* error of the script.                                                     *)
(*                                                                          *)
(* The router answers one command at a time, in order, some time later.     *)
(***************************************************************************)
EXTENDS Integers, Sequences, SequencesExt, FiniteSetsExt, Selection

CONSTANTS
  Driver,  \* which of the drivers
  File,    \* configurations: sequences of kinds of lines
  Faults   \* a subset of FaultKinds

\* A line that opens a section, a line of the section above it, a line for
\* itself, the same with a '#' in its text, one the router refuses, a header
\* the filter of the CSR driver removes, a comment or a blank line.  The xRV
\* driver prints every line between the double quotes of a Tcl string: one with
\* a quote, a bracket or a variable is an error of the script, one with a
\* backslash arrives as something else.  To the other drivers these two kinds
\* are lines like any other.
LineKind ==
  {"header", "sub", "global", "hash", "bad", "filtered", "comment", "quote", "escape"}
Single == {"global", "hash", "quote"}
Unescaped == {"quote", "escape"}
\* A slow answer, a lost connection, a refused login, connection or commit (or
\* write), and an Eltex that fetches a part of the file.
FaultKinds == {"late", "drop", "denied", "refused", "rejected", "cut"}
Scripted == {"xrv", "csr", "eltex"}
Shelled == {"mikrotik", "juniper"}

ASSUME DriverAssumption == Driver \subseteq Scripted \cup Shelled
ASSUME FileAssumption == \A f \in File : f \in Seq(LineKind)
ASSUME SessionFaultsAssumption == Faults \subseteq FaultKinds

VARIABLES
  driver, file, script,  \* chosen at the start
  step,          \* the place in the script
  connected,     \* expect has not seen the end of file
  result,        \* "none" until the driver returns
  typed, heard,  \* on their way to and from the router
  mode, tries,   \* what the router waits for; wrong passwords so far
  section,       \* the line that opened the section the router is in, or 0
  candidate, running, saved,  \* pairs of a line and the header it is under
  obliging       \* history: no step timed out on a router that was busy, and
                 \* the router refused no confirmed commit and no write

job == <<driver, file, script>>
place == <<step, connected, result>>
router == <<mode, tries, section, candidate, running, saved>>
vars == <<job, place, typed, heard, router, obliging>>

Line == UNION {DOMAIN f : f \in File}
Entry == Line \X Line
Token ==
  {"username", "password", "user", "prompt", "config", "section", "echo",
   "confirm", "refused", "ok", "failed"}
Word ==
  {"username", "password", "enable", "terminal", "configure", "line", "commit",
   "yes", "end", "write", "exit", "fetch", "copy", "load"}
Text == [word : Word, line : Line \cup {0}]

TypeOK ==
  /\ driver \in Driver /\ file \in File
  /\ step \in Nat \ {0} /\ connected \in BOOLEAN
  /\ result \in {"none", "ok", "error"}
  /\ typed \in Seq(Text) /\ heard \in Seq(Token)
  /\ mode \in {"connect", "username", "password", "user", "enable", "exec",
               "config", "confirm", "fetch", "shell", "closed"}
  /\ tries \in 0 .. 3
  /\ section \in Line \cup {0}
  /\ candidate \subseteq Entry /\ running \subseteq Entry /\ saved \subseteq Entry
  /\ obliging \in BOOLEAN

-----------------------------------------------------------------------------
(* Scripts.                                                                *)

Say(word) == [do |-> "send", text |-> [word |-> word, line |-> 0]]
Enter(i) == [do |-> "send", text |-> [word |-> "line", line |-> i]]

\* A pattern is the set of what it matches; reply is sent then, and the script
\* goes on some steps further, Again waits in the same step, Exit1 ends it.
Exit1 == -1
Again == 0
On(pattern, reply, go) == [pattern |-> pattern, reply |-> reply, go |-> go]
Expect(branches, late) == [do |-> "expect", on |-> branches, late |-> late]
Await(pattern) == Expect(<<On(pattern, "", 1)>>, 1)
Eof == [do |-> "eof"]
Hash == {"prompt", "config", "section", "echo"}

\* fork, execl, waitpid and the test of the exit status; there is no timeout.
Shell(word) ==
  <<Say(word),
    [do |-> "wait", on |-> <<On({"ok"}, "", 1), On({"failed"}, "", Exit1)>>]>>

\* The lines that are sent: all but blank lines and comments; the CSR driver
\* also removes what its list of greps names.
Sent(d, f) ==
  {i \in DOMAIN f : f[i] # "comment" /\ (d = "csr" => f[i] # "filtered")}
SentLines(d, f) == Selected([i \in DOMAIN f |-> i], Sent(d, f))

\* Mutant: a commit after every line.
XrvLinesCommit(lines) ==
  [k \in 1 .. 5 * Len(lines) |->
     CASE k % 5 \in {1, 3} -> Await(Hash)
       [] k % 5 = 2        -> Enter(lines[k \div 5 + 1])
       [] k % 5 = 4        -> Say("commit")
       [] k % 5 = 0        -> Say("yes")]

XrvLines(lines) ==
  [k \in 1 .. 2 * Len(lines) |->
     IF k % 2 = 1 THEN Await(Hash) ELSE Enter(lines[k \div 2])]

XrvLogin ==
  <<Expect(<<On({"refused"}, "", Exit1), On({"username"}, "", 1)>>, Exit1),
    Say("username"), Await({"password"}), Say("password"),
    Await(Hash), Say("configure")>>

\* Mutant: waiting for the commit starts again when it times out.
XrvCommitPatient ==
  Expect(<<On({"confirm"}, "yes", Again), On(Hash, "exit", 1)>>, Again)

\* Mutant: the answer an Eltex takes.
XrvCommitShort ==
  Expect(<<On({"confirm"}, "y", Again), On(Hash, "exit", 1)>>, Exit1)

XrvCommit ==
  Expect(<<On({"confirm"}, "yes", Again), On(Hash, "exit", 1)>>, Exit1)

XrvEnd ==
  <<Await({"config"}), Say("commit"), XrvCommit, Await(Hash), Say("exit"), Eof>>

XrvScript(lines) == XrvLogin \o XrvLines(lines) \o XrvEnd

CsrLogin ==
  <<Expect(<<On({"password"}, "password", 1)>>, Exit1),
    Expect(<<On(Hash, "terminal", 5), On({"user"}, "enable", 1)>>, 5),
    Await({"password"}), Say("password"), Await(Hash), Say("terminal"),
    Await(Hash), Say("configure"), Await({"config"})>>

\* Of "#", "% " and a timeout, the last two count an error, and the count is not
\* used.
CsrLines(lines) ==
  [k \in 1 .. 2 * Len(lines) |->
     IF k % 2 = 1 THEN Enter(lines[k \div 2 + 1]) ELSE Await(Hash)]

\* Mutant: nothing waits for the end of the session.
CsrEndUnheard == <<Say("end"), Await(Hash), Say("write"), Say("exit")>>

CsrEnd ==
  <<Say("end"), Await(Hash), Say("write"), Await(Hash), Say("exit"), Eof>>

CsrScript(lines) == CsrLogin \o CsrLines(lines) \o CsrEnd

EltexScript ==
  <<Await({"password"}), Say("password"),
    Await(Hash), Say("fetch"), Await({"password"}), Say("password"),
    Await(Hash), Say("commit"), Await({"confirm"}), Say("yes"), Say("exit"), Eof>>

Script(d, f) ==
  CASE d = "xrv"   -> XrvScript(SentLines(d, f))
    [] d = "csr"   -> CsrScript(SentLines(d, f))
    [] d = "eltex" -> EltexScript
    [] OTHER       -> Shell("copy") \o Shell("load")

Init ==
  /\ driver \in Driver /\ file \in File /\ script = Script(driver, file)
  /\ driver # "xrv" => Range(file) \cap Unescaped = {}
  /\ step = 1 /\ connected = TRUE /\ result = "none"
  /\ typed = << >> /\ heard = << >>
  /\ mode = IF driver \in Shelled THEN "shell" ELSE "connect"
  /\ tries = 0 /\ section = 0
  /\ candidate = {} /\ running = {} /\ saved = {}
  /\ obliging = TRUE

-----------------------------------------------------------------------------
(* The interpreter.                                                        *)

Current == script[step]
Running(do) ==
  /\ result = "none" /\ step <= Len(script)
  /\ Current.do \in do

\* Where the script goes, or that it ends with an error.
Go(n) ==
  IF n = Exit1 THEN result' = "error" /\ UNCHANGED step
  ELSE step' = step + n /\ UNCHANGED result

\* What is sent to a connection the router has closed is lost.
Typed(text) == IF mode = "closed" THEN typed ELSE Append(typed, text)

\* A line that ends the string it is printed in is an error of the script.
IsBroken(text) == text.line # 0 /\ file[text.line] = "quote"

Send ==
  /\ Running({"send"})
  /\ \/ /\ connected /\ ~IsBroken(Current.text)
        /\ typed' = Typed(Current.text)
        /\ Go(1)
     \/ /\ ~connected \/ IsBroken(Current.text)  \* "spawn id not open"
        /\ Go(Exit1)
        /\ UNCHANGED typed
  /\ UNCHANGED <<job, connected, heard, router, obliging>>

Occurs(branch) == \E k \in DOMAIN heard : heard[k] \in branch.pattern
Matching == {b \in DOMAIN Current.on : Occurs(Current.on[b])}

Match ==
  /\ Running({"expect", "wait"})
  /\ Matching # {}
  /\ LET branch == Current.on[Min(Matching)]
         k == Min({n \in DOMAIN heard : heard[n] \in branch.pattern})
     IN  /\ heard' = SubSeq(heard, k + 1, Len(heard))
         /\ typed' = IF branch.reply = "" THEN typed
                     ELSE Typed([word |-> branch.reply, line |-> 0])
         /\ Go(branch.go)
  /\ UNCHANGED <<job, connected, router, obliging>>

Busy == typed # << >> \/ mode = "connect"

Timeout ==
  /\ Running({"expect"})
  /\ connected /\ mode # "closed" /\ Matching = {}
  /\ Busy => "late" \in Faults
  /\ obliging' = (obliging /\ ~Busy)
  /\ Go(Current.late)
  /\ UNCHANGED <<job, connected, typed, heard, router>>

\* The end of file, where the script does not expect it; the next use of the
\* connection is an error.
EndOfFile ==
  /\ Running({"expect", "wait"})
  /\ mode = "closed" /\ Matching = {}
  /\ connected' = FALSE /\ heard' = << >>
  /\ Go(IF connected /\ Current.do = "expect" THEN 1 ELSE Exit1)
  /\ UNCHANGED <<job, typed, router, obliging>>

\* `expect eof', which a timeout ends, too.
ExpectEof ==
  /\ Running({"eof"})
  /\ IF connected THEN Go(1) ELSE Go(Exit1)
  /\ mode = "closed" \/ ~Busy \/ "late" \in Faults
  /\ obliging' = (obliging /\ (mode = "closed" \/ ~Busy))
  /\ UNCHANGED <<job, connected, typed, heard, router>>

\* The script is at its end, and the driver reports success.
Done ==
  /\ result = "none" /\ step > Len(script)
  /\ result' = "ok"
  /\ UNCHANGED <<job, step, connected, typed, heard, router, obliging>>

Interpreter == Send \/ Match \/ Timeout \/ EndOfFile \/ ExpectEof \/ Done

-----------------------------------------------------------------------------
(* The router.                                                             *)

\* What is left of the lines in kept when a router takes them in order: each
\* with the header it comes under.  What a router makes of a line with a
\* backslash is not kept.
Opened(f, kept, i) ==
  Max({0} \cup {j \in kept : j <= i /\ f[j] \in {"header", "filtered"} \cup Single})
Meaning(f, kept) ==
  {<<i, Opened(f, kept, i)>> :
     i \in {i \in kept :
              /\ f[i] \notin {"bad", "escape"}
              /\ f[i] = "sub" => Opened(f, kept, i) # 0 /\ f[Opened(f, kept, i)] \notin Single}}

Asked(words) == typed # << >> /\ Head(typed).word \in words
Tell(tokens) == typed' = Tail(typed) /\ heard' = heard \o tokens

Prompt(m, inside) ==
  CASE m \in {"password", "enable", "fetch"} -> <<"password">>
    [] m = "exec"   -> <<"prompt">>
    [] m = "config" -> IF inside = 0 THEN <<"config">> ELSE <<"section">>
    [] m = "closed" -> << >>
    [] OTHER        -> <<m>>  \* "username", "user", "confirm"

Greet ==
  /\ mode = "connect"
  /\ \/ /\ mode' = IF driver = "xrv" THEN "username" ELSE "password"
        /\ heard' = heard \o Prompt(mode', 0)
     \/ /\ "refused" \in Faults
        /\ mode' = "closed"
        /\ heard' = Append(heard, "refused")
  /\ UNCHANGED <<job, place, typed, tries, section, candidate, running,
                 saved, obliging>>

\* Three wrong passwords end the session; a CSR may let a user in without
\* privileges.
Login ==
  /\ mode \in {"username", "password", "enable"} /\ Asked(Word)
  /\ \/ mode = "username" /\ mode' = "password" /\ UNCHANGED tries
     \/ /\ mode # "username" /\ Asked({"password"})
        /\ mode' \in {"exec"} \cup (IF mode = "password" /\ driver = "csr" THEN {"user"} ELSE {})
        /\ UNCHANGED tries
     \/ /\ mode # "username" /\ ("denied" \in Faults \/ ~Asked({"password"}))
        /\ tries' = tries + 1
        /\ mode' = IF tries' = 3 THEN "closed"
                   ELSE IF driver = "xrv" THEN "username" ELSE mode
  /\ Tell(Prompt(mode', 0))
  /\ UNCHANGED <<job, place, section, candidate, running, saved, obliging>>

Takes(i) == file[i] \notin {"bad", "escape"} /\ (file[i] = "sub" => section # 0)

\* A line in configuration mode.  A CSR changes its running configuration, an
\* xRV a candidate.
TakeLine ==
  /\ mode = "config" /\ Asked({"line"})
  /\ LET i == Head(typed).line
         entry == IF ~Takes(i) THEN {}
                  ELSE {<<i, IF file[i] = "sub" THEN section ELSE i>>}
     IN  /\ section' = CASE file[i] \in Single                 -> 0
                         [] file[i] \in {"header", "filtered"} -> i
                         [] OTHER                             -> section
         /\ candidate' = IF driver = "xrv" THEN candidate \cup entry ELSE candidate
         /\ running' = IF driver = "csr" THEN running \cup entry ELSE running
         /\ Tell((IF file[i] = "hash" THEN <<"echo">> ELSE << >>) \o Prompt(mode, section'))
  /\ UNCHANGED <<job, place, mode, tries, saved, obliging>>

\* The mode after any other command; what is not understood changes nothing,
\* but is a no to the question of a commit.
After(word) ==
  CASE mode = "user" /\ word = "enable"                     -> "enable"
    [] mode = "exec" /\ word = "configure"                  -> "config"
    [] mode = "exec" /\ word = "fetch"                      -> "fetch"
    [] mode = "exec" /\ word = "commit" /\ driver = "eltex" -> "confirm"
    [] mode = "exec" /\ word = "exit"                       -> "closed"
    [] mode = "config" /\ word = "commit"                   -> "confirm"
    [] mode = "config" /\ word = "end"                      -> "exec"
    [] mode = "config" /\ word = "exit" /\ section = 0      -> "exec"
    [] mode = "confirm" /\ driver = "xrv"                   -> "config"
    [] mode = "confirm" /\ driver # "xrv"                   -> "exec"
    [] mode = "fetch"                                       -> "exec"
    [] OTHER                                                -> mode

Commits == mode = "confirm" /\ Asked({"yes"})
Writes == mode = "exec" /\ Asked({"write"})

\* What an Eltex has after a fetch: the file, what it had, or a part.
Fetched ==
  LET whole == Meaning(file, Sent(driver, file))
  IN  {candidate, whole} \cup
      (IF "cut" \in Faults THEN {{e \in whole : e[1] < n} : n \in DOMAIN file} ELSE {})

\* A refused commit or write leaves things as they were; the prompt that ends
\* the message is the same.
Command ==
  /\ mode \in {"user", "exec", "config", "confirm", "fetch"} /\ typed # << >>
  /\ ~(mode = "config" /\ Asked({"line"}))
  /\ mode' = After(Head(typed).word)
  /\ section' = IF Asked({"configure", "exit", "end"}) THEN 0 ELSE section
  /\ candidate' \in IF mode = "fetch" THEN Fetched ELSE {candidate}
  /\ \/ /\ running' = IF Commits THEN candidate ELSE running
        /\ saved' = IF Writes THEN running ELSE saved
        /\ UNCHANGED obliging
     \/ /\ "rejected" \in Faults /\ (Commits \/ Writes)
        /\ obliging' = FALSE
        /\ UNCHANGED <<running, saved>>
  /\ Tell(Prompt(mode', section'))
  /\ UNCHANGED <<job, place, tries>>

\* scp, and then `/import' of a MikroTik, which stops at the first line it does
\* not take, or `load override' of a Juniper, which changes the candidate.
Serve ==
  /\ mode = "shell" /\ typed # << >>
  /\ LET bad == {i \in DOMAIN file : file[i] = "bad"}
         whole == Meaning(file, Sent(driver, file))
         loading == Asked({"load"})
     IN  /\ \/ Tell(<<"ok">>) /\ (loading => bad = {})
            \/ Tell(<<"failed">>) /\ (loading => bad # {})
         /\ running' = IF loading /\ driver = "mikrotik"
                       THEN {e \in whole : \A i \in bad : e[1] < i} ELSE running
         /\ candidate' = IF loading /\ driver = "juniper" THEN whole ELSE candidate
  /\ UNCHANGED <<job, place, mode, tries, section, saved, obliging>>

\* The connection is lost, or ends with the script; what was typed and not yet
\* answered is lost.
Drop ==
  /\ mode # "closed"
  /\ "drop" \in Faults \/ result # "none"
  /\ mode' = "closed" /\ typed' = << >>
  /\ UNCHANGED <<job, place, heard, tries, section, candidate, running,
                 saved, obliging>>

Router == Greet \/ Login \/ TakeLine \/ Command \/ Serve

Next == Interpreter \/ Router \/ Drop

\* The timers of expect run; nothing is assumed of the router.
Spec == Init /\ [][Next]_vars /\ WF_vars(Interpreter)

-----------------------------------------------------------------------------
(* Properties.                                                             *)

\* A SEND to an xRV replaces the configuration (commit replace) after the last
\* line, so what runs on it is the old one or all of the new one: no timeout,
\* late answer, refused login, line or commit, lost connection or broken script
\* commits a part of the file.  (What becomes of an altered line is not kept.)
RunningIsOldOrWhole ==
  driver = "xrv" => running \in {{}, Meaning(file, Sent(driver, file))}

\* A success the xRV, CSR or MikroTik driver reports is one: every line that was
\* sent and not refused runs on the router, on a CSR saved, too.  It takes a
\* router that answers within the timeouts and refuses neither the commit nor
\* the write, a file none of whose lines looks like a prompt and, for an xRV,
\* one that does not end in a section and has no backslash.
EndsInSection(f) ==
  LET last == Opened(f, DOMAIN f, Len(f)) IN last # 0 /\ f[last] \notin Single

SuccessIsReal ==
  /\ result = "ok" /\ obliging
  /\ driver \in {"xrv", "csr", "mikrotik"}
  /\ Range(file) \cap {"hash", "escape"} = {}
  /\ driver = "xrv" => ~EndsInSection(file)
  => /\ running = Meaning(file, Sent(driver, file))
     /\ driver = "csr" => saved = running

\* A router that stops to answer, at any point, does not hang a session that
\* runs under expect.
SilenceEnds == driver \in Scripted ~> result # "none"

-----------------------------------------------------------------------------
(* What the program says of itself, and does not keep.                     *)

\* "[+] Success! Configuration applied": to an xRV that answers in time, every
\* line of a file that has no line it refuses.
Written(f) == [i \in DOMAIN f |-> IF f[i] = "escape" THEN "global" ELSE f[i]]
AppliedWhenDone ==
  result = "ok" /\ driver = "xrv" => running = Meaning(Written(file), DOMAIN file)
=============================================================================
