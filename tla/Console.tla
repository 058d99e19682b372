------------------------------ MODULE Console ------------------------------
(***************************************************************************)
(* folie as a terminal for Mecrisp Forth (main.go): the main goroutine     *)
(* reads lines and walks the included files, serialExchange talks to the   *)
(* target, and they meet on the channels outBound, incLevel and progress.  *)
(* serialInput and serIn only cut what the target sends into chunks, so a  *)
(* goroutine that reads takes as many of the bytes there are as it likes.  *)
(*                                                                         *)
(* The target is external: it echoes what it gets, answers a return with a *)
(* space, the output of the line and " ok." with a new line, or an error,  *)
(* and may miss what comes while it is busy.                               *)
(***************************************************************************)
EXTENDS Integers, FiniteSets, SequencesExt

CONSTANTS
    Files,          \* the lines of each file
    Typed,          \* what the user types
    Output,         \* the output of each line that the target knows
    Fails,          \* the lines that end in an error, without " ok."
    MaxFaults       \* bound: how often the target is silent for 500 ms while it is
                    \* busy, or the connection is lost

VARIABLES
    typed, todo,    \* lines not typed yet; what the main goroutine has to do
    main,           \* it is "starting", "running" or waiting for "progress"
    progress,       \* the channel, with room for one
    xpc, xline, immediate, collected, depth,    \* serialExchange
    link,           \* the connection is "up", "down" or "gone" with the program
    tin, tline, tout,   \* target: input, the line so far, output still to come
    wire,           \* what the target has sent and nobody has read
    shown,          \* history: what folie has printed
    emitted,        \* history: what the target has sent but for what was dropped
    executed,       \* history: the lines that the target has taken
    echoed,         \* history: this line's echo was recognised
    faults,         \* counter for the bound
    sent,           \* history: the lines sent to the target
    hasty           \* history: something was typed while the target was busy

mainVars == <<typed, todo, main>>
exchangeVars == <<xpc, xline, immediate, collected, depth, echoed, sent>>
targetVars == <<tin, tline, tout>>
vars == <<mainVars, progress, exchangeVars, link, targetVars, wire, shown, emitted,
          executed, faults, hasty>>

\* What is sent and printed: two halves of a line (a chunk may end anywhere) and
\* the rest of the target's vocabulary.
Token == {"begin", "end", "cr", "space", "ok", "nl", "said", "line"} \X STRING
Begin(line) == <<"begin", line>>
End(line) == <<"end", line>>
Echo(line) == IF line = "" THEN <<>> ELSE <<Begin(line), End(line)>>
CR == <<"cr", "">>
Space == <<"space", "">>
Ok == <<"ok", "">>
NL == <<"nl", "">>
Said(line) == <<"said", line>>      \* output of a line, or the error it ends in
IsSaid(t) == t[1] = "said"
Input(line) == <<"line", line>>     \* the line itself, as folie shows it

\* The items of a file and of the main goroutine's work.
Text(line) == [kind |-> "text", line |-> line]
Include(files) == [kind |-> "include", files |-> files]
Blank == [kind |-> "blank"]         \* only spaces, or a comment
Level(n) == [kind |-> "level", n |-> n]
Item == [kind : {"text"}, line : STRING] \cup [kind : {"include"}, files : Seq(STRING)]
        \cup {Blank}

ASSUME ConsoleAssumption ==
    /\ MaxFaults \in Nat
    /\ Typed \in Seq(Item)
    /\ \A f \in DOMAIN Files : f \in STRING \ {""} /\ Files[f] \in Seq(Item)
    /\ \A line \in DOMAIN Output :
         line \in STRING /\ Output[line] \in Seq({Said(line), NL})
    /\ Fails \subseteq DOMAIN Output

Init ==
    /\ typed = Typed /\ todo = <<>> /\ main = "starting" /\ progress = <<>>
    /\ xpc = "select" /\ xline = "" /\ immediate = TRUE /\ collected = <<>> /\ depth = 0
    /\ link = "up" /\ tin = <<>> /\ tline = <<>>
    /\ tout = <<Said("boot")>>                  \* the rest of its greeting
    /\ wire = <<>> /\ shown = <<>> /\ emitted = <<>> /\ executed = <<>> /\ echoed = FALSE
    /\ faults = 0 /\ sent = <<>> /\ hasty = FALSE

-----------------------------------------------------------------------------
(* The target. *)

Busy == tout # <<>> \/ tin # <<>>

Answer(input) ==
    IF \E line \in DOMAIN Output : input = Echo(line)
    THEN LET line == CHOOSE line \in DOMAIN Output : input = Echo(line)
         IN  Output[line] \o IF line \in Fails THEN <<Said(line), NL>> ELSE <<Ok, NL>>
    ELSE <<Said("error"), NL>>

Emit(tokens) ==
    IF link = "up"
    THEN wire' = wire \o tokens /\ emitted' = emitted \o tokens
    ELSE UNCHANGED <<wire, emitted>>

TargetReads ==
    /\ tout = <<>> /\ tin # <<>>
    /\ tin' = Tail(tin)
    /\ IF Head(tin) = CR
       THEN /\ tout' = <<Space>> \o Answer(tline)
            /\ tline' = <<>> /\ executed' = Append(executed, tline)
            /\ UNCHANGED <<wire, emitted>>
       ELSE /\ tline' = Append(tline, Head(tin)) /\ Emit(<<Head(tin)>>)
            /\ UNCHANGED <<tout, executed>>
    /\ UNCHANGED <<mainVars, progress, exchangeVars, link, shown, faults, hasty>>

TargetSends ==
    /\ tout # <<>>
    /\ tout' = Tail(tout)
    /\ Emit(<<Head(tout)>>)
    /\ UNCHANGED <<mainVars, progress, exchangeVars, link, tin, tline, shown, executed,
                   faults, hasty>>

\* The connection breaks; serialInput connects again after two seconds, or the
\* program ends.  A goroutine waiting for chunks just gets none.
Unplug ==
    /\ link = "up" /\ faults < MaxFaults
    /\ link' = "down" /\ faults' = faults + 1
    /\ wire' = <<>> /\ emitted' = SubSeq(emitted, 1, Len(emitted) - Len(wire))
    /\ tin' = <<>>
    /\ UNCHANGED <<mainVars, progress, exchangeVars, tline, tout, shown, executed, hasty>>

Reconnect ==
    /\ link = "down"
    /\ link' \in {"up", "gone"}
    /\ UNCHANGED <<mainVars, progress, exchangeVars, targetVars, wire, shown, emitted,
                   executed, faults, hasty>>

-----------------------------------------------------------------------------
(* serialExchange. *)

\* serialSend: an error ends the program; a broken connection need not show at
\* once.  A target that is busy may miss all of it, or but for the end.
serialSend(tokens) ==
    CASE link = "up" ->
           /\ tin' \in IF Busy THEN {tin, Append(tin, Last(tokens)), tin \o tokens}
                       ELSE {tin \o tokens}
           /\ UNCHANGED link
      [] OTHER -> link' \in {link, "gone"} /\ UNCHANGED tin

\* readWithTimeout: a chunk, or after 500 ms nothing.
Chunk(data, n) ==
    /\ n \in 1 .. Len(wire) /\ data = SubSeq(wire, 1, n)
    /\ wire' = SubSeq(wire, n + 1, Len(wire))
    /\ UNCHANGED faults
TimeOut ==
    /\ wire = <<>>
    /\ \/ ~Busy /\ UNCHANGED faults
       \/ Busy /\ faults < MaxFaults /\ faults' = faults + 1
    /\ UNCHANGED wire

Show(tokens) == shown' = shown \o tokens
Line(line) == IF line = "" THEN <<>> ELSE <<Input(line)>>

\* Between requests whatever comes is printed.
PassOn ==
    /\ link # "gone" /\ xpc = "select"
    /\ \E n \in 1 .. Len(wire) : \E data \in {SubSeq(wire, 1, n)} : Chunk(data, n) /\ Show(data)
    /\ UNCHANGED <<mainVars, progress, exchangeVars, link, targetVars, emitted, executed,
                   hasty>>

TakeLineAtOnce ==   \* mutant: the return follows without waiting for the echo
    /\ link # "gone" /\ xpc = "select"
    /\ main = "running" /\ todo # <<>> /\ Head(todo).kind = "text"
    /\ main' = "progress" /\ todo' = Tail(todo)
    /\ immediate' = (depth = 0)
    /\ xline' = Head(todo).line /\ sent' = Append(sent, xline') /\ collected' = <<>>
    /\ echoed' = TRUE /\ xpc' = "prompt" /\ serialSend(Echo(xline') \o <<CR>>)
    /\ UNCHANGED <<typed, progress, depth, tline, tout, wire, shown, emitted, executed,
                   faults, hasty>>

\* line := <-outBound
TakeLine ==
    /\ link # "gone" /\ xpc = "select"
    /\ main = "running" /\ todo # <<>> /\ Head(todo).kind = "text"
    /\ main' = "progress" /\ todo' = Tail(todo)
    /\ immediate' = (depth = 0)
    /\ xline' = Head(todo).line /\ sent' = Append(sent, xline')
    /\ collected' = <<>> /\ echoed' = FALSE
    /\ IF xline' # "" THEN xpc' = "echo" /\ serialSend(Echo(xline'))
       ELSE xpc' = "prompt" /\ serialSend(<<CR>>)
    /\ UNCHANGED <<typed, progress, depth, tline, tout, wire, shown, emitted, executed,
                   faults, hasty>>

\* n := <-incLevel
TakeLevel ==
    /\ link # "gone" /\ xpc = "select"
    /\ main = "running" /\ todo # <<>> /\ Head(todo).kind = "level"
    /\ depth' = depth + Head(todo).n
    /\ todo' = Tail(todo)
    /\ UNCHANGED <<typed, main, progress, xpc, xline, immediate, collected, echoed, sent, link,
                   targetVars, wire, shown, emitted, executed, faults, hasty>>

\* What expectEcho prints of what it has collected, up to the last new line, and
\* what it keeps.
Flushed(all) ==
    LET ends == {i \in 1 .. Len(all) : all[i] = NL}
    IN  IF ends = {} THEN 0 ELSE CHOOSE i \in ends : \A j \in ends : j <= i

\* expectEcho(line, false, ...) and the return that follows it.
EchoSeen(data) ==
    LET all == collected \o data
    IN  /\ IsSuffix(Echo(xline), all)
        /\ Show(SubSeq(all, 1, Len(all) - 2) \o IF immediate THEN Line(xline) ELSE <<>>)
        /\ xline' = IF immediate THEN "" ELSE xline
        /\ echoed' = TRUE
        /\ xpc' = "prompt" /\ collected' = <<>>
        /\ serialSend(<<CR>>)
EchoGoesOn(data) ==
    LET all == collected \o data
        n == Flushed(all)
    IN  /\ ~IsSuffix(Echo(xline), all)
        /\ Show(SubSeq(all, 1, n)) /\ collected' = SubSeq(all, n + 1, Len(all))
        /\ UNCHANGED <<xline, echoed, xpc, tin, link>>
NoEcho ==
    /\ TimeOut
    /\ Show(collected)
    /\ xpc' = "prompt" /\ collected' = <<>>
    /\ serialSend(<<CR>>)
    /\ UNCHANGED <<xline, echoed>>

ExpectEcho ==
    /\ link # "gone" /\ xpc = "echo"
    /\ \/ \E n \in 1 .. Len(wire) : \E data \in {SubSeq(wire, 1, n)} :
            Chunk(data, n) /\ (EchoSeen(data) \/ EchoGoesOn(data))
       \/ NoEcho
    /\ UNCHANGED <<mainVars, progress, immediate, depth, sent, tline, tout, emitted, executed,
                   hasty>>

\* The prompt is seen, or given up: at once for a line that was typed.
Prompt == <<Ok, NL>>
\* mutants: all of the prefix is hidden; the line is not shown; progress is not
\* signalled without a prompt
ProcessedHides(matched, prefix) ==
    /\ IF immediate \/ ~matched
       THEN Show(Line(xline) \o prefix \o IF matched THEN Prompt ELSE <<>>)
       ELSE UNCHANGED shown
    /\ progress' = Append(progress, matched)
    /\ xpc' = "select" /\ collected' = <<>> /\ UNCHANGED xline
ProcessedNoInput(matched, prefix) ==
    /\ IF immediate \/ prefix # <<Space>> \/ ~matched
       THEN Show(prefix \o IF matched THEN Prompt ELSE <<>>)
       ELSE UNCHANGED shown
    /\ progress' = Append(progress, matched)
    /\ xpc' = "select" /\ collected' = <<>> /\ UNCHANGED xline
ProcessedQuietly(matched, prefix) ==
    /\ IF immediate \/ prefix # <<Space>> \/ ~matched
       THEN Show(Line(xline) \o prefix \o IF matched THEN Prompt ELSE <<>>)
       ELSE UNCHANGED shown
    /\ progress' = IF matched THEN Append(progress, matched) ELSE progress
    /\ xpc' = "select" /\ collected' = <<>> /\ UNCHANGED xline
Processed(matched, prefix) ==
    /\ IF immediate \/ prefix # <<Space>> \/ ~matched
       THEN Show(Line(xline) \o prefix \o IF matched THEN Prompt ELSE <<>>)
       ELSE UNCHANGED shown
    /\ progress' = Append(progress, matched)
    /\ xpc' = "select" /\ collected' = <<>> /\ UNCHANGED xline
PromptSeen(data) ==
    LET all == collected \o data
    IN  IsSuffix(Prompt, all) /\ Processed(TRUE, SubSeq(all, 1, Len(all) - 2))
PromptGoesOn(data) ==
    LET all == collected \o data
        n == Flushed(all)
    IN  /\ ~IsSuffix(Prompt, all) /\ ~immediate
        /\ IF n > 0 THEN Show(Line(xline) \o SubSeq(all, 1, n)) /\ xline' = ""
           ELSE UNCHANGED <<shown, xline>>
        /\ collected' = SubSeq(all, n + 1, Len(all))
        /\ UNCHANGED <<xpc, progress>>
NoPrompt(data) ==
    /\ ~IsSuffix(Prompt, collected \o data)
    /\ Processed(FALSE, collected \o data)

\* mutant: no line waits for more than the first chunk
ExpectPromptHasty ==
    /\ link # "gone" /\ xpc = "prompt" /\ progress = <<>>
    /\ \/ \E n \in 1 .. Len(wire) : \E data \in {SubSeq(wire, 1, n)} :
            Chunk(data, n) /\ (PromptSeen(data) \/ NoPrompt(data))
       \/ TimeOut /\ NoPrompt(<<>>)
    /\ UNCHANGED <<mainVars, immediate, depth, echoed, sent, link, targetVars, emitted,
                   executed, hasty>>

ExpectPrompt ==
    /\ link # "gone" /\ xpc = "prompt" /\ progress = <<>>
    /\ \/ \E n \in 1 .. Len(wire) : \E data \in {SubSeq(wire, 1, n)} :
            /\ Chunk(data, n)
            /\ PromptSeen(data) \/ PromptGoesOn(data) \/ (immediate /\ NoPrompt(data))
       \/ TimeOut /\ NoPrompt(<<>>)
    /\ UNCHANGED <<mainVars, immediate, depth, echoed, sent, link, targetVars, emitted, executed,
                   hasty>>

-----------------------------------------------------------------------------
(* The main goroutine. *)

\* readWithTimeout at the start: it may take a chunk from serialExchange.
Starts ==
    /\ link # "gone" /\ main = "starting"
    /\ main' = "running"
    /\ \/ TimeOut /\ UNCHANGED emitted
       \/ \E n \in 1 .. Len(wire) :
            /\ Chunk(SubSeq(wire, 1, n), n)
            /\ emitted' = SubSeq(emitted, 1, Len(emitted) - Len(wire)) \o wire'
    /\ UNCHANGED <<typed, todo, progress, exchangeVars, link, targetVars, shown, executed,
                   hasty>>

Readline ==
    /\ link # "gone" /\ main = "running" /\ todo = <<>> /\ typed # <<>>
    /\ todo' = <<Head(typed)>> /\ typed' = Tail(typed)
    /\ hasty' = (hasty \/ Busy \/ wire # <<>>)
    /\ UNCHANGED <<main, progress, exchangeVars, link, targetVars, wire, shown, emitted,
                   executed, faults>>

\* parseAndSend and doInclude: included files take the place of the line that
\* names them, one after the other; blank lines of a file are skipped, a file that
\* is missing is empty, a name that is empty is none.
Content(f) == IF f \in DOMAIN Files THEN Files[f] ELSE <<>>
doInclude(f) == IF f = "" THEN <<>> ELSE <<Level(1)>> \o Content(f) \o <<Level(-1)>>
Walk ==
    /\ link # "gone" /\ main = "running" /\ todo # <<>>
    /\ \/ /\ Head(todo).kind = "include"
          /\ LET files == Head(todo).files
             IN  todo' = IF files = <<>> THEN Tail(todo)
                         ELSE doInclude(Head(files)) \o <<Include(Tail(files))>> \o Tail(todo)
       \/ Head(todo).kind = "blank" /\ todo' = Tail(todo)
    /\ UNCHANGED <<typed, main, progress, exchangeVars, link, targetVars, wire, shown,
                   emitted, executed, faults, hasty>>

\* <-progress
TakeProgress ==
    /\ link # "gone" /\ main = "progress" /\ progress # <<>>
    /\ main' = "running" /\ progress' = Tail(progress)
    /\ UNCHANGED <<typed, todo, exchangeVars, link, targetVars, wire, shown, emitted,
                   executed, faults, hasty>>

Exchange == PassOn \/ TakeLine \/ TakeLevel \/ ExpectEcho \/ ExpectPrompt
Target == TargetReads \/ TargetSends
Next == Target \/ Unplug \/ Reconnect \/ Exchange \/ Starts \/ Readline \/ Walk \/ TakeProgress

\* The goroutines, the target and a new connection go on; the user need not.
Spec ==
    /\ Init /\ [][Next]_vars
    /\ WF_vars(Target) /\ WF_vars(Reconnect) /\ WF_vars(Exchange)
    /\ WF_vars(Starts) /\ WF_vars(Walk) /\ WF_vars(TakeProgress)
-----------------------------------------------------------------------------
(* Properties. *)

InStep == faults = 0 /\ ~hasty

\* Types, and how far the channel and the nesting get.
TypeOK ==
    /\ main \in {"starting", "running", "progress"} /\ xpc \in {"select", "echo", "prompt"}
    /\ link \in {"up", "down", "gone"} /\ depth \in 0 .. Cardinality(DOMAIN Files)
    /\ progress \in {<<>>, <<TRUE>>, <<FALSE>>}
    /\ xpc # "select" => main = "progress" /\ progress = <<>>
    /\ faults <= MaxFaults

\* All lines of some items, with those of the files that they include in their
\* places: no more than that, as long as no file includes itself.
Lines(item, expansion) ==
    CASE item.kind = "text" -> <<item.line>>
      [] item.kind = "include" ->
           FlattenSeq([j \in DOMAIN item.files |->
               IF item.files[j] \in DOMAIN Files THEN expansion[item.files[j]] ELSE <<>>])
      [] OTHER -> <<>>
AllLines(items, expansion) == FlattenSeq([i \in DOMAIN items |-> Lines(items[i], expansion)])
Expansion[f \in DOMAIN Files] == AllLines(Files[f], Expansion)
TypedLines == AllLines(Typed, Expansion)

\* As long as the target is never silent for 500 ms while it is busy, and the user
\* does not type ahead, it gets every line once, whole and in order, though it
\* misses what comes while it is busy: "each line waits for an ok. prompt before
\* sending the next one", or for the silence after an error.
ExecutedInOrder ==
    InStep =>
        /\ Len(executed) <= Len(TypedLines)
        /\ \A i \in DOMAIN executed : executed[i] = Echo(TypedLines[i])
        /\ typed = <<>> /\ todo = <<>> /\ main = "running" =>
               Len(executed) = Len(TypedLines)

\* Whatever goes wrong, no output of the target is lost, moved or shown twice:
\* what is hidden of an included line is never more than echo, space and prompt.
Sayings(tokens) ==
    FlattenSeq([i \in DOMAIN tokens |-> IF IsSaid(tokens[i]) THEN <<tokens[i]>> ELSE <<>>])
NothingHidden == Sayings(shown \o collected \o wire) = Sayings(emitted)

\* "everything else should be echoed in full, including the input": output is
\* shown after the line that it belongs to, with no other line in between.
InputShown ==
    InStep => \A i \in DOMAIN shown :
        IsSaid(shown[i]) /\ shown[i] # Said("boot") =>
            \E j \in 1 .. i - 1 :
                /\ shown[j] = Input(shown[i][2])
                /\ \A k \in j + 1 .. i - 1 : shown[k][1] # "line"

\* Also after the target was slow, or gone for a while, so that prompts of lines
\* before come late: a prompt taken for that of a line whose echo was recognised
\* is its own, and the target has nothing more to say.  The echo is not recognised
\* for sure when the same line was sent before.
Repeated == \E i \in 1 .. Len(sent) - 1 : sent[i] = sent[Len(sent)]
OwnPrompt ==
    [][progress = <<>> /\ progress' = <<TRUE>> /\ echoed /\ ~Repeated
       => ~Busy /\ wire' = <<>>]_vars

\* Whatever was typed is dealt with: the goroutines never wait for each other for
\* ever.
Handled ==
    (todo # <<>> \/ main = "progress") ~> ((todo = <<>> /\ main = "running") \/ link = "gone")
=============================================================================
