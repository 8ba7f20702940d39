----------------------------- MODULE Conversation -----------------------------
(***************************************************************************)
(* One command of the `whirl` client: the command line becomes a request   *)
(* (whirl-cli/main.rs, whirl-core/protocol.rs), the request goes to the    *)
(* daemon's connection thread (whirld/socket.rs, dispatch), the lines of   *)
(* the answer come back one by one, and the last becomes the exit code     *)
(* (whirl-cli/render.rs). The daemon may be full, be another program, end  *)
(* at any point, or be cut off in the middle of a line.                    *)
(*                                                                         *)
(* A command line and a request line are sequences of words; what a data   *)
(* line says is left out. No word holds a line end or ends in a carriage   *)
(* return.                                                                 *)
(***************************************************************************)
EXTENDS Integers, SequencesExt

CONSTANTS CommandWords,   \* the command lines, sequences of words
          Absolute,       \* the words that are absolute paths (is_absolute_path)
          Spaced,         \* the words with a space in them
          CountOf,        \* the number of each word that is one
          Decimal,        \* how a number is written
          MaxStreamEvents \* how many events a subscription sees

DefaultHistoryCount == 10
MaxHistoryCount == 50

ASSUME GrammarAssumption ==
  /\ CountOf \in [DOMAIN CountOf -> Nat]
  /\ \A n \in 1 .. MaxHistoryCount : Decimal[n] \in DOMAIN CountOf /\ CountOf[Decimal[n]] = n

VARIABLES cli,            \* the client: its step, its request, what it has printed, its exit code
          asked,          \* the lines on their way to the daemon
          answers,        \* the lines on their way to the client
          server          \* the daemon's end: its step, the request it serves, what it has ended with

convoVars == <<cli, asked, answers, server>>

-----------------------------------------------------------------------------
(* The grammar. A request is a verb and its argument. *)

Req(verb, arg) == [verb |-> verb, arg |-> arg]
NoArg == "no argument"
Bare == {"ping", "version", "status", "next", "prev", "pause", "resume", "favorites", "sources", "close"}

\* Request::encode.
EncodeRequest(r) ==
  CASE r.verb = "history" -> <<"history", Decimal[r.arg]>>
    [] r.verb = "set path" -> <<"set", "path", r.arg>>
    [] r.verb = "set id" -> <<"set", "id", r.arg>>
    [] r.verb = "config path" -> <<"config", "path">>
    [] r.verb = "config check" -> <<"config", "check">>
    [] OTHER -> IF r.arg = NoArg THEN <<r.verb>> ELSE <<r.verb, r.arg>>

BadArgs == Req("ERR", "bad_args")
Config(what) == Req(IF what = "path" THEN "config path" ELSE "config check", NoArg)

\* Request::parse, of a line split at its spaces; `set` takes the rest of the line.
Given(yes, r) == IF yes THEN r ELSE BadArgs
One(args) == Len(args) = 1 /\ args[1] # "" /\ args[1] \notin Spaced
Counts(args) == Len(args) = 1 /\ args[1] \in DOMAIN CountOf
Parse(verb, args) ==
  CASE verb \in Bare -> Given(args \in {<<>>, <<"">>}, Req(verb, NoArg))
    [] verb = "history" ->
         IF args = <<>> THEN Req("history", DefaultHistoryCount)
         ELSE Given(Counts(args) /\ CountOf[args[1]] \in 1 .. MaxHistoryCount, Req("history", CountOf[args[1]]))
    [] verb = "favorite" -> IF args = <<>> THEN Req(verb, NoArg) ELSE Given(One(args), Req(verb, args[1]))
    [] verb = "unfavorite" -> Given(One(args), Req(verb, args[1]))
    [] verb = "set" ->
         Given(Len(args) = 2 /\ args[1] \in {"path", "id"} /\ args[2] # ""
                 /\ (args[1] = "path" => args[2] \in Absolute),
               Req(IF args[1] = "path" THEN "set path" ELSE "set id", args[2]))
    [] verb = "config" -> Given(args \in {<<"path">>, <<"check">>}, Config(args[1]))
    [] verb = "subscribe" -> IF args = <<>> THEN Req(verb, NoArg) ELSE Given(Counts(args), Req(verb, args[1]))
    [] OTHER -> Req("ERR", "unknown_verb")
ParseRequest(line) == Parse(Head(line), Tail(line))

Clamp(n) == IF n < 1 THEN 1 ELSE IF n > MaxHistoryCount THEN MaxHistoryCount ELSE n

\* invocation: the table of commands; what is not a request is answered without the daemon.
Invocation(words) ==
  LET verb == Head(words)
      args == Tail(words)
  IN  CASE words \in {<<v>> : v \in Bare \ {"close"}} -> Req(verb, NoArg)
        [] words = <<"idle">> -> Req("subscribe", NoArg)
        [] verb = "set" /\ Len(args) = 1 -> Req(IF args[1] \in Absolute THEN "set path" ELSE "set id", args[1])
        [] words = <<"history">> -> Req("history", DefaultHistoryCount)
        [] verb = "history" /\ Len(args) = 1 /\ args[1] \in DOMAIN CountOf ->
             Req("history", Clamp(CountOf[args[1]]))
        [] words = <<"favorite">> -> Req("favorite", NoArg)
        [] verb \in {"favorite", "unfavorite"} /\ Len(args) = 1 -> Req(verb, args[1])
        [] words \in {<<"config", "path">>, <<"config", "check">>} -> Config(args[1])
        [] words = <<"help">> -> Req("help", NoArg)
        [] OTHER -> Req("usage", NoArg)

-----------------------------------------------------------------------------
(* The client. *)

Line(kind) == [kind |-> kind, cut |-> FALSE]
Ended(code) == [cli EXCEPT !.step = "ended", !.exit = code]

ConvoInit == /\ cli = [step |-> "start", request |-> Req("", NoArg), printed |-> <<>>, waits |-> FALSE,
                       closed |-> FALSE, exit |-> "none"]
             /\ asked = <<>> /\ answers = <<>>
             /\ server = [step |-> "idle", request |-> Req("", NoArg), ended |-> "no", seen |-> 0]

Invoke(words) ==
  /\ cli.step = "start"
  /\ LET r == Invocation(words)
     IN  cli' = CASE r.verb = "usage" -> Ended("3")
                  [] r.verb = "help" -> Ended("0")
                  [] OTHER -> [cli EXCEPT !.step = "connect", !.request = r]
  /\ UNCHANGED <<asked, answers, server>>

\* Nothing listens on the socket.
CannotConnect == /\ cli.step = "connect" /\ server.step = "idle"
                 /\ cli' = Ended("2")
                 /\ UNCHANGED <<asked, answers, server>>

Connect == /\ cli.step = "connect" /\ server.step = "idle"
           /\ cli' = [cli EXCEPT !.step = "greet"]
           /\ server' = [server EXCEPT !.step = "accepting"]
           /\ UNCHANGED <<asked, answers>>

\* check_greeting, then the request line; a line that cannot be written is an I/O error.
Greet ==
  /\ cli.step = "greet"
  /\ answers # <<>>
  /\ answers' = Tail(answers)
  /\ IF Head(answers).kind # "greeting" \/ Head(answers).cut
     THEN cli' = Ended("3") /\ UNCHANGED asked
     ELSE \/ /\ cli' = [cli EXCEPT !.step = "read"]
             /\ asked' = <<EncodeRequest(cli.request)>>
          \/ server.step = "gone" /\ cli' = Ended("1") /\ UNCHANGED asked
  /\ UNCHANGED server

SetsTheWallpaper(r) == r.verb \in {"next", "prev", "set path", "set id"}

\* Mutant: `queued` is taken for the end of the answer.
VerdictQueuedEnds(line) ==
  CASE line.kind \in {"OK", "queued"} -> "done"
    [] line.kind = "ERR" -> "refused"
    [] line.kind = "event" -> "event"
    [] line.kind = "malformed" -> "malformed"
    [] OTHER -> "line"

\* classify_line and verdict.
VerdictOn(line) ==
  CASE line.kind = "OK" -> "done"
    [] line.kind = "ERR" -> "refused"
    [] line.kind = "event" -> "event"
    [] line.kind = "queued" -> "interim"
    [] line.kind = "malformed" -> "malformed"
    [] OTHER -> "line"

\* One line of the answer. `idle` writes close after its first event, and reads on.
ReadLine ==
  /\ cli.step = "read"
  /\ answers # <<>>
  /\ answers' = Tail(answers)
  /\ LET verdict == VerdictOn(Head(answers))
         printed == Append(cli.printed, Head(answers).kind)
         closes == verdict = "event" /\ cli.request.verb = "subscribe" /\ ~cli.closed
     IN  /\ \/ cli' = CASE verdict = "done" -> Ended("0")
                        [] verdict = "refused" -> Ended("1")
                        [] verdict = "malformed" -> Ended("3")
                        [] OTHER -> [cli EXCEPT !.printed = printed, !.closed = @ \/ closes,
                                       !.waits = @ \/ (verdict = "interim" /\ SetsTheWallpaper(cli.request))]
            \/ closes /\ server.step = "gone" /\ cli' = Ended("1")
         /\ asked' = IF closes THEN Append(asked, <<"close">>) ELSE asked
  /\ UNCHANGED server

\* The daemon's end is closed: end of file, or a reset where it left something unread.
ReadEnd ==
  /\ cli.step \in {"greet", "read"}
  /\ answers = <<>> /\ server.step = "gone"
  /\ \/ cli' = Ended("3")
     \/ asked # <<>> /\ cli' = Ended("1")
  /\ UNCHANGED <<asked, answers, server>>

-----------------------------------------------------------------------------
(* The daemon's end. `server.ended` is how it has ended the request it serves. *)

Writes(lines) == answers' = answers \o [i \in DOMAIN lines |-> Line(lines[i])]
Reaches(step, how) == server' = [server EXCEPT !.step = step, !.ended = how]

\* serve: a 17th connection is refused; another daemon greets otherwise.
AcceptClient ==
  /\ server.step = "accepting"
  /\ \/ Writes(<<"greeting">>) /\ server' = [server EXCEPT !.step = "ready"]
     \/ Writes(<<"ERR">>) /\ Reaches("gone", "refused")
     \/ Writes(<<"other greeting">>) /\ server' = [server EXCEPT !.step = "gone"]
  /\ UNCHANGED <<cli, asked>>

Refuses(r) == \/ r.verb \in {"favorite", "unfavorite", "set path", "set id"} \* degraded, or not found
              \/ r.verb \in {"next", "prev"}                                  \* busy, or no earlier entry
              \/ r.verb = "ERR"
Works(r) == SetsTheWallpaper(r) \/ r.verb = "config check"

\* dispatch: an answer, a refusal, or `queued` and the work that it announces.
Dispatch ==
  /\ server.step = "ready"
  /\ asked # <<>>
  /\ asked' = Tail(asked)
  /\ LET r == ParseRequest(Head(asked))
         now(step, how) == server' = [server EXCEPT !.step = step, !.ended = how, !.request = r]
     IN  \/ Refuses(r) /\ Writes(<<"ERR">>) /\ now("ready", "refused")
         \/ Works(r) /\ Writes(<<"queued">>) /\ now("working", "no")
         \/ r.verb = "subscribe" /\ Writes(<<"data">>) /\ now("stream", "no")
         \/ r.verb = "close" /\ Writes(<<"OK">>) /\ now("gone", "done")
         \/ r.verb \in {"ping", "pause", "resume"} /\ Writes(<<"OK">>) /\ now("ready", "done")
         \/ /\ r.verb \notin {"ERR", "subscribe", "close", "ping", "pause", "resume"} /\ ~Works(r)
            /\ Writes(<<"data", "OK">>) /\ now("ready", "done")
  /\ UNCHANGED cli

\* The worker is done: its report and OK, or the code it failed with.
WorkDone == /\ server.step = "working"
            /\ \/ Writes(<<"data", "OK">>) /\ Reaches("ready", "done")
               \/ Writes(<<"ERR">>) /\ Reaches("ready", "refused")
            /\ UNCHANGED <<cli, asked>>

\* subscribe: events of others' doing, the answer to close; a full queue ends the stream.
StreamEvent == /\ server.step = "stream" /\ server.seen < MaxStreamEvents
               /\ Writes(<<"event">>)
               /\ server' = [server EXCEPT !.seen = @ + 1]
               /\ UNCHANGED <<cli, asked>>

StreamClose == /\ server.step = "stream" /\ asked # <<>>
               /\ asked' = Tail(asked)
               /\ IF ParseRequest(Head(asked)).verb = "close"
                  THEN Writes(<<"OK">>) /\ Reaches("gone", "done")
                  ELSE Writes(<<"ERR">>) /\ UNCHANGED server
               /\ UNCHANGED cli

\* The daemon ends, the bus drops the subscriber, or the idle timeout expires. The last line
\* may be cut; a fragment is a line of its kind, or one that is none.
HangUp ==
  /\ server.step \in {"accepting", "ready", "working", "stream"}
  /\ server' = [server EXCEPT !.step = "gone"]
  /\ \/ UNCHANGED answers
     \/ /\ answers # <<>>
        /\ \E kind \in {Last(answers).kind, "malformed"} :
             answers' = Front(answers) \o <<[kind |-> kind, cut |-> TRUE]>>
  /\ UNCHANGED <<cli, asked>>

ConvoNext == \/ \E words \in CommandWords : Invoke(words)
             \/ CannotConnect \/ Connect \/ Greet \/ ReadLine \/ ReadEnd
             \/ AcceptClient \/ Dispatch \/ WorkDone \/ StreamEvent \/ StreamClose \/ HangUp

ConvoSpec == ConvoInit /\ [][ConvoNext]_convoVars

-----------------------------------------------------------------------------
\* Exit code 0 is the daemon's own OK to the very request the command line stands for, with
\* everything before it printed and, of `idle`, at least one event; and the client sits out
\* a wait without a limit only for a request that sets the wallpaper (main.rs:1-8, talk;
\* protocol.rs, encode and parse).
ExitIsTheAnswer ==
  /\ cli.exit = "0" /\ cli.request.verb # "" =>
       /\ server.ended = "done" /\ answers = <<>>
       /\ server.request = cli.request
       /\ cli.request.verb = "subscribe" => Contains(cli.printed, "event")
  /\ cli.waits => SetsTheWallpaper(server.request)
=============================================================================
