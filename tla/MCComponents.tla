---------------------------- MODULE MCComponents ----------------------------
(***************************************************************************)
(* The components beside the scheduler, the rotations, rotate.lock and the *)
(* cache, for TLC: a sum of their specifications. `part` says whose run    *)
(* this is; the others stay where they begin. No component reads another's *)
(* variables, so that the sum has each one's behaviours and no others.     *)
(***************************************************************************)
EXTENDS StateFiles, DaemonLock, EventBus, Pipeline, HeadWindow, LocalSource, Configuration,
        ReportVerb, Conversation, Setters, Supervision

VARIABLE part

vars == <<part, fileVars, lockVars, busVars, pipeVars, headVars, localVars, confVars, reportVars,
          convoVars, setterVars, superVars>>

-----------------------------------------------------------------------------
\* Three sources, one of each route; a candidate for every way through the filters, the
\* index and the bytes.
MCMode == 1 :> "url" @@ 2 :> "reference" @@ 3 :> "copy"
Candidate(i, said, bytes, ext, holds) ==
  [id |-> i, said |-> said, bytes |-> bytes, named |-> ext, holds |-> holds]
MCOffers == {Candidate(1, "above", "fine", "settable", "image"),
             Candidate(2, "unknown", "unknown", "none", "small"),
             Candidate(3, "unknown", "unknown", "none", "junk"),
             Candidate(4, "above", "fine", "settable", "image"),
             Candidate(5, "under", "fine", "settable", "small"),
             Candidate(6, "skewed", "fine", "settable", "image"),
             Candidate(7, "above", "over", "settable", "huge"),
             Candidate(8, "above", "fine", "alien", "junk")}

\* Pictures shorter and longer than the window and than the cap, and JPEGs whose frame
\* comes after segments, fills and junk at every offset that matters.
Picture(kind, length, meta, parts) ==
  [kind |-> kind, length |-> length, meta |-> meta, parts |-> parts]
Part(what, start) == [what |-> what, at |-> start]
MCPictures ==
  {Picture("png", 20, 0, <<>>), Picture("png", 60, 0, <<>>), Picture("webp", 29, 0, <<>>),
   Picture("webp", 34, 0, <<>>), Picture("other", 50, 0, <<>>), Picture("heic", 60, 20, <<>>),
   Picture("heic", 60, 40, <<>>), Picture("heic", 64, 52, <<>>), Picture("heic", 60, 0, <<>>),
   Picture("heic", 14, 14, <<>>)}
  \cup {Picture("jpeg", n, 0, <<Part("segment", 2), Part(p[1], a), Part("frame", a + p[2])>>) :
          n \in {40, 64}, a \in {6, 16, 24, 30},
          p \in {<<"segment", 4>>, <<"segment", 18>>, <<"alone", 2>>, <<"fill", 1>>,
                 <<"junk", 1>>, <<"junk", 18>>, <<"frame", 9>>, <<"frame", 18>>}}
  \cup {Picture("jpeg", 64, 0, <<Part("segment", 2), Part("frame", a), Part("junk", a + n)>>) :
          a \in 20 .. 26, n \in {6, 9}}

\* Directories 1, 2, 3 inside one another; links to nowhere, up, down and to a file; two
\* links between siblings. The roots overlap or lie side by side, are links, or are files.
MCNodes == 1 .. 7
Inside(f) == [n \in MCNodes |-> IF n \in DOMAIN f THEN f[n] ELSE <<>>]
KindsOf(dirs, links, texts) ==
  [n \in MCNodes |-> IF n \in dirs THEN "dir" ELSE IF n \in links THEN "link"
                     ELSE IF n \in texts THEN "file" ELSE "picture"]
Located(f) == [n \in MCNodes |-> Append(f[n], n)]
MCTrees ==
  {[kind |-> KindsOf({1, 2, 3}, {4}, {6}),
    inside |-> Inside(1 :> <<2, 4, 5>> @@ 2 :> <<3, 6>> @@ 3 :> <<7>>),
    at |-> Located(<<<<>>, <<1>>, <<1, 2>>, <<1>>, <<1>>, <<1, 2>>, <<1, 2, 3>>>>),
    to |-> [n \in MCNodes |-> IF n = 4 THEN x ELSE 0]] : x \in {0, 1, 3, 5}}
  \cup {[kind |-> KindsOf({1, 2, 3}, {4, 6}, {}),
         inside |-> Inside(1 :> <<2, 3>> @@ 2 :> <<4, 5>> @@ 3 :> <<6, 7>>),
         at |-> Located(<<<<>>, <<1>>, <<1>>, <<1, 2>>, <<1, 2>>, <<1, 3>>, <<1, 3>>>>),
         to |-> [n \in MCNodes |-> IF n = 4 THEN x ELSE IF n = 6 THEN 2 ELSE 0]] : x \in {1, 3}}
MCRoots == {<<1>>, <<4>>, <<1, 2>>, <<5, 1>>, <<2, 2>>, <<2, 3>>}

\* Documents at and beyond the limits, with each spelling, and with sources of both kinds.
Folder(id) == ("id" :> Text(id)) @@ ("kind" :> Text("local")) @@ ("paths" :> Texts(<<"p">>))
Site(pages) == ("id" :> Text("b")) @@ ("kind" :> Text("wallhaven")) @@ ("pages" :> Num(pages))
MCDocuments ==
  ("default" :> ("config_schema" :> Num(1)))
  @@ ("cap" :> ("cache.max_bytes" :> Num(39)))
  @@ ("capBoth" :> (("cache.max_bytes" :> Num(39)) @@ ("filters.max_bytes" :> Num(39))
                    @@ ("cache.root" :> Text("root 1"))))
  @@ ("keep" :> (("keep" :> Num(1)) @@ ("cache.keep" :> Num(7))))
  @@ ("keepAll" :> (("keep" :> Num(3)) @@ ("cache.keep" :> Num(1)) @@ ("cache.max_files" :> Num(2))))
  @@ ("keepOld" :> ("keep" :> Num(1)))
  @@ ("dir" :> (("cache.cache_dir" :> Text("root 2")) @@ ("backend" :> Text("noop"))))
  @@ ("dirBoth" :> (("cache.cache_dir" :> Text("relative")) @@ ("cache.root" :> Null)
                    @@ ("schedule.worker_deadline_seconds" :> Num(60))))
  @@ ("relative" :> ("cache.root" :> Text("relative")))
  @@ ("notObject" :> ("schedule" :> Num(1)))
  @@ ("deadline" :> ("schedule.worker_deadline_seconds" :> Num(59)))
  @@ ("log" :> (("log_max_bytes" :> Num(0)) @@ ("schedule.interval_seconds" :> Num(60))))
  @@ ("logLow" :> ("log_max_bytes" :> Num(4095)))
  @@ ("huge" :> ("schedule.interval_seconds" :> Num(20001)))
  @@ ("wide" :> ("min_width" :> Num(10001)))
  @@ ("ratio" :> (("filters.target_ratio" :> Num(20001)) @@ ("filters.ratio_tolerance" :> Num(0))))
  @@ ("prefetch" :> ("prefetch" :> Num(9)))
  @@ ("sources" :> ("sources" :> Objects(<<Folder("a"), Site(5)>>)))
  @@ ("twice" :> ("sources" :> Objects(<<Folder("b"), Site(1)>>)))
  @@ ("pages" :> ("sources" :> Objects(<<Site(6)>>)))

\* Command lines that agree, name one file twice, exchange the two, or are refused.
CommandLine(row, out) ==
  [x \in {"checklist", "observations", "log", "build-version", "build-commit", "machine",
          "os-version", "by", "at", "backend", "out", "row", "signed"} |->
     CASE x = "checklist" -> "macos" [] x = "backend" -> "noop" [] x = "signed" -> "yes"
       [] x = "out" -> out [] x = "row" -> row [] OTHER -> "ok"]
MCLines == {CommandLine("p", "q"), CommandLine("q", "p"), CommandLine("p", "p"), CommandLine("p", "s"),
            [CommandLine("p", "q") EXCEPT !["by"] = "blank"],
            [CommandLine("p", "q") EXCEPT !["signed"] = "no"],
            ("zoom" :> "ok") @@ CommandLine("p", "q")}
Seen(item, says, evidence) == [item |-> item, verdict |-> says, evidence |-> evidence]
MCObservations ==
  {<<>>, <<Seen("V1", "pass", TRUE)>>, <<Seen("V1", "pass", FALSE)>>, <<Seen("X", "pass", TRUE)>>,
   <<Seen("V2", "fail", TRUE), Seen("V1", "not-run", FALSE)>>,
   <<Seen("V1", "pass", TRUE), Seen("V1", "fail", TRUE)>>}
MCChecklist == [macos |-> {"V1", "V2"}, windows |-> {"W1"}, linux |-> {"gnome"}]

MCWords ==
  {<<"next">>, <<"prev">>, <<"set", "/p">>, <<"set", "~p">>, <<"set", "k">>, <<"set", "">>,
   <<"history">>, <<"history", "0">>, <<"history", "99">>, <<"history", "7">>, <<"history", "x">>,
   <<"favorite">>, <<"favorite", "k">>, <<"favorite", "">>, <<"unfavorite", "k">>,
   <<"config", "check">>, <<"config", "path">>, <<"idle">>, <<"ping">>, <<"status">>, <<"help">>,
   <<"next", "x">>, <<"pause">>, <<"history", "+7">>, <<"set", "/p q">>, <<"favorite", "k k">>}
MCDecimal == [n \in 0 .. 99 |-> ToString(n)]
MCCountOf == "+7" :> 7 @@ [w \in Range(MCDecimal) |-> CHOOSE n \in 0 .. 99 : MCDecimal[n] = w]

Signals(hyprland, sway, names, session) ==
  [hyprland |-> hyprland, sway |-> sway, names |-> names, session |-> session]
Linux(signals, tools) == [platform |-> "linux", signals |-> signals, tools |-> tools]
MCMachines ==
  {[platform |-> p, tools |-> {"shell"}] : p \in {"macos", "windows", "noop"}}
  \cup {Linux(Signals(FALSE, FALSE, <<"ubuntu", "gnome">>, "wayland"), {"gsettings"}),
        Linux(Signals(FALSE, FALSE, <<"gnome">>, "x11"), {}),
        Linux(Signals(FALSE, FALSE, <<"kde">>, "x11"), {"plasma-apply-wallpaperimage"}),
        Linux(Signals(FALSE, TRUE, <<"gnome">>, "wayland"), {"swaymsg"}),
        Linux(Signals(TRUE, TRUE, <<>>, "wayland"), {"swaymsg"}),
        Linux(Signals(FALSE, FALSE, <<>>, "x11"), {"xwallpaper"}),
        Linux(Signals(FALSE, FALSE, <<>>, "x11"), {}),
        Linux(Signals(FALSE, FALSE, <<"xfce">>, "x11"), {"feh"})}

-----------------------------------------------------------------------------
Init ==
  /\ part \in {"files", "lock", "bus", "pipeline", "head", "local", "config", "report", "convo",
               "setters", "supervision"}
  /\ FilesInit /\ DaemonInit /\ BusInit /\ PipeInit /\ HeadInit /\ LocalInit /\ ConfInit
  /\ ReportInit /\ ConvoInit /\ SettersInit /\ SupInit
  /\ part # "lock" => lockMode = "flock"
  /\ part # "supervision" => errand = "set"

\* The variables of all parts but one stay.
Files == /\ part = "files" /\ FilesNext
         /\ UNCHANGED <<lockVars, busVars, pipeVars, headVars, localVars, confVars, reportVars,
                        convoVars, setterVars, superVars>>
Lock == /\ part = "lock" /\ DaemonNext
        /\ UNCHANGED <<fileVars, busVars, pipeVars, headVars, localVars, confVars, reportVars,
                       convoVars, setterVars, superVars>>
Bus == /\ part = "bus" /\ BusNext
       /\ UNCHANGED <<fileVars, lockVars, pipeVars, headVars, localVars, confVars, reportVars,
                      convoVars, setterVars, superVars>>
Rotating == /\ part = "pipeline" /\ PipeNext
            /\ UNCHANGED <<fileVars, lockVars, busVars, headVars, localVars, confVars, reportVars,
                           convoVars, setterVars, superVars>>
Loads == /\ part = "head" /\ HeadNext
         /\ UNCHANGED <<fileVars, lockVars, busVars, pipeVars, localVars, confVars, reportVars,
                        convoVars, setterVars, superVars>>
Walks == /\ part = "local" /\ LocalNext
         /\ UNCHANGED <<fileVars, lockVars, busVars, pipeVars, headVars, confVars, reportVars,
                        convoVars, setterVars, superVars>>
Configures == /\ part = "config" /\ ConfNext
              /\ UNCHANGED <<fileVars, lockVars, busVars, pipeVars, headVars, localVars, reportVars,
                             convoVars, setterVars, superVars>>
Reports == /\ part = "report" /\ ReportNext
           /\ UNCHANGED <<fileVars, lockVars, busVars, pipeVars, headVars, localVars, confVars,
                          convoVars, setterVars, superVars>>
Converses == /\ part = "convo" /\ ConvoNext
             /\ UNCHANGED <<fileVars, lockVars, busVars, pipeVars, headVars, localVars, confVars,
                            reportVars, setterVars, superVars>>
Desktops == /\ part = "setters" /\ SettersNext
         /\ UNCHANGED <<fileVars, lockVars, busVars, pipeVars, headVars, localVars, confVars,
                        reportVars, convoVars, superVars>>
Supervises ==
  /\ part = "supervision" /\ SupNext
  /\ UNCHANGED <<fileVars, lockVars, busVars, pipeVars, headVars, localVars, confVars, reportVars,
                 convoVars, setterVars>>

Next ==
  /\ part' = part
  /\ \/ Files \/ Lock \/ Bus \/ Rotating \/ Loads \/ Walks \/ Configures \/ Reports \/ Converses
     \/ Desktops \/ Supervises

\* The fairness of the bus, where it is the bus's run.
Fairness ==
  /\ \A c \in Clients : WF_busVars(part = "bus" /\ StreamStep(c))
  /\ \A c \in Readers : WF_busVars(part = "bus" /\ ReadsEvent(c))

Spec == Init /\ [][Next]_vars /\ Fairness
=============================================================================
