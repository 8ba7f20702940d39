----------------------------- MODULE ConfigSchema -----------------------------
(***************************************************************************)
(* config.json (whirl-core/config.rs): which documents Config::parse       *)
(* accepts, what it makes of them, and which key it names when it refuses. *)
(*                                                                         *)
(* A document is what the JSON reader gave: a function from dotted keys to *)
(* values; a section that is not an object is under the section's own key. *)
(* Texts are abstracted to the words the rules tell apart, numbers are     *)
(* scaled (see Fits); lines and messages are left out.                     *)
(***************************************************************************)
EXTENDS Integers, SequencesExt

Num(n) == [type |-> "number", n |-> n]
Fraction == [type |-> "fraction"]
Text(w) == [type |-> "string", word |-> w]
Bool(b) == [type |-> "boolean", b |-> b]
Texts(ws) == [type |-> "array", words |-> ws]
Objects(os) == [type |-> "objects", of |-> os]
Null == [type |-> "null"]

\* The bounds of the code, scaled to TLC's integers: u32::MAX and the f64 that `as i64`
\* turns every larger number into.
U32Max == 10000
I64Max == 20000
Saturated(n) == Min({Max({n, -I64Max - 1}), I64Max})

\* want_*: what each kind of field takes.
Fits(want, v) ==
  LET Whole == v.type = "number"
  IN  CASE want = "int"     -> Whole
        [] want = "u32"     -> Whole /\ Saturated(v.n) \in 0 .. U32Max
        [] want = "u64"     -> Whole /\ v.n >= 0
        [] want = "float"   -> Whole \/ v.type = "fraction"
        [] want = "float?"  -> Whole \/ v.type \in {"fraction", "null"}
        [] want = "bool"    -> v.type = "boolean"
        [] want = "text"    -> v.type = "string"
        [] want = "text?"   -> v.type \in {"string", "null"}
        [] want = "texts"   -> v.type = "array"
        [] want = "objects" -> v.type = "objects"
        [] want = "object"  -> FALSE      \* it is under its own key: it is not one

\* parse_root: the keys in the order they are read, with what they take.
RootRows == <<
  <<"config_schema", "int">>, <<"socket", "text?">>, <<"log_level", "text">>,
  <<"log_max_bytes", "u64">>, <<"prefetch", "u64">>,
  <<"schedule", "object">>, <<"schedule.interval_seconds", "u64">>,
  <<"schedule.worker_deadline_seconds", "u64">>,
  <<"startup", "object">>, <<"startup.enabled", "bool">>, <<"startup.mode", "text">>,
  <<"startup.respect_manual", "bool">>,
  <<"display", "object">>, <<"display.mode", "text">>,
  <<"min_width", "u32">>, <<"min_height", "u32">>,
  <<"filters", "object">>, <<"filters.max_bytes", "u64">>,
  <<"filters.ratio_tolerance", "float">>, <<"filters.target_ratio", "float?">>,
  <<"state", "object">>, <<"state.history_entries", "u64">>,
  <<"dedupe", "object">>, <<"dedupe.recent_entries", "u64">>,
  <<"keep", "u64">>,
  <<"cache", "object">>, <<"cache.root", "text?">>, <<"cache.cache_dir", "text?">>,
  <<"cache.max_bytes", "u64">>, <<"cache.max_files", "u64">>, <<"cache.keep", "u64">>,
  <<"cache.grace_seconds", "u64">>, <<"cache.orphan_grace_seconds", "u64">>,
  <<"backend", "text">>, <<"sources", "objects">> >>

\* parse_source, then parse_local or parse_wallhaven.
SourceRows == <<
  <<"id", "text">>, <<"kind", "text">>, <<"weight", "u32">>, <<"capabilities", "texts">>,
  <<"min_width", "u32">>, <<"min_height", "u32">>, <<"max_bytes", "u64">> >>
LocalRows == <<
  <<"paths", "texts">>, <<"recursive", "bool">>, <<"max_depth", "int">>,
  <<"follow_symlinks", "bool">>, <<"include", "texts">>, <<"exclude", "texts">>, <<"mode", "text">> >>
WallhavenRows == <<
  <<"query", "text?">>, <<"categories", "text">>, <<"purity", "text">>, <<"sorting", "text">>,
  <<"order", "text">>, <<"ratios", "text?">>, <<"atleast", "text?">>, <<"colors", "text?">>,
  <<"top_range", "text?">>, <<"collection", "text?">>, <<"pages", "int">>, <<"api_key_ref", "text?">> >>

\* The rules beside the types: vocabularies (a few words of each; an id stands for one of
\* the accepted characters), ranges, and what a path must be.
EnumOf ==
  [log_level |-> {"error", "info", "debug"}, backend |-> {"native", "noop"},
   kind |-> {"local", "wallhaven"}, mode |-> {"reference", "copy"}, id |-> {"a", "b"},
   sorting |-> {"random", "toplist"}, order |-> {"desc", "asc"},
   categories |-> {"111"}, purity |-> {"100", "111"}]
  @@ ("startup.mode" :> {"last", "rotate"}) @@ ("display.mode" :> {"all", "per-display"})

CapabilitiesOf(kind) == IF kind = "local" THEN {"resolution", "extension"}
                        ELSE {"resolution", "ratio", "purity", "colors", "category"}

Allowed(key, v, kind) ==
  /\ key \in DOMAIN EnumOf => v.word \in EnumOf[key]
  /\ key = "prefetch" => v.n <= 8
  /\ key = "filters.ratio_tolerance" /\ v.type = "number" => v.n >= 0
  /\ key \in {"cache.root", "cache.cache_dir"} /\ v # Null => v.word # "relative"
  /\ key = "capabilities" => Range(v.words) \subseteq CapabilitiesOf(kind)
  /\ key = "paths" => v.words # <<>> /\ "" \notin Range(v.words)
  /\ key = "max_depth" => v.n >= 1
  /\ key = "pages" => v.n \in 1 .. 5
  /\ key = "api_key_ref" /\ v # Null => v.word # "a key"

\* ObjReader::field: an alias is looked for when its own name is not there.
Superseded == [k \in {"cache.cache_dir", "cache.keep"} |->
                 IF k = "cache.keep" THEN "cache.max_files" ELSE "cache.root"]
IsRead(doc, k) == k \in DOMAIN doc /\ (k \in DOMAIN Superseded => Superseded[k] \notin DOMAIN doc)

\* The first row of a table that does not hold, or "none".
FirstBad(rows, doc, required, kind) ==
  LET Bad(r) == IF IsRead(doc, r[1]) THEN ~Fits(r[2], doc[r[1]]) \/ ~Allowed(r[1], doc[r[1]], kind)
                ELSE r[1] \in required
      bad == {i \in DOMAIN rows : Bad(rows[i])}
  IN  IF bad = {} THEN "none" ELSE rows[Min(bad)][1]

SourceBad(s) ==
  LET kind == IF "kind" \in DOMAIN s /\ s["kind"].type = "string" THEN s["kind"].word ELSE "none"
      rows == SourceRows \o (IF kind = "local" THEN LocalRows ELSE WallhavenRows)
  IN  FirstBad(rows, s, {"id", "kind"} \cup (IF kind = "local" THEN {"paths"} ELSE {}), kind)

SourcesOf(doc) == IF "sources" \in DOMAIN doc THEN doc["sources"].of ELSE <<>>

\* Each source in its order, then the ids, which are the prefixes of origin keys.
SourcesBad(doc) ==
  LET ss == SourcesOf(doc)
      bad == {i \in DOMAIN ss : SourceBad(ss[i]) # "none"}
  IN  IF bad # {} THEN SourceBad(ss[Min(bad)])
      ELSE IF IsInjective([i \in DOMAIN ss |-> ss[i]["id"]]) THEN "none" ELSE "id"

-----------------------------------------------------------------------------
\* Config::default (bytes scaled down).
DefaultNumbers ==
  {<<"config_schema", 1>>, <<"log_max_bytes", 8192>>, <<"prefetch", 2>>,
   <<"schedule.interval_seconds", 1800>>, <<"schedule.worker_deadline_seconds", 300>>,
   <<"min_width", 1600>>, <<"min_height", 900>>, <<"filters.max_bytes", 40>>,
   <<"state.history_entries", 50>>, <<"dedupe.recent_entries", 50>>,
   <<"cache.max_bytes", 2048>>, <<"cache.max_files", 500>>, <<"cache.grace_seconds", 600>>,
   <<"cache.orphan_grace_seconds", 300>>}
DefaultOthers ==
  {<<"socket", Null>>, <<"cache.root", Null>>, <<"filters.target_ratio", Null>>,
   <<"filters.ratio_tolerance", Fraction>>, <<"log_level", Text("info")>>,
   <<"startup.mode", Text("last")>>, <<"display.mode", Text("all")>>,
   <<"backend", Text("native")>>, <<"startup.enabled", Bool(TRUE)>>,
   <<"startup.respect_manual", Bool(TRUE)>>, <<"sources", Objects(<<>>)>>}
DefaultRows == {<<r[1], Num(r[2])>> : r \in DefaultNumbers} \cup DefaultOthers
Defaults == [k \in {r[1] : r \in DefaultRows} |-> (CHOOSE r \in DefaultRows : r[1] = k)[2]]

\* Where a key that was read goes: `keep` and the aliases of `cache` to the names they stand for.
Target(k) == CASE k \in {"keep", "cache.keep"} -> "cache.max_files"
               [] k = "cache.cache_dir" -> "cache.root"
               [] OTHER -> k

\* A count is what `as i64` made of the number.
Kept(want, v) == IF want \in {"int", "u32", "u64"} THEN Num(Saturated(v.n)) ELSE v

\* Of the rows that assign to a key the last one that was read stays; a section is no key.
Assigned(rows, doc) ==
  [k \in DOMAIN Defaults |->
     LET given == {i \in DOMAIN rows : IsRead(doc, rows[i][1]) /\ Target(rows[i][1]) = k}
         last == rows[Max(given)]
     IN  IF given = {} THEN Defaults[k] ELSE Kept(last[2], doc[last[1]])]

\* Mutant: the deprecated name is read after the section it belongs to.
AssembleKeepLast(doc) ==
  Assigned(SelectSeq(RootRows, LAMBDA r : r[1] # "keep") \o << <<"keep", "u64">> >>, doc)

\* The assignments of parse_root, in its order.
Assemble(doc) == Assigned(RootRows, doc)

\* validate_ordering, of the values in force.
Limits(c) ==
  LET n(k) == c[k].n
  IN  << <<"cache.max_bytes", n("cache.max_bytes") >= n("filters.max_bytes")>>,
         <<"cache.max_files", n("cache.max_files") >= 2>>,
         <<"state.history_entries", n("state.history_entries") >= 1>>,
         <<"dedupe.recent_entries", n("dedupe.recent_entries") >= 1>>,
         <<"schedule.interval_seconds", n("schedule.interval_seconds") >= 60>>,
         <<"schedule.worker_deadline_seconds", n("schedule.worker_deadline_seconds") >= 60>>,
         <<"log_max_bytes", n("log_max_bytes") = 0 \/ n("log_max_bytes") >= 4096>> >>

OffLimits(c) ==
  LET off == {i \in DOMAIN Limits(c) : ~Limits(c)[i][2]}
  IN  IF off = {} THEN "none" ELSE Limits(c)[Min(off)][1]

\* Config::parse: the key it refuses, or "none" and the configuration.
ParseDocument(doc) ==
  LET root == FirstBad(RootRows, doc, {}, "none")
      sources == SourcesBad(doc)
      bad == CASE root # "none" -> root
               [] root = "none" /\ sources # "none" -> sources
               [] root = "none" /\ sources = "none" -> OffLimits(Assemble(doc))
  IN  IF bad = "none" THEN [bad |-> "none", config |-> Assemble(doc)] ELSE [bad |-> bad]
=============================================================================
