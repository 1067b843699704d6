----------------------------- MODULE ToolRescue -----------------------------
(***************************************************************************)
(* Tool calls a model wrote without their wrapper, recovered from its      *)
(* text: parse_bare_tool_calls of api_common.h and the helpers it uses.    *)
(*                                                                         *)
(* A text is a sequence of pieces.  A piece is prose, a code fence, a JSON *)
(* object, the opener {"name": on its own, a closing brace, a call cut off *)
(* by the end of the text, or a call whose opener {"name": " was dropped   *)
(* ("bare").  Of an object only what the recovery looks at is kept: the    *)
(* string under "name", the string under an alias of it, whether there is  *)
(* an "arguments" object, the keys of the arguments, whether they sit      *)
(* under a lone shell key, and its form:                                   *)
(*   "ok"        JSON as it should be;                                     *)
(*   "tagged"    a value between <content> tags instead of quotes;         *)
(*   "key"       the key "arguments" without its opening quote;            *)
(*   "unquoted"  the name is not quoted;                                   *)
(*   "inner"     an unescaped quote the lookahead reads as a literal one;  *)
(*   "deep"      unescaped quotes that leave no reading that parses.       *)
(* Q27_TOOL_STRICT, which turns all of this off, is not set.               *)
(***************************************************************************)
EXTENDS Naturals, SequencesExt, FiniteSetsExt

CONSTANTS
  Registry,       \* the request's tools, in order: name, props, req
  Pieces,         \* the pieces a text is made of
  MaxPieces       \* bound: pieces of a text

ASSUME RescueAssumption ==
  /\ MaxPieces \in Nat
  /\ \A i, j \in DOMAIN Registry : Registry[i].name = Registry[j].name => i = j

VARIABLES
  said,      \* text_in
  given      \* observation: what the recovery returned, or NotAsked

rescueVars == <<said, given>>

NoName == ""
NotAsked == [calls |-> <<>>, prefix |-> 0, asked |-> FALSE]

PieceOf(kind) ==
  [kind |-> kind, name |-> NoName, alias |-> NoName, args |-> FALSE, keys |-> {},
   shell |-> FALSE, form |-> "ok"]
ObjectOf(keys) == [PieceOf("object") EXCEPT !.keys = keys]
CallOf(name, keys) == [ObjectOf(keys) EXCEPT !.name = name, !.args = TRUE]

KnownTools(tools) == {tools[i].name : i \in DOMAIN tools}
Registered == KnownTools(Registry)

-----------------------------------------------------------------------------
(* Which tool *)

Overlap(tool, keys) == Cardinality(keys \intersect tool.props)
Score(tool, keys) == 2 * Overlap(tool, keys) - Cardinality(keys \ tool.props)

(* infer_tool_name: the keys of an orphaned arguments object choose. *)
infer_tool_name(tools, keys) ==
  LET exact == {i \in DOMAIN tools : tools[i].req # {} /\ tools[i].req = keys}
      best == {i \in DOMAIN tools :
                 /\ 2 * Overlap(tools[i], keys) > Cardinality(keys \ tools[i].props)
                 /\ \A j \in DOMAIN tools : Score(tools[j], keys) <= Score(tools[i], keys)}
      satisfied == {i \in best : tools[i].req \subseteq keys}
      only(S) == tools[CHOOSE i \in S : TRUE].name
  IN CASE keys = {} -> NoName
       [] keys # {} /\ exact # {} -> tools[Min(exact)].name
       [] keys # {} /\ exact = {} /\ Cardinality(best) = 1 -> only(best)
       [] keys # {} /\ exact = {} /\ Cardinality(best) # 1
            /\ Cardinality(satisfied) = 1 -> only(satisfied)
       [] OTHER -> NoName

(* The top-level keys of an object. *)
KeysOf(o) ==
  IF o.shell THEN {"input"}
  ELSE (IF o.args THEN {"arguments"} ELSE o.keys)
         \union (IF o.name = NoName THEN {} ELSE {"name"})
         \union (IF o.alias = NoName THEN {} ELSE {"function"})

ArgsRead(o) == IF o.form = "inner" THEN "cropped" ELSE "own"

(* An alias names a registered tool or nothing. *)
resolve_aliased_call(o) == IF o.alias \in Registered THEN o.alias ELSE NoName

(* infer_tool_name_unwrapped: the keys as they are, then an alias of       *)
(* "name", then the keys below a lone shell key.  An alias that the keys   *)
(* decided over stays among the arguments.                                 *)
infer_tool_name_unwrapped(o) ==
  LET raw == infer_tool_name(Registry, KeysOf(o))
  IN IF raw # NoName
     THEN [name |-> raw, arguments |-> IF o.alias = NoName THEN ArgsRead(o) ELSE "beside"]
     ELSE [name |-> IF o.shell THEN infer_tool_name(Registry, o.keys)
                    ELSE resolve_aliased_call(o),
           arguments |-> ArgsRead(o)]

-----------------------------------------------------------------------------
(* The scan *)

escape_content_tags(p) == IF p.form = "tagged" THEN [p EXCEPT !.form = "ok"] ELSE p
fix_arg_quote(p) == IF p.form = "key" THEN [p EXCEPT !.form = "ok"] ELSE p
fix_unquoted_name(p) ==
  IF p.form = "unquoted" /\ p.name \in Registered THEN [p EXCEPT !.form = "ok"] ELSE p
Rewritten(p) == fix_unquoted_name(fix_arg_quote(escape_content_tags(p)))

Fences(t, i) == Cardinality({j \in 1..(i - 1) : t[j].kind = "fence"})
inside_fence(t, i) == Fences(t, i) % 2 = 1

Readable(p) == p.kind = "object" /\ p.form \in {"ok", "inner"}

(* The name and the arguments an object on its own gives, if it is a call:  *)
(* name and arguments, name and flat arguments, or an alias of the name.    *)
(* Only the first need not be registered.                                   *)
CallNamed(o) ==
  CASE o.name # NoName /\ o.args -> o.name
    [] o.name # NoName /\ ~o.args /\ o.name \in Registered -> o.name
    [] OTHER -> IF o.name = NoName THEN resolve_aliased_call(o) ELSE NoName

(* The name dropped and the object closed: {"name": {ARGS}}. *)
NameDropped(t, i) ==
  /\ t[i].kind = "open" /\ i + 2 <= Len(t)
  /\ Readable(t[i + 1]) /\ t[i + 2].kind = "close"

(* The truncated end of a turn: closed where it broke off. *)
Repaired(p, repair) == p.kind = "cut" /\ repair

(* What the scan makes of the brace at piece i: the call, if any, and the  *)
(* piece it goes on after.                                                 *)
ReadAt(t, i, repair) ==
  LET none == [calls |-> <<>>, upto |-> i]
      one(name, arguments, upto) ==
        IF name = NoName THEN none
        ELSE [calls |-> <<[at |-> i, name |-> name, arguments |-> arguments]>>,
              upto |-> upto]
  IN CASE inside_fence(t, i) -> none
       [] ~inside_fence(t, i) /\ Readable(t[i]) -> one(CallNamed(t[i]), ArgsRead(t[i]), i)
       [] ~inside_fence(t, i) /\ NameDropped(t, i) ->
            LET u == infer_tool_name_unwrapped(t[i + 1])
            IN one(u.name, u.arguments, i + 2)
       [] ~inside_fence(t, i) /\ Repaired(t[i], repair) -> one(t[i].name, "own", i)
       [] OTHER -> none

RECURSIVE ScanFrom(_, _, _)
ScanFrom(t, i, repair) ==
  IF i > Len(t) THEN <<>>
  ELSE LET r == ReadAt(t, i, repair) IN r.calls \o ScanFrom(t, r.upto + 1, repair)

(* m10: some segment the scan read had a quote it took for a literal one. *)
QuoteEscaped(t) ==
  \E i \in DOMAIN t : t[i].kind = "object" /\ t[i].form = "inner" /\ ~inside_fence(t, i)

(* scan_namedropped: openers followed by an object, closed or not.  It     *)
(* stops at one that runs to the end of the text.                          *)
RECURSIVE scan_namedropped(_, _)
scan_namedropped(t, i) ==
  CASE i >= Len(t) -> <<>>
    [] i < Len(t) /\ t[i].kind = "open" /\ t[i + 1].kind \in {"open", "cut"} -> <<>>
    [] i < Len(t) /\ t[i].kind = "open" /\ Readable(t[i + 1]) ->
         LET u == infer_tool_name_unwrapped(t[i + 1])
         IN (IF u.name = NoName THEN <<>>
             ELSE <<[at |-> i, name |-> u.name, arguments |-> u.arguments]>>)
              \o scan_namedropped(t, i + 2)
    [] OTHER -> scan_namedropped(t, i + 1)

(* What precedes the first call, without an opener that leads to it. *)
PrefixOf(t, calls) ==
  IF calls = <<>> THEN 0
  ELSE LET before == calls[1].at - 1
       IN IF before > 0 /\ t[before].kind = "open" THEN before - 1 ELSE before

-----------------------------------------------------------------------------
(* The two last resorts *)

(* A piece in which the name of a tool is followed by another key. *)
Mentions(p, name) ==
  \/ p.kind = "bare" /\ p.name = name
  \/ p.kind \in {"object", "cut"} /\ name \in {p.name, p.alias}

(* The dropped opener put back before the first mention of the tool, which *)
(* must not be quoted already; 0 where there is none.                      *)
OpenerAt(t, name) ==
  LET m == {i \in DOMAIN t : Mentions(t[i], name)}
  IN IF m # {} /\ t[Min(m)].kind = "bare" THEN Min(m) ELSE 0
WithOpener(t, i) == [t EXCEPT ![i] = [@ EXCEPT !.kind = "object"]]

(* recover_raw_value_call: the last named object, read up to the first     *)
(* quote that makes it parse.  It takes "arguments" and nothing else.      *)
LastNamed(t) ==
  LET named == {i \in DOMAIN t : \/ t[i].kind \in {"open", "cut"}
                                 \/ t[i].kind = "object" /\ t[i].name # NoName}
  IN IF named = {} THEN 0 ELSE Max(named)
(* Its body escaped and what follows it left off, any object parses. *)
RawParses(p) == p.kind = "object"
recover_raw_value_call(t) ==
  LET i == LastNamed(t)
  IN IF i = 0 \/ inside_fence(t, i) \/ ~RawParses(t[i]) \/ t[i].name \notin Registered
     THEN <<>>
     ELSE <<[at |-> i, name |-> t[i].name,
             arguments |-> IF t[i].args THEN "own" ELSE "none"]>>

-----------------------------------------------------------------------------
(* parse_bare_tool_calls *)

(* Scan, and the name-dropped batch when the scan found nothing. *)
Scanned(t, repair) ==
  LET calls == ScanFrom(t, 1, repair)
  IN IF calls # <<>> THEN calls ELSE scan_namedropped(t, 1)

(* The raw value replaces the last call, or the only one. *)
WithRawValue(t, got) ==
  LET raw == IF got.calls = <<>> \/ QuoteEscaped(t) THEN recover_raw_value_call(t) ELSE <<>>
  IN IF raw = <<>> THEN got
     ELSE [got EXCEPT !.calls = IF Len(@) > 1 THEN Front(@) \o raw ELSE raw,
                      !.prefix = LastNamed(t) - 1]

(* Without the dropped-opener step: its own re-parse. *)
ParsedOnce(t, repair) ==
  LET calls == Scanned(t, repair)
  IN WithRawValue(t, [calls |-> calls, prefix |-> PrefixOf(t, calls), asked |-> TRUE])

parse_bare_tool_calls(text_in, repair) ==
  LET t == [i \in DOMAIN text_in |-> Rewritten(text_in[i])]
      calls == Scanned(t, repair)
      again(k) == LET i == OpenerAt(t, Registry[k].name)
                  IN IF i = 0 THEN NotAsked ELSE ParsedOnce(WithOpener(t, i), repair)
      helped == {k \in DOMAIN Registry : again(k).calls # <<>>}
  IN WithRawValue(t,
       IF calls = <<>> /\ helped # {} THEN again(Min(helped))
       ELSE [calls |-> calls, prefix |-> PrefixOf(t, calls), asked |-> TRUE])

-----------------------------------------------------------------------------
(* The specification: the model writes, and the text is recovered from at  *)
(* the end of the turn, or of a segment in the middle of it.               *)

RescueInit == said = <<>> /\ given = NotAsked

(* A cut call and one with a raw body run to the end of the text, and a    *)
(* stray opener and a dropped one are not met in the same text.            *)
Write(p) ==
  /\ ~given.asked /\ Len(said) < MaxPieces
  /\ \A i \in DOMAIN said :
       /\ said[i].kind # "cut" /\ said[i].form # "deep"
       /\ {said[i].kind, p.kind} # {"open", "bare"}
  /\ said' = Append(said, p) /\ UNCHANGED given

Recover(allow_trunc_repair) ==
  /\ ~given.asked
  /\ given' = parse_bare_tool_calls(said, allow_trunc_repair)
  /\ UNCHANGED said

RescueNext == \/ \E p \in Pieces : Write(p)
              \/ \E repair \in BOOLEAN : Recover(repair)

-----------------------------------------------------------------------------
(* Properties *)

Ats == {given.calls[k].at : k \in DOMAIN given.calls}

Fenced(i) == Fences(said, i) % 2 = 1

(* Complete calls that stand in the text outside fences. *)
Standing ==
  {i \in DOMAIN said : /\ said[i].kind = "object" /\ said[i].args
                       /\ said[i].name \in Registered
                       /\ said[i].form \in {"ok", "tagged", "key", "unquoted", "inner"}
                       /\ ~Fenced(i)}

(* A literal quote in a value, and whether the raw-value rescue, which     *)
(* then replaces the last call by the last named object, replaces the call *)
(* that has it: it is complete and nothing like a call follows.  Otherwise *)
(* the code keeps neither the calls nor their order (EarlierCallsKept).    *)
Quoted == QuoteEscaped(said)
QuoteAtEnd ==
  \A i \in DOMAIN said : said[i].form = "inner" /\ ~Fenced(i) =>
    /\ said[i].name \in Registered /\ said[i].args
    /\ \A j \in i + 1 .. Len(said) : said[j].kind \in {"prose", "fence", "close"}

(* Arguments that do not all arrive: those of a flat call that only the    *)
(* raw-value rescue could read (api_common.h:1391).  Where a dropped name  *)
(* left an alias behind, it arrives among them.                            *)
Misread(i) ==
  \/ said[i].form = "deep" /\ ~said[i].args
  \/ said[i].kind = "open" /\ said[i + 1].alias # NoName

(* The calls come in the order of the text and none comes twice; each has  *)
(* the name its piece gives and, but for Misread, its own arguments, all   *)
(* of them and nothing else; no complete call outside fences is passed     *)
(* over; a call that has its name is not taken from inside a fence (one    *)
(* whose name was dropped may be, ExamplesStay); and the text shown ends   *)
(* before the first call, unless the last of several was read again for    *)
(* its quotes, when the others are shown as well (parse_bare_tool_calls,   *)
(* its four ways to a call and their order).                               *)
RescuedInPlace ==
  QuoteAtEnd =>
    /\ \A k, l \in DOMAIN given.calls : k < l => given.calls[k].at < given.calls[l].at
    /\ \A k \in DOMAIN given.calls :
         LET c == given.calls[k]
             p == said[c.at]
         IN /\ p.kind # "open" => c.name \in {p.name, p.alias} /\ ~Fenced(c.at)
            /\ c.name \in Registered \/ p.args
            /\ c.arguments = "own" \/ Misread(c.at)
    /\ given.asked => Standing \subseteq Ats
    /\ given.calls # <<>> =>
         given.prefix < given.calls[IF Quoted THEN Len(given.calls) ELSE 1].at

(* The tool that orphaned arguments are given to does not depend on the    *)
(* order of the tools in the request, where no two require the same        *)
(* parameters (infer_tool_name's ties).                                    *)
InferenceUnordered ==
  said = <<>> => \A keys \in SUBSET UNION {Registry[i].props : i \in DOMAIN Registry} :
    infer_tool_name(Registry, keys) = infer_tool_name(Reverse(Registry), keys)

(* A call keeps its arguments: read whole, and with nothing beside them.   *)
ArgumentsKept == \A k \in DOMAIN given.calls : given.calls[k].arguments = "own"

(* api_common.h:1731, of the raw-value rescue: "preserve any earlier calls *)
(* the scan recovered normally".                                           *)
EarlierCallsKept == given.asked => Standing \subseteq Ats

(* api_common.h:1497, of an object inside a fence: "a displayed example /  *)
(* echoed injection, not a call the model is making".                      *)
ExamplesStay == \A k \in DOMAIN given.calls : ~Fenced(given.calls[k].at)
=============================================================================
