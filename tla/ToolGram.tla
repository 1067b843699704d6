------------------------------ MODULE ToolGram ------------------------------
(***************************************************************************)
(* The grammar that constrains the body of a tool call, and the cache of   *)
(* its vocabulary masks: ToolGrammar and ToolMaskCache of toolgram.h.      *)
(*                                                                         *)
(* A byte is its class: "h" a hexadecimal letter, "d" a digit from 1 to 9, *)
(* "b" a letter that may follow a backslash, "|" and "US" the separators   *)
(* of the cache key, "ctl" a control character, Q a quote, BS a backslash. *)
(* The words the grammar spells, "name" and "arguments", the literals and  *)
(* the closer, are two bytes long, and "false" is left out.                *)
(***************************************************************************)
EXTENDS Naturals, SequencesExt

CONSTANTS
  ToolLists,      \* the tool allowlists of the requests
  Vocab,          \* the byte sequences of the tokens, the closer's id apart
  Inside,         \* bytes tried inside a string
  MaxDepth,       \* bound: nesting of the arguments
  MaxMaskDepth,   \* bound: the same while masks are compared
  MaxBytes,       \* bound: bytes of a call
  MaxBlanks       \* bound: blanks in a call

ASSUME GramAssumption ==
  /\ \A l \in ToolLists : l # {}
  /\ MaxDepth \in Nat /\ MaxMaskDepth \in Nat /\ MaxBytes \in Nat /\ MaxBlanks \in Nat

Q == "quote"
BS == "backslash"
Digits == {"0", "d"}
Hex == Digits \union {"h", "b", "e", "f", "a"}
Escapes == {Q, BS, "/", "b", "f", "n", "r", "t"}
Bytes == {" ", "{", "}", "[", "]", ":", ",", Q, BS, "0", "d", "-", "+", ".", "e", "h", "b",
          "t", "r", "f", "a", "n", "u", "g", "<", "/", "|", "US", "ctl"}

NameWord == <<"n", "a">>
ArgumentsWord == <<"a", "g">>
Literal == [t |-> <<"t", "r">>, n |-> <<"n", "u">>]
CloserWord == <<"<", "/">>

VARIABLES
  names,     \* names_
  gram,      \* the machine: st, word and lit, pref, stack; its st may be "DEAD"
  text,      \* observation: the bytes it took
  memo       \* observation: one entry of the cache, chosen at any get()

gramVars == <<names, gram, text, memo>>

FreshGram == [st |-> "WS_OBJ_OPEN", word |-> <<>>, lit |-> 0, pref |-> <<>>, stack |-> <<>>]
NoCacheEntry == [sig |-> <<>>, mask |-> {}, closer |-> FALSE]

-----------------------------------------------------------------------------
(* The machine *)

DeadGram(g) == [g EXCEPT !.st = "DEAD"]
GoTo(g, st) == [g EXCEPT !.st = st]
Spell(g, st, word, n) == [g EXCEPT !.st = st, !.word = word, !.lit = n]
StackTop(g) == IF g.stack = <<>> THEN "none" ELSE Last(g.stack)
PushGram(g, c, st) == [g EXCEPT !.stack = Append(@, c), !.st = st]

(* pop_or_finish *)
PopOrFinish(g) == [g EXCEPT !.stack = Front(@),
                    !.st = IF Len(g.stack) = 1 THEN "OBJ_CLOSE" ELSE "J_AFTER_VAL"]

(* States that take blanks, and the one byte that leads on from them. *)
Expect ==
  [WS_OBJ_OPEN |-> "{", KEY_OPEN_Q |-> Q, KEY_COLON |-> ":", NAME_OPEN_Q |-> Q,
   ARG_COMMA |-> ",", ARGKEY_OPEN_Q |-> Q, ARGS_COLON |-> ":", J_KEYCOLON |-> ":",
   OBJ_CLOSE |-> "}", DONE |-> "<", J_KEY_REQ |-> Q]
Then(g) ==
  CASE g.st = "WS_OBJ_OPEN" -> GoTo(g, "KEY_OPEN_Q")
    [] g.st = "KEY_OPEN_Q" -> Spell(g, "KEY_NAME", g.word, 0)
    [] g.st = "KEY_COLON" -> GoTo(g, "NAME_OPEN_Q")
    [] g.st = "NAME_OPEN_Q" -> [GoTo(g, "NAME_VAL") EXCEPT !.pref = <<>>]
    [] g.st = "ARG_COMMA" -> GoTo(g, "ARGKEY_OPEN_Q")
    [] g.st = "ARGKEY_OPEN_Q" -> Spell(g, "ARGKEY", g.word, 0)
    [] g.st \in {"ARGS_COLON", "J_KEYCOLON"} -> GoTo(g, "J_VALUE")
    [] g.st = "OBJ_CLOSE" -> GoTo(g, "DONE")
    [] g.st = "DONE" -> Spell(g, "CLOSER", CloserWord, 1)
    [] g.st = "J_KEY_REQ" -> GoTo(g, "J_KEYSTR")

(* value_start *)
ValueStart(g, c, allow_close) ==
  CASE c = "{" -> PushGram(g, "{", "J_KEY")
    [] c = "[" -> PushGram(g, "[", "J_VALUE")
    [] c = Q -> GoTo(g, "J_STR")
    [] c = "-" -> GoTo(g, "J_NUM_MINUS")
    [] c = "0" -> GoTo(g, "J_NUM_ZERO")
    [] c = "d" -> GoTo(g, "J_NUM_INT")
    [] c \in DOMAIN Literal -> Spell(g, "J_LIT", Literal[c], 1)
    [] c = "]" /\ allow_close /\ StackTop(g) = "[" -> PopOrFinish(g)
    [] OTHER -> DeadGram(g)

AfterVal(g, c) ==
  CASE c = " " -> g
    [] c = "," -> GoTo(g, IF StackTop(g) = "{" THEN "J_KEY_REQ" ELSE "J_VALUE_REQ")
    [] c = "}" /\ StackTop(g) = "{" -> PopOrFinish(g)
    [] c = "]" /\ StackTop(g) = "[" -> PopOrFinish(g)
    [] OTHER -> DeadGram(g)

(* The number states: what each goes to, and where a number may end (the   *)
(* byte that ends it is dispatched again, num_end_redispatch).             *)
NumNext ==
  [J_NUM_MINUS |-> [c \in Digits |-> IF c = "0" THEN "J_NUM_ZERO" ELSE "J_NUM_INT"],
   J_NUM_ZERO  |-> [c \in {".", "e"} |-> IF c = "." THEN "J_NUM_DOT" ELSE "J_NUM_E"],
   J_NUM_INT   |-> [c \in Digits \union {".", "e"} |->
                      IF c = "." THEN "J_NUM_DOT" ELSE IF c = "e" THEN "J_NUM_E"
                      ELSE "J_NUM_INT"],
   J_NUM_DOT   |-> [c \in Digits |-> "J_NUM_FRAC"],
   J_NUM_FRAC  |-> [c \in Digits \union {"e"} |-> IF c = "e" THEN "J_NUM_E" ELSE "J_NUM_FRAC"],
   J_NUM_E     |-> [c \in Digits \union {"+", "-"} |->
                      IF c \in Digits THEN "J_NUM_EXP" ELSE "J_NUM_ESIGN"],
   J_NUM_ESIGN |-> [c \in Digits |-> "J_NUM_EXP"],
   J_NUM_EXP   |-> [c \in Digits |-> "J_NUM_EXP"]]
NumEnds == {"J_NUM_ZERO", "J_NUM_INT", "J_NUM_FRAC", "J_NUM_EXP"}
Num(g, c) ==
  IF c \in DOMAIN NumNext[g.st] THEN GoTo(g, NumNext[g.st][c])
  ELSE IF g.st \in NumEnds /\ c \in {" ", ",", "}", "]"} THEN AfterVal(GoTo(g, "J_AFTER_VAL"), c)
  ELSE DeadGram(g)

(* Strings, and their escapes: \u takes four hexadecimal digits. *)
StrStates == {"J_STR", "J_STR_ESC", "J_STR_U1", "J_STR_U2", "J_STR_U3", "J_STR_U4"}
KeyStates == {"J_KEYSTR", "J_KEYESC", "J_KEY_U1", "J_KEY_U2", "J_KEY_U3", "J_KEY_U4"}
UNext == [J_STR_U1 |-> "J_STR_U2", J_STR_U2 |-> "J_STR_U3", J_STR_U3 |-> "J_STR_U4",
          J_STR_U4 |-> "J_STR", J_KEY_U1 |-> "J_KEY_U2", J_KEY_U2 |-> "J_KEY_U3",
          J_KEY_U3 |-> "J_KEY_U4", J_KEY_U4 |-> "J_KEYSTR"]
Str(g, c) ==
  LET key == g.st \in KeyStates IN
  CASE g.st \in {"J_STR", "J_KEYSTR"} ->
         CASE c = Q -> GoTo(g, IF key THEN "J_KEYCOLON" ELSE "J_AFTER_VAL")
           [] c = BS -> GoTo(g, IF key THEN "J_KEYESC" ELSE "J_STR_ESC")
           [] c \in {"ctl", "US"} -> DeadGram(g)
           [] OTHER -> g
    [] g.st \in {"J_STR_ESC", "J_KEYESC"} ->
         CASE c = "u" -> GoTo(g, IF key THEN "J_KEY_U1" ELSE "J_STR_U1")
           [] c \in Escapes -> GoTo(g, IF key THEN "J_KEYSTR" ELSE "J_STR")
           [] OTHER -> DeadGram(g)
    [] OTHER -> IF c \in Hex THEN GoTo(g, UNext[g.st]) ELSE DeadGram(g)

(* The name of the tool: the prefix of one of the list, then exactly one.  *)
NameByte(g, c) ==
  CASE c = Q /\ g.pref \in names -> GoTo(g, "ARG_COMMA")
    [] c # Q /\ (\E n \in names : IsPrefix(Append(g.pref, c), n)) ->
         [g EXCEPT !.pref = Append(@, c)]
    [] OTHER -> DeadGram(g)

(* A keyword of the call and the quote after it. *)
KeyByte(g, c, word, st) ==
  CASE g.lit < Len(word) /\ c = word[g.lit + 1] -> [g EXCEPT !.lit = @ + 1]
    [] g.lit = Len(word) /\ c = Q -> GoTo(g, st)
    [] OTHER -> DeadGram(g)

(* A literal value, or the closer. *)
WordByte(g, c, st) ==
  IF g.lit = Len(g.word) \/ c # g.word[g.lit + 1] THEN DeadGram(g)
  ELSE [g EXCEPT !.lit = @ + 1, !.st = IF g.lit + 1 = Len(g.word) THEN st ELSE @]

(* step *)
GramStep(g, c) ==
  CASE g.st \in DOMAIN Expect /\ c = " " -> g
    [] g.st \in DOMAIN Expect -> IF c = Expect[g.st] THEN Then(g) ELSE DeadGram(g)
    [] g.st = "KEY_NAME" -> KeyByte(g, c, NameWord, "KEY_COLON")
    [] g.st = "NAME_VAL" -> NameByte(g, c)
    [] g.st = "ARGKEY" -> KeyByte(g, c, ArgumentsWord, "ARGS_COLON")
    [] g.st = "J_VALUE" -> IF c = " " THEN g
                           ELSE IF g.stack # <<>> THEN ValueStart(g, c, TRUE)
                           ELSE IF c = "{" THEN PushGram(g, "{", "J_KEY") ELSE DeadGram(g)
    [] g.st = "J_VALUE_REQ" -> IF c = " " THEN g ELSE ValueStart(g, c, FALSE)
    [] g.st = "J_KEY" -> CASE c = " " -> g [] c = Q -> GoTo(g, "J_KEYSTR")
                           [] c = "}" /\ StackTop(g) = "{" -> PopOrFinish(g) [] OTHER -> DeadGram(g)
    [] g.st \in StrStates \union KeyStates -> Str(g, c)
    [] g.st \in DOMAIN NumNext -> Num(g, c)
    [] g.st = "J_LIT" -> WordByte(g, c, "J_AFTER_VAL")
    [] g.st = "J_AFTER_VAL" -> AfterVal(g, c)
    [] g.st = "CLOSER" -> WordByte(g, c, "CLOSED")
    [] g.st = "CLOSED" -> g
    [] g.st = "DEAD" -> g

(* advance_str, token_ok, done *)
AdvanceStr(g, s) == FoldLeft(GramStep, g, s)
TokenOk(g, s) == AdvanceStr(g, s).st # "DEAD"
GramDone(g) == g.st \in {"DONE", "CLOSER", "CLOSED"}

-----------------------------------------------------------------------------
(* The mask cache *)

Legal == {s \in Vocab : TokenOk(gram, s)}

(* names_key_: the names in one fixed order, whatever order they came in. *)
NamesKey == FlattenSeq([i \in 1 .. Cardinality(names) |-> Append(SetToSeq(names)[i], "US")])

(* Mutant: the key of the state alone. *)
SignatureNoNames == <<gram.st, gram.stack, gram.lit, gram.word>>

(* signature: the name's prefix and the allowlist only where a token can   *)
(* still reach the name, joined into one string.                           *)
HeadStates == {"WS_OBJ_OPEN", "KEY_OPEN_Q", "KEY_NAME", "KEY_COLON", "NAME_OPEN_Q", "NAME_VAL"}
Signature ==
  <<gram.st, gram.stack, gram.lit, gram.word>>
    \o IF gram.st \in HeadStates THEN gram.pref \o <<"|">> \o NamesKey ELSE <<>>

CacheEntry == [sig |-> Signature, mask |-> Legal, closer |-> GramDone(gram)]

-----------------------------------------------------------------------------
(* Two ways to drive the machine: byte by byte, with the text kept; and    *)
(* request after request, with one cache entry kept.                       *)

GramInit ==
  /\ names \in ToolLists /\ gram = FreshGram /\ text = <<>> /\ memo = NoCacheEntry

Blanks(s) == Len(SelectSeq(s, LAMBDA c : c = " "))

(* The texts tried: few blanks and only in the arguments, one plain byte   *)
(* to a string, short numbers.                                             *)
Tried(c) ==
  /\ c = " " => gram.stack # <<>> /\ Blanks(text) < MaxBlanks
  /\ gram.st \in {"J_STR", "J_KEYSTR"} => c \in {Q, BS} \/ (c \in Inside /\ Last(text) = Q)
  /\ c = "d" /\ text # <<>> => Last(text) \notin Digits
  /\ Len(text) + Len(gram.stack) < MaxBytes

GramTakes(c) ==
  /\ gram.st # "CLOSED"
  /\ Tried(c)
  /\ LET g == GramStep(gram, c)
     IN g.st # "DEAD" /\ Len(g.stack) <= MaxDepth /\ gram' = g
  /\ text' = Append(text, c)
  /\ UNCHANGED <<names, memo>>

GramNext == \E c \in Bytes : GramTakes(c)

MaskTakes(s) ==
  /\ gram.st # "CLOSED"
  /\ LET g == AdvanceStr(gram, s)
     IN g.st # "DEAD" /\ Len(g.stack) <= MaxMaskDepth /\ gram' = g
  /\ UNCHANGED <<names, text, memo>>

(* ToolMaskCache::get: the entry is built at the first miss. *)
MaskGet == memo = NoCacheEntry /\ memo' = CacheEntry /\ UNCHANGED <<names, gram, text>>

(* ToolGrammar::reset for the next call, of this request or another; it    *)
(* leaves lit_word_ alone.                                                 *)
MaskReset ==
  /\ names' \in ToolLists
  /\ gram' = [FreshGram EXCEPT !.word = gram.word]
  /\ UNCHANGED <<text, memo>>

MaskNext == (\E s \in Vocab : MaskTakes(s)) \/ MaskGet \/ MaskReset

-----------------------------------------------------------------------------
(* What a call is *)

(* s without the blanks around it *)
Trim(s) ==
  LET solid == {i \in DOMAIN s : s[i] # " "}
  IN IF solid = {} THEN <<>> ELSE SubSeq(s, Min(solid), Max(solid))
Between(s, i, j) == Trim(SubSeq(s, i, j))

RECURSIVE IsValue(_), IsList(_, _, _)
(* A reference reader of JSON: s is the bytes of one value. *)
IsDigits(s) == s # <<>> /\ \A i \in DOMAIN s : s[i] \in Digits
IsInt(s) == IsDigits(s) /\ (s[1] = "0" => Len(s) = 1)
IsExp(s) ==
  s # <<>> /\ s[1] = "e" /\ \E k \in 1 .. 2 : /\ k < Len(s)
                                             /\ IsDigits(SubSeq(s, k + 1, Len(s)))
                                             /\ k = 2 => s[2] \in {"+", "-"}
IsNumber(s) ==
  \E m \in 0 .. 1, i \in 1 .. Len(s) :
    /\ m = 1 => s[1] = "-"
    /\ IsInt(SubSeq(s, m + 1, i))
    /\ \E f \in i .. Len(s) :
         /\ f > i => s[i + 1] = "." /\ IsDigits(SubSeq(s, i + 2, f))
         /\ f < Len(s) => IsExp(SubSeq(s, f + 1, Len(s)))
(* Positions of a string's inner bytes that are its own, and not a quote   *)
(* that would end it: an escape is skipped as a whole.                     *)
IsString(s) ==
  LET n == Len(s)
      skip[i \in 2 .. n + 5] ==
        IF i >= n THEN i = n
        ELSE CASE s[i] = Q \/ s[i] \in {"ctl", "US"} -> FALSE
               [] s[i] = BS /\ s[i + 1] = "u" ->
                    i + 5 < n /\ (\A k \in i + 2 .. i + 5 : s[k] \in Hex) /\ skip[i + 6]
               [] s[i] = BS -> i + 1 < n /\ s[i + 1] \in Escapes /\ skip[i + 2]
               [] OTHER -> skip[i + 1]
  IN n >= 2 /\ s[1] = Q /\ s[n] = Q /\ skip[2]
IsList(s, open, close) ==
  LET n == Len(s)
      Item(i, j) ==
        IF open = "[" THEN IsValue(Between(s, i, j))
        ELSE \E k \in i .. j : /\ s[k] = ":" /\ IsString(Between(s, i, k - 1))
                               /\ IsValue(Between(s, k + 1, j))
      from[i \in 2 .. n] ==
        \E j \in i .. n - 1 : /\ Item(i, j)
                              /\ j = n - 1 \/ (s[j + 1] = "," /\ j + 2 < n /\ from[j + 2])
  IN n >= 2 /\ s[1] = open /\ s[n] = close /\ (Between(s, 2, n - 1) = <<>> \/ from[2])
IsValue(s) ==
  \/ IsString(s) \/ IsNumber(s) \/ IsList(s, "{", "}") \/ IsList(s, "[", "]")
  \/ \E c \in DOMAIN Literal : s = Literal[c]

(* The body of a call to one of the tools. *)
IsCall(s) ==
  \E i, j, k \in DOMAIN s :
    /\ i < j /\ j < k
    /\ s[1] = "{" /\ s[i] = ":" /\ s[j] = "," /\ s[k] = ":" /\ Last(s) = "}"
    /\ Between(s, 2, i - 1) = <<Q>> \o NameWord \o <<Q>>
    /\ \E n \in names : Between(s, i + 1, j - 1) = <<Q>> \o n \o <<Q>>
    /\ Between(s, j + 1, k - 1) = <<Q>> \o ArgumentsWord \o <<Q>>
    /\ IsList(Between(s, k + 1, Len(s) - 1), "{", "}")

(* The shortest way out of a state. *)
Way(g) ==
  CASE g.st \in DOMAIN Expect -> Expect[g.st]
    [] g.st = "KEY_NAME" -> IF g.lit < 2 THEN NameWord[g.lit + 1] ELSE Q
    [] g.st = "ARGKEY" -> IF g.lit < 2 THEN ArgumentsWord[g.lit + 1] ELSE Q
    [] g.st = "NAME_VAL" ->
         IF g.pref \in names THEN Q
         ELSE LET on == {n \in names : IsPrefix(g.pref, n)}
              IN IF on = {} THEN Q ELSE (CHOOSE n \in on : TRUE)[Len(g.pref) + 1]
    [] g.st \in {"J_STR", "J_KEYSTR"} -> Q
    [] g.st \in {"J_STR_ESC", "J_KEYESC"} -> "b"
    [] g.st \in DOMAIN UNext -> "h"
    [] g.st = "J_VALUE" -> IF g.stack = <<>> THEN "{" ELSE "0"
    [] g.st = "J_VALUE_REQ" -> "0"
    [] g.st = "J_KEY" -> "}"
    [] g.st \in DOMAIN NumNext \ NumEnds -> "0"
    [] g.st \in NumEnds \union {"J_AFTER_VAL"} -> IF StackTop(g) = "{" THEN "}" ELSE "]"
    [] OTHER -> g.word[g.lit + 1]

-----------------------------------------------------------------------------
(* Properties *)

(* Whatever the mask lets the model sample, a finished body is one call    *)
(* the server can parse: a registered tool and a JSON object, read by a    *)
(* reference reader (toolgram.h, step).                                    *)
GramSound == gram.st = "DONE" => IsCall(Trim(text))

RECURSIVE Closes(_, _)
Closes(g, k) ==
  \/ g.st = "CLOSED"
  \/ k > 0 /\ g.st # "DEAD" /\ Closes(GramStep(g, Way(g)), k - 1)

(* The constraint never traps the model: from every state it can reach,    *)
(* legal bytes lead to the closer (toolgram.h, step; an empty mask would   *)
(* leave the sampler nothing to choose).  Two dozen bytes are enough.      *)
CallClosable == Closes(gram, 24)

(* A cached mask is the mask of every state with its key, whichever call   *)
(* or request, with whichever tools, it was built for (toolgram.h,         *)
(* signature: "two states with equal signatures accept identical token     *)
(* sets").                                                                 *)
MaskExact ==
  memo # NoCacheEntry /\ memo.sig = Signature
    => memo.mask = Legal /\ memo.closer = GramDone(gram)
=============================================================================
