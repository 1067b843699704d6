------------------------------- MODULE Tokenizer -------------------------------
(***************************************************************************)
(* The byte-level tokenizer of tokenizer.cpp: its load checks, the         *)
(* pretokenizer, the merges of a word, special tokens, decoding, and the   *)
(* two templates that turn messages into tokens.                           *)
(*                                                                         *)
(* A text is a sequence of bytes, a byte one of Bytes8, told apart by what *)
(* the pretokenizer tells apart.  The map between bytes and the characters *)
(* of the vocabulary file is one to one, and both are written as the byte. *)
(* The role delimiters are one byte each, Start and End.                   *)
(***************************************************************************)
EXTENDS Integers, Sequences, FiniteSets, FiniteSetsExt, SequencesExt

CONSTANTS
  VocabFile,   \* the tokens of the file: [s, control], the id is the index
  MergeFile,   \* its merges, best first: <<left, right>>
  ThinkMarks,  \* <<"<think>", "</think>">>
  WordCap,     \* WORD_CAP
  Typed,       \* bytes a message may hold
  MaxLone,     \* bound: bytes of a text on its own
  MaxTyped,    \* bound: bytes of all messages of a conversation
  MaxMsgs      \* bound: closed messages

Start == "S"
End == "E"
Newline == "n"
Bytes8 == {"l", "s", "a", "1", " ", Newline, "'", "<", Start, End}

(* What Tokenizer::Tokenizer asks of a file; it throws on any other. *)
FileAccepted ==
  /\ VocabFile # <<>>
  /\ \A i, j \in DOMAIN VocabFile : VocabFile[i].s = VocabFile[j].s => i = j
  /\ \A i \in DOMAIN VocabFile : VocabFile[i].control => VocabFile[i].s # <<>>
  /\ \A i, j \in DOMAIN MergeFile : MergeFile[i] = MergeFile[j] => i = j

(* Byte-level: every byte is a token, which the file's maker sees to. *)
ASSUME TokenizerAssumption ==
  /\ FileAccepted
  /\ \A b \in Bytes8 : \E i \in DOMAIN VocabFile : VocabFile[i].s = <<b>>
  /\ WordCap \in Nat \ {0}

VARIABLES
  closed,   \* contents of the messages that are complete
  typing    \* content of the one being written

tokVars == <<closed, typing>>

-----------------------------------------------------------------------------
(* pretokenize *)

Letter(t, i) == i <= Len(t) /\ t[i] \in {"l", "s", "a"}
Digit(t, i) == i <= Len(t) /\ t[i] = "1"
Space(t, i) == i <= Len(t) /\ t[i] \in {" ", Newline}
NewLine(t, i) == i <= Len(t) /\ t[i] = Newline
Punct(t, i) == i <= Len(t) /\ ~Space(t, i) /\ ~Letter(t, i) /\ ~Digit(t, i)

(* The first place from i on where P does not hold. *)
RunEnd(t, i, P(_, _)) ==
  CHOOSE k \in i .. Len(t) + 1 : ~P(t, k) /\ \A j \in i .. k - 1 : P(t, j)

(* 's and its like take two bytes, 'll and its like three. *)
Contraction(t, i) ==
  CASE t[i] = "'" /\ i < Len(t) /\ t[i + 1] = "s" -> 2
    [] t[i] = "'" /\ i + 1 < Len(t) /\ t[i + 1] = "l" /\ t[i + 2] = "l" -> 3
    [] OTHER -> 0

(* The length of the pretoken at i: the alternatives in their order. *)
PieceLen(t, i) ==
  LET lead == ~NewLine(t, i) /\ ~Letter(t, i) /\ ~Digit(t, i) /\ Letter(t, i + 1)
      word == IF lead THEN i + 1 ELSE i
      blank == t[i] = " " /\ Punct(t, i + 1)
      punct == IF blank THEN i + 1 ELSE i
      gap == RunEnd(t, i, LAMBDA u, k : Space(u, k) /\ ~NewLine(u, k))
      run == RunEnd(t, i, Space)
  IN CASE Contraction(t, i) > 0 -> Contraction(t, i)
       [] Letter(t, word) -> RunEnd(t, word, Letter) - i
       [] Digit(t, i) -> 1
       [] Punct(t, punct) -> RunEnd(t, RunEnd(t, punct, Punct), NewLine) - i
       [] NewLine(t, gap) -> RunEnd(t, gap, NewLine) - i
       [] Space(t, i) -> IF run <= Len(t) /\ run - i > 1 THEN run - 1 - i ELSE run - i
       [] OTHER -> 1

Pretokens(t) ==
  LET from[i \in 1 .. Len(t) + 1] ==
        IF i > Len(t) THEN <<>>
        ELSE LET n == PieceLen(t, i) IN <<SubSeq(t, i, i + n - 1)>> \o from[i + n]
  IN from[1]

-----------------------------------------------------------------------------
(* bpe_word *)

IdOf(s) == CHOOSE i \in DOMAIN VocabFile : VocabFile[i].s = s
Known(s) == \E i \in DOMAIN VocabFile : VocabFile[i].s = s

RankOf(l, r) == {k \in DOMAIN MergeFile : MergeFile[k] = <<l, r>>}

(* One merge: of the pairs with the best rank, the first. *)
MergeOnce(parts) ==
  LET Can == {i \in 1 .. Len(parts) - 1 : RankOf(parts[i], parts[i + 1]) # {}}
      rank(i) == Min(RankOf(parts[i], parts[i + 1]))
      at == CHOOSE i \in Can : \A j \in Can : rank(i) < rank(j) \/ (rank(i) = rank(j) /\ i <= j)
  IN IF Can = {} THEN parts
     ELSE SubSeq(parts, 1, at - 1) \o <<parts[at] \o parts[at + 1]>>
            \o SubSeq(parts, at + 2, Len(parts))

Merged(word) ==
  FoldLeft(LAMBDA p, k : MergeOnce(p), [i \in 1 .. Len(word) |-> <<word[i]>>],
           [i \in 1 .. Len(word) |-> i])

(* A part that is no token falls back to its bytes. *)
PartIds(s) ==
  IF Known(s) THEN <<IdOf(s)>> ELSE [i \in 1 .. Len(s) |-> IdOf(<<s[i]>>)]

Chunks(word) ==
  [c \in 1 .. (Len(word) + WordCap - 1) \div WordCap |->
     SubSeq(word, (c - 1) * WordCap + 1, Min({c * WordCap, Len(word)}))]

ChunkIds(chunk) ==
  LET parts == Merged(chunk) IN
  FoldLeft(LAMBDA ids, p : ids \o PartIds(p), <<>>, parts)

BpeWord(word) == FoldLeft(LAMBDA ids, c : ids \o ChunkIds(c), <<>>, Chunks(word))

-----------------------------------------------------------------------------
(* encode and decode *)

Specials ==
  {i \in DOMAIN VocabFile : VocabFile[i].control \/ \E m \in 1 .. 2 : ThinkMarks[m] = VocabFile[i].s}

SpecialAt(t, i) ==
  {k \in Specials : LET e == i + Len(VocabFile[k].s) - 1 IN
                      e <= Len(t) /\ SubSeq(t, i, e) = VocabFile[k].s}

(* Longest first. *)
SpecialTaken(t, i) ==
  CHOOSE k \in SpecialAt(t, i) : \A j \in SpecialAt(t, i) : Len(VocabFile[j].s) <= Len(VocabFile[k].s)

PlainIds(span) ==
  FoldLeft(LAMBDA ids, w : ids \o BpeWord(w), <<>>, Pretokens(span))

(* Left to right: a special token, or the plain span up to the next. *)
Encode(t) ==
  LET from[i \in 1 .. Len(t) + 1] ==
        IF i > Len(t) THEN <<>>
        ELSE IF SpecialAt(t, i) # {}
          THEN LET k == SpecialTaken(t, i) IN <<k>> \o from[i + Len(VocabFile[k].s)]
          ELSE LET next == RunEnd(t, i, LAMBDA u, k : k <= Len(u) /\ SpecialAt(u, k) = {})
               IN PlainIds(SubSeq(t, i, next - 1)) \o from[next]
  IN from[1]

(* decode_one, vocab_bytes: a control token shows nothing. *)
DecodeOne(id) == IF VocabFile[id].control THEN <<>> ELSE VocabFile[id].s
Decode(ids) == FlattenSeq([i \in 1 .. Len(ids) |-> DecodeOne(ids[i])])

-----------------------------------------------------------------------------
(* apply_chat_prefix and apply_chat_template *)

StripChatml(t) == SelectSeq(t, LAMBDA b : b \notin {Start, End})

Wrapped(role, content) ==
  <<Start>> \o role \o <<Newline>> \o StripChatml(content) \o <<End, Newline>>

Transcript(msgs) == FlattenSeq([m \in 1 .. Len(msgs) |-> Wrapped(<<"a">>, msgs[m])])

ApplyChatPrefix(msgs) == Encode(Transcript(msgs))

EmptyThink ==
  LET nn == Encode(<<Newline, Newline>>) IN
  IF Known(ThinkMarks[1]) /\ Known(ThinkMarks[2])
    THEN <<IdOf(ThinkMarks[1])>> \o nn \o <<IdOf(ThinkMarks[2])>> \o nn
    ELSE Encode(ThinkMarks[1] \o <<Newline, Newline>> \o ThinkMarks[2] \o <<Newline, Newline>>)

Opening == <<Start, "s", Newline>>   \* a new assistant turn

ApplyChatTemplate(msgs, think) ==
  Encode(Transcript(msgs) \o Opening) \o (IF think THEN <<>> ELSE EmptyThink)

-----------------------------------------------------------------------------
TokInit == closed = <<>> /\ typing = <<>>

(* A conversation grows byte by byte, and message by message. *)
TypeByte ==
  /\ Len(FlattenSeq(closed)) + Len(typing) < (IF closed = <<>> THEN MaxLone ELSE MaxTyped)
  /\ \E b \in Typed : typing' = Append(typing, b)
  /\ UNCHANGED closed

CloseMessage ==
  /\ Len(closed) < MaxMsgs /\ Len(FlattenSeq(closed)) + Len(typing) <= MaxTyped
  /\ closed' = Append(closed, typing) /\ typing' = <<>>

TokNext == TypeByte \/ CloseMessage

-----------------------------------------------------------------------------
(* Properties *)

(* Nothing of a text is lost: its tokens decode to it, but for the control *)
(* tokens it spells, whatever the merges, the cap on words and the parts   *)
(* that are no tokens (encode, bpe_word, pretokenize, decode).             *)
RoundTrip ==
  LET Visible[i \in 1 .. Len(typing) + 1] ==
        IF i > Len(typing) THEN <<>>
        ELSE IF \E k \in SpecialAt(typing, i) : VocabFile[k].control
          THEN Visible[i + Max({Len(VocabFile[k].s) : k \in SpecialAt(typing, i)})]
          ELSE <<typing[i]>> \o Visible[i + 1]
  IN Decode(Encode(typing)) = Visible[1]

(* "Used to establish a persistence-safe boundary": the tokens of closed   *)
(* messages begin the tokens of every prompt that continues them           *)
(* (apply_chat_prefix, apply_chat_template).                               *)
BoundaryHolds ==
  LET msgs == Append(closed, typing) IN
  /\ IsPrefix(ApplyChatPrefix(closed), ApplyChatPrefix(msgs))
  /\ IsPrefix(ApplyChatPrefix(msgs), ApplyChatTemplate(msgs, TRUE))

(* The empty think block is the same tokens whether its ids are appended   *)
(* or its text is encoded with the prompt, as the servers' string-rendered *)
(* prompts do (apply_chat_template, tokenizer.cpp specials).               *)
ThinkAsText ==
  LET msgs == Append(closed, typing) IN
  ApplyChatTemplate(msgs, FALSE) =
    Encode(Transcript(msgs) \o Opening \o ThinkMarks[1] \o <<Newline, Newline>>
             \o ThinkMarks[2] \o <<Newline, Newline>>)

TokensRight == IF closed = <<>> THEN RoundTrip ELSE BoundaryHolds /\ ThinkAsText
==============================================================================
