----------------------------- MODULE StreamText -----------------------------
(***************************************************************************)
(* From tokens to segments in the Metal server: the bytes of each token    *)
(* pass the Utf8Gate, which holds back an unfinished character, the        *)
(* StopBuffer, which holds back what may become a stop sequence, and the   *)
(* StreamSplitter, which holds back what may become a marker and routes    *)
(* the rest to the thinking, text and tool channels (api_common.h,         *)
(* stream_format.h, stream_split.h, deliver in metal_server.cpp).          *)
(*                                                                         *)
(* A byte is a symbol.  Markers are shorter than in the code and keep what *)
(* matters of their shape: all begin alike, and so do the two that close.  *)
(* "L" opens a character of three bytes, "C" continues one; "?" is the     *)
(* replacement character.                                                  *)
(***************************************************************************)
EXTENDS Integers, SequencesExt

CONSTANTS
  Piece,       \* the tokens, as bytes
  Stops,       \* the stop sequences, none inside another
  MaxText      \* bound: bytes generated

ASSUME TextAssumption ==
  /\ MaxText \in Nat
  /\ <<>> \notin Stops

VARIABLES
  text,        \* what was generated
  partial,     \* Utf8Gate::pend
  awaited,     \* StopBuffer::pend
  chan, hold,  \* StreamSplitter
  boundary,    \* its tool_boundary
  thinking,    \* the prompt has opened a thinking block
  routed,      \* the segments so far: <<channel, byte>>, and Cut for an empty one
  finish       \* "run", then "stop" or "end"

textVars == <<text, partial, awaited, chan, hold, boundary, thinking, routed, finish>>

TOpen == <<"<", "t">>
TClose == <<"<", "/", "t">>
COpen == <<"<", "c">>
CClose == <<"<", "/", "c">>

Cut == <<"text", "">>

TextInit ==
  /\ text = <<>> /\ partial = <<>> /\ awaited = <<>> /\ hold = <<>>
  /\ thinking \in BOOLEAN /\ boundary = FALSE
  /\ chan = IF thinking THEN "think" ELSE "text"
  /\ routed = <<>> /\ finish = "run"

-----------------------------------------------------------------------------
(* Sequences of bytes *)

From(s, i) == SubSeq(s, i, Len(s))
OccursAt(m, s, i) == i + Len(m) - 1 <= Len(s) /\ SubSeq(s, i, i + Len(m) - 1) = m

None == 1000

(* std::string::find *)
Find(m, s) ==
  LET places == {i \in 1..Len(s) : OccursAt(m, s, i)}
  IN IF places = {} THEN None ELSE CHOOSE i \in places : \A j \in places : i <= j

(* Mutant: one byte too few is held back. *)
TailKeepShort(s, M) ==
  Max({0} \cup {k \in 1..Len(s) : \E m \in M : k < Len(m) - 1 /\ IsPrefix(From(s, Len(s) - k + 1), m)})

(* The longest end of s that one of the markers M may still grow from. *)
TailKeep(s, M) ==
  Max({0} \cup {k \in 1..Len(s) : \E m \in M : k < Len(m) /\ IsPrefix(From(s, Len(s) - k + 1), m)})

-----------------------------------------------------------------------------
(* Utf8Gate *)

SeqLen(b) == CASE b = "L" -> 3 [] b = "C" -> 0 [] OTHER -> 1

(* The last byte that does not continue a character, among the last five. *)
LeadAt(s) ==
  LET places == {i \in 1..Len(s) : i >= Len(s) - 4 /\ s[i] # "C"}
  IN IF places = {} THEN 0 ELSE Max(places)

(* How much of s is whole characters. *)
Whole(s) ==
  LET i == LeadAt(s)
  IN IF i > 0 /\ SeqLen(s[i]) > 0 /\ i + SeqLen(s[i]) - 1 > Len(s) THEN i - 1 ELSE Len(s)

GateFlush(s) == IF s = <<>> THEN <<>> ELSE <<"?">>

-----------------------------------------------------------------------------
(* StopBuffer::feed, for what is pending with the new piece *)

StopFeed(s) ==
  LET first == Min({None} \cup {Find(m, s) : m \in Stops})
      keep == TailKeep(s, Stops)
  IN IF first # None
       THEN [out |-> SubSeq(s, 1, first - 1), pend |-> <<>>, stopped |-> TRUE]
       ELSE [out |-> SubSeq(s, 1, Len(s) - keep), pend |-> From(s, Len(s) - keep + 1),
             stopped |-> FALSE]

-----------------------------------------------------------------------------
(* StreamSplitter::feed, on p = [chan, hold, boundary, out] *)

Segment(c, s) == [i \in 1..Len(s) |-> <<c, s[i]>>]
Before(s, i) == SubSeq(s, 1, i - 1)

EmitHead(p, keep) ==
  [p EXCEPT !.out = @ \o Segment(p.chan, SubSeq(p.hold, 1, Len(p.hold) - keep)),
            !.hold = From(p.hold, Len(p.hold) - keep + 1)]

RECURSIVE Split(_)

(* In the text: an opener changes the channel, a closer is stray and goes. *)
SplitText(p) ==
  LET pt == Find(TOpen, p.hold)
      pc == Find(COpen, p.hold)
      sc == Find(CClose, p.hold)
      e == Min({pt, pc, sc})
      before == Segment("text", Before(p.hold, e))
      keep == TailKeep(p.hold, {TOpen, COpen, CClose})
  IN CASE e = None ->
            [EmitHead(p, keep) EXCEPT !.boundary = @ /\ Len(p.hold) <= keep]
       [] e # None /\ e = pt ->
            Split([chan |-> "think", hold |-> From(p.hold, pt + Len(TOpen)),
                   boundary |-> FALSE, out |-> p.out \o before])
       [] e # None /\ e = pc ->
            Split([chan |-> "tool", hold |-> From(p.hold, pc + Len(COpen)), boundary |-> FALSE,
                   out |-> p.out \o (IF pc = 1 /\ p.boundary THEN <<Cut>> ELSE <<>>) \o before])
       [] OTHER ->
            Split([p EXCEPT !.hold = From(p.hold, sc + Len(CClose)), !.out = @ \o before])

Split(p) ==
  LET closer == IF p.chan = "think" THEN TClose ELSE CClose
      e == Find(closer, p.hold)
  IN CASE p.chan = "text" -> SplitText(p)
       [] p.chan # "text" /\ e = None -> EmitHead(p, TailKeep(p.hold, {closer}))
       [] OTHER ->
            Split([chan |-> "text", hold |-> From(p.hold, e + Len(closer)),
                   boundary |-> p.chan = "tool",
                   out |-> p.out \o Segment(p.chan, Before(p.hold, e))])

SplitFeed(s) == Split([chan |-> chan, hold |-> hold \o s, boundary |-> boundary, out |-> routed])

-----------------------------------------------------------------------------
(* deliver, the sink that it feeds, and the flushes at the end *)

Deliver ==
  /\ finish = "run"
  /\ \E piece \in Piece :
       /\ Len(text) + Len(piece) <= MaxText
       /\ text' = text \o piece
       /\ LET raw == partial \o piece
              ready == SubSeq(raw, 1, Whole(raw))
              stop == StopFeed(awaited \o ready)
              p == SplitFeed(stop.out)
          IN /\ partial' = From(raw, Whole(raw) + 1)
             /\ awaited' = stop.pend
             /\ chan' = p.chan /\ boundary' = p.boundary
             /\ hold' = IF stop.stopped THEN <<>> ELSE p.hold
             /\ routed' = IF stop.stopped THEN p.out \o Segment(p.chan, p.hold) ELSE p.out
             /\ finish' = IF stop.stopped THEN "stop" ELSE "run"
  /\ UNCHANGED thinking

(* The end of the stream: what was held back is output. *)
EndOfText ==
  /\ finish = "run"
  /\ LET stop == StopFeed(awaited \o GateFlush(partial))
         p == SplitFeed(stop.out \o stop.pend)
     IN /\ routed' = p.out \o Segment(p.chan, p.hold)
        /\ chan' = p.chan /\ boundary' = p.boundary
        /\ finish' = IF stop.stopped THEN "stop" ELSE "end"
  /\ partial' = <<>> /\ awaited' = <<>> /\ hold' = <<>>
  /\ UNCHANGED <<text, thinking>>

TextNext == Deliver \/ EndOfText

-----------------------------------------------------------------------------
(* Properties *)

(* The text as if it had come in one piece: whole characters, up to the    *)
(* first stop sequence.                                                    *)
Seen ==
  LET whole == SubSeq(text, 1, Whole(text)) \o GateFlush(From(text, Whole(text) + 1))
      first == Min({None} \cup {Find(m, whole) : m \in Stops})
  IN IF first = None THEN whole ELSE Before(whole, first)

(* What a reader of the whole text from position i on makes of it, in      *)
(* channel c; `closed' when a call has just ended there.                   *)
RECURSIVE Routing(_, _, _, _)
Routing(s, i, c, closed) ==
  CASE i > Len(s) -> <<>>
    [] i <= Len(s) /\ c = "text" /\ OccursAt(TOpen, s, i) ->
         Routing(s, i + Len(TOpen), "think", FALSE)
    [] i <= Len(s) /\ c = "text" /\ OccursAt(COpen, s, i) ->
         (IF closed THEN <<Cut>> ELSE <<>>) \o Routing(s, i + Len(COpen), "tool", FALSE)
    [] i <= Len(s) /\ c = "text" /\ OccursAt(CClose, s, i) ->
         Routing(s, i + Len(CClose), "text", closed)
    [] i <= Len(s) /\ c = "think" /\ OccursAt(TClose, s, i) ->
         Routing(s, i + Len(TClose), "text", FALSE)
    [] i <= Len(s) /\ c = "tool" /\ OccursAt(CClose, s, i) ->
         Routing(s, i + Len(CClose), "text", TRUE)
    [] OTHER -> <<<<c, s[i]>>>> \o Routing(s, i + 1, c, FALSE)

(* An empty segment matters only between the bytes of two calls. *)
Significant(r) ==
  LET Keeps(i) == r[i] # Cut \/ (i > 1 /\ i < Len(r) /\ r[i - 1][1] = "tool" /\ r[i + 1][1] = "tool")
      RECURSIVE Take(_)
      Take(i) == IF i > Len(r) THEN <<>>
                 ELSE (IF Keeps(i) THEN <<r[i]>> ELSE <<>>) \o Take(i + 1)
  IN Take(1)

Reference ==
  Significant(Routing(Seen, 1, IF thinking THEN "think" ELSE "text", FALSE))

(* Where the tokens are cut makes no difference: at the end of the stream  *)
(* every byte of the text before the first stop sequence has gone to the   *)
(* channel it belongs to, whole characters only, no marker has leaked and  *)
(* two adjacent calls are kept apart.  Before the end, what was routed     *)
(* begins that: nothing has to be taken back.                              *)
CutsDoNotMatter ==
  IF finish = "run" THEN IsPrefix(Significant(routed), Reference)
                    ELSE Significant(routed) = Reference
=============================================================================
