----------------------------- MODULE MCDocFences -----------------------------
(***************************************************************************)
(* TLC instance of Instruments with nothing but documents of up to four    *)
(* lines, of every kind that a reader of fences tells apart.               *)
(***************************************************************************)
EXTENDS Instruments

FenceLine(run, length, info) ==
  [run |-> run, length |-> length, info |-> info, deep |-> FALSE, text |-> "clean"]
TextLine(text) == [run |-> NoFence, length |-> 0, info |-> NoInfo, deep |-> FALSE, text |-> text]

DocLines ==
  {TextLine(t) : t \in {"clean", "trailing", "unquoted"}}
  \cup {FenceLine("tick", 3, i) : i \in {NoInfo, "mermaid", "py"}}
  \cup {FenceLine("tick", 4, NoInfo), FenceLine("tilde", 3, NoInfo)}
  \cup {[FenceLine("tick", 3, NoInfo) EXCEPT !.deep = TRUE]}

AllDocuments == UNION {[1..l -> DocLines] : l \in 0..4}
=============================================================================
