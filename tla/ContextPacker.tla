---------------------------- MODULE ContextPacker ----------------------------
(***************************************************************************)
(* Packing a source file into a budget of tokens (context_packer.py), as   *)
(* operators.  A symbol is what it measures, in bytes, at each level of    *)
(* detail; an import measures the same at all of them.  A docstring's      *)
(* rendering may well be longer than the full source of a one-liner.       *)
(***************************************************************************)
EXTENDS Integers, Sequences

CONSTANTS Separator, TokenRatio  \* bytes between two symbols; bytes per token

ASSUME PackerAssumption == Separator \in Nat /\ TokenRatio \in Nat \ {0}

Level == <<"FULL", "DOCSTRINGS", "SIGNATURES">>

\* len(render_symbol_slice(symbols, count, level)), in bytes, for each count.
Rendered(symbols, level) ==
  LET size[n \in 0..Len(symbols)] ==
        IF n = 0 THEN 0
        ELSE size[n - 1] + symbols[n][level] + (IF n = 1 THEN 0 ELSE Separator)
  IN size

\* Rounded up: a text that is not empty has a token at least.
estimate_tokens(bytes) == (bytes + TokenRatio - 1) \div TokenRatio

Fits(symbols, count, budget, level) ==
  estimate_tokens(Rendered(symbols, level)[count]) <= budget

\* Mutant of Bisect: the loop ends as soon as low meets high.
BisectShort(symbols, budget, level) ==
  LET search[span \in (0..Len(symbols) + 1) \X (0..Len(symbols))] ==
        LET low == span[1]
            high == span[2]
            mid == (low + high) \div 2
        IN CASE low >= high -> high
             [] low < high /\ (mid = 0 \/ Fits(symbols, mid, budget, level)) -> search[<<mid + 1, high>>]
             [] OTHER -> search[<<low, mid - 1>>]
  IN search[<<0, Len(symbols)>>]

\* The loop of binary_search_pack_symbols.  What has fitted last is high when
\* the interval is empty.
Bisect(symbols, budget, level) ==
  LET search[span \in (0..Len(symbols) + 1) \X (0..Len(symbols))] ==
        LET low == span[1]
            high == span[2]
            mid == (low + high) \div 2
        IN CASE low > high -> high
             [] low <= high /\ (mid = 0 \/ Fits(symbols, mid, budget, level)) -> search[<<mid + 1, high>>]
             [] OTHER -> search[<<low, mid - 1>>]
  IN search[<<0, Len(symbols)>>]

binary_search_pack_symbols(symbols, budget, level) ==
  IF symbols = <<>> \/ budget <= 0 THEN 0 ELSE Bisect(symbols, budget, level)

\* The first level at which everything fits; else as many signatures as fit.
pack_source_to_budget(symbols, budget) ==
  LET count(i) == binary_search_pack_symbols(symbols, budget, Level[i])
      whole == {i \in 1..3 : count(i) = Len(symbols)}
  IN IF symbols = <<>> \/ budget <= 0 \/ whole = {}
       THEN [level |-> "SIGNATURES", count |-> count(3)]
       ELSE [level |-> Level[CHOOSE i \in whole : \A j \in whole : i <= j], count |-> Len(symbols)]
=============================================================================
