---------------------------- MODULE SentinelServer ----------------------------
(***************************************************************************)
(* The invariant sentinel as a language server (sentinel.py): an editor    *)
(* sends whole texts and asks for quick fixes, the server answers from the *)
(* texts it keeps, over two streams that keep their order.  A text is its  *)
(* pieces between line ends, the last one "" when the last line is ended.  *)
(* A line is told by what the audit or the repair sees in it; the header   *)
(* is the part of a text in which a waiver counts.                         *)
(***************************************************************************)
EXTENDS Integers, Sequences, FiniteSets, SequencesExt

CONSTANTS
  Uri,
  Buffers,      \* the texts a user may type
  HeaderLimit,  \* WAIVER_HEADER_LINE_LIMIT
  Unopened,     \* no text
  MaxTyped,     \* texts typed, all in all
  MaxAsked      \* fixes asked for, all in all

\* The kinds of lines, by what the audit and the repairs see in them.
Line ==
  {"", "code", "comment", "address", "subdomain", "marked address", "address in a comment", "complex", "broken",
   "waiver", "curt waiver", "bare waiver", "foreign waiver"}

ASSUME SentinelAssumption == Buffers \subseteq Seq(Line) \ {<<>>} /\ Unopened \notin Seq(Line)

VARIABLES
  lsRules,      \* active_rules of the server's configuration
  lsText,       \* the editor's text of each document
  lsShown,      \* the diagnostics the editor shows
  lsAsked,      \* the editor's requests that are not answered
  lsToServer, lsToEditor,
  lsOpenDocs,   \* open_docs
  lsRunning,
  lsTyped, lsFixes

lsVars == <<lsRules, lsText, lsShown, lsAsked, lsToServer, lsToEditor, lsOpenDocs, lsRunning, lsTyped, lsFixes>>

Invariants == {"CyclomaticComplexity", "ZeroTrustSanitization", "SyntaxIntegrity", "WaiverIntegrity"}

\* PRESETS, as far as they differ in what is active.
Presets == {Invariants, Invariants \ {"CyclomaticComplexity"}, Invariants \ {"ZeroTrustSanitization", "WaiverIntegrity"}}

\* From a preset, --select, --extend-select and --ignore.
_resolve_active_rules(preset, select, extend, ignore) ==
  ((IF select # {} THEN select ELSE preset) \cup extend) \ ignore
-----------------------------------------------------------------------------
splitlines(text) == IF text # <<>> /\ Last(text) = "" THEN Front(text) ELSE text

\* A private address or a subdomain in a string; with a pragma behind it that is
\* not a waiver; in a comment, which only the repair looks at.
Leaks == {"address", "subdomain", "marked address"}

\* Comments that are a waiver, one without enough of a reason or without any, and one
\* of what is not to be waived.  A reason is what WAIVER_PRAGMA_RE asks for.
Pragmas == {"waiver", "curt waiver", "foreign waiver"}
Defective == {"curt waiver", "bare waiver", "foreign waiver", "marked address"}

InHeader(i) == i <= HeaderLimit

Waives(lines) == \E i \in DOMAIN lines : InHeader(i) /\ lines[i] = "waiver"

\* The pragmas of the header that are no waivers, and the waivers behind it, which
\* have no effect.
_scan_waivers(lines) ==
  {<<i, "WaiverIntegrity">> : i \in {j \in DOMAIN lines :
     IF InHeader(j) THEN lines[j] \in Defective
     ELSE lines[j] \in Pragmas /\ (lines[j] = "foreign waiver" \/ ~Waives(lines))}}

_run_visitors(lines) ==
  {<<i, "ZeroTrustSanitization">> : i \in {j \in DOMAIN lines : lines[j] \in Leaks}}
  \cup {<<i, "CyclomaticComplexity">> : i \in {j \in DOMAIN lines : lines[j] = "complex"}}

Unparsed(lines) == {<<i, "SyntaxIntegrity">> : i \in {j \in DOMAIN lines : lines[j] = "broken"}}

_filter_active_violations(lines, rules) ==
  {v \in _run_visitors(lines) \cup _scan_waivers(lines) :
     v[2] \in rules /\ ~(v[2] = "ZeroTrustSanitization" /\ Waives(lines))}

audit_source(text, rules) ==
  LET lines == splitlines(text)
  IN IF Unparsed(lines) # {} THEN {v \in Unparsed(lines) : v[2] \in rules}
     ELSE _filter_active_violations(lines, rules)

\* Each of the three repairs leaves a line alone that it has nothing to do with.
\* Waived or not makes no difference, and neither does the header.
Fixed(line) ==
  CASE line \in {"address", "subdomain"} -> "code"
    [] line = "address in a comment" -> "comment"
    [] line \in {"curt waiver", "bare waiver"} -> "waiver"
    [] OTHER -> line

Fixable(text) == \E i \in DOMAIN text : Fixed(text[i]) # text[i]

\* A waiver is written with its line end, also where the text has none.
auto_fix_source(text, rules) ==
  LET candidate == [i \in DOMAIN text |-> Fixed(text[i])]
  IN IF "ZeroTrustSanitization" \notin rules \/ ~Fixable(text) \/ Unparsed(splitlines(candidate)) # {} THEN text
     ELSE IF Last(text) # Last(candidate) /\ Last(candidate) = "waiver" THEN Append(candidate, "")
     ELSE candidate

\* Mutant of Published: the text is audited that was open before.
PublishedBefore(u, text) ==
  [uri |-> u, diagnostics |-> IF lsOpenDocs[u] = Unopened THEN {} ELSE audit_source(lsOpenDocs[u], lsRules)]

\* The edit that is proposed replaces all lines up to the end of the last, of the
\* text the server has; no edit is one that replaces nothing.
NoEdit == [new |-> <<>>, lines |-> 0]

_handle_code_action(uri, docs, rules) ==
  LET source == docs[uri]
  IN IF source = Unopened \/ auto_fix_source(source, rules) = source THEN NoEdit
     ELSE [new |-> auto_fix_source(source, rules), lines |-> Len(splitlines(source))]
-----------------------------------------------------------------------------
LsInit ==
  /\ lsRules \in {_resolve_active_rules(p, {}, {}, i) : p \in Presets, i \in {{}, {"WaiverIntegrity"}}}
                 \cup {_resolve_active_rules(Invariants, {"ZeroTrustSanitization"}, {"SyntaxIntegrity"}, {})}
  /\ lsText = [u \in Uri |-> Unopened] /\ lsShown = [u \in Uri |-> {}]
  /\ lsAsked = <<>> /\ lsToServer = <<>> /\ lsToEditor = <<>>
  /\ lsOpenDocs = [u \in Uri |-> Unopened]
  /\ lsRunning = TRUE /\ lsTyped = 0 /\ lsFixes = 0

Send(message) == lsToServer' = Append(lsToServer, message)

\* didOpen or didChange, with the whole text: textDocumentSync is 1.  What was asked
\* about the text before is of no use any more.
Edits(u, text) ==
  /\ lsText' = [lsText EXCEPT ![u] = text]
  /\ Send([method |-> "change", uri |-> u, text |-> text])

Forgotten(u) == [i \in DOMAIN lsAsked |-> [lsAsked[i] EXCEPT !.current = @ /\ lsAsked[i].uri # u]]

Type(u) ==
  /\ lsRunning /\ lsTyped < MaxTyped
  /\ \E text \in Buffers \ {lsText[u]} : Edits(u, text)
  /\ lsAsked' = Forgotten(u) /\ lsTyped' = lsTyped + 1
  /\ UNCHANGED <<lsRules, lsShown, lsToEditor, lsOpenDocs, lsRunning, lsFixes>>

Close(u) ==
  /\ lsRunning /\ lsText[u] # Unopened
  /\ lsText' = [lsText EXCEPT ![u] = Unopened]
  /\ Send([method |-> "close", uri |-> u])
  /\ lsAsked' = Forgotten(u)
  /\ UNCHANGED <<lsRules, lsShown, lsToEditor, lsOpenDocs, lsRunning, lsTyped, lsFixes>>

AskForFix(u) ==
  /\ lsRunning /\ lsText[u] # Unopened /\ lsFixes < MaxAsked
  /\ Send([method |-> "codeAction", uri |-> u, id |-> lsFixes + 1])
  /\ lsAsked' = Append(lsAsked, [id |-> lsFixes + 1, uri |-> u, current |-> TRUE])
  /\ lsFixes' = lsFixes + 1
  /\ UNCHANGED <<lsRules, lsText, lsShown, lsToEditor, lsOpenDocs, lsRunning, lsTyped>>

\* exit, or the end of the stream.
Exit ==
  /\ lsRunning /\ lsToServer = <<>> /\ lsRunning' = FALSE
  /\ UNCHANGED <<lsRules, lsText, lsShown, lsAsked, lsToServer, lsToEditor, lsOpenDocs, lsTyped, lsFixes>>

\* An editor shows what is published last, and leaves it to the server to clear it.
ReceiveDiagnostics ==
  /\ lsToEditor # <<>> /\ "id" \notin DOMAIN Head(lsToEditor)
  /\ LET m == Head(lsToEditor)
     IN lsShown' = [lsShown EXCEPT ![m.uri] = m.diagnostics]
  /\ lsToEditor' = Tail(lsToEditor)
  /\ UNCHANGED <<lsRules, lsText, lsAsked, lsToServer, lsOpenDocs, lsRunning, lsTyped, lsFixes>>

Applied(edit, text) == edit.new \o SubSeq(text, edit.lines + 1, Len(text))

\* The user applies what is proposed, or does not; an editor does not propose what is
\* about a text that is gone.
ReceiveAnswer ==
  /\ lsToEditor # <<>> /\ "id" \in DOMAIN Head(lsToEditor)
  /\ LET m == Head(lsToEditor)
         asked == Head(lsAsked)
     IN \/ UNCHANGED <<lsText, lsToServer>> /\ lsAsked' = Tail(lsAsked)
        \/ /\ lsRunning /\ asked.current /\ m.edit # NoEdit
           /\ Edits(asked.uri, Applied(m.edit, lsText[asked.uri]))
           /\ lsAsked' = Tail(Forgotten(asked.uri))
  /\ lsToEditor' = Tail(lsToEditor)
  /\ UNCHANGED <<lsRules, lsShown, lsOpenDocs, lsRunning, lsTyped, lsFixes>>

Published(u, text) ==
  [uri |-> u, diagnostics |-> audit_source(text, lsRules)]

Receives(method) ==
  /\ lsRunning /\ lsToServer # <<>> /\ Head(lsToServer).method = method
  /\ lsToServer' = Tail(lsToServer)
  /\ UNCHANGED <<lsRules, lsText, lsShown, lsAsked, lsRunning, lsTyped, lsFixes>>

_on_did_change_doc ==
  /\ Receives("change")
  /\ LET m == Head(lsToServer)
     IN /\ lsOpenDocs' = [lsOpenDocs EXCEPT ![m.uri] = m.text]
        /\ lsToEditor' = Append(lsToEditor, Published(m.uri, m.text))

\* Nothing is published: the editor goes on showing what it has.
_on_did_close ==
  /\ Receives("close")
  /\ lsOpenDocs' = [lsOpenDocs EXCEPT ![Head(lsToServer).uri] = Unopened]
  /\ UNCHANGED lsToEditor

_handle_lsp_request ==
  /\ Receives("codeAction")
  /\ LET m == Head(lsToServer)
     IN lsToEditor' = Append(lsToEditor, [id |-> m.id, edit |-> _handle_code_action(m.uri, lsOpenDocs, lsRules)])
  /\ UNCHANGED lsOpenDocs

LsNext ==
  \/ \E u \in Uri : Type(u) \/ Close(u) \/ AskForFix(u)
  \/ Exit \/ ReceiveDiagnostics \/ ReceiveAnswer
  \/ _on_did_change_doc \/ _on_did_close \/ _handle_lsp_request

LsSpec == LsInit /\ [][LsNext]_lsVars
-----------------------------------------------------------------------------
\* When nothing is on its way, the server has the text of every open document, and
\* the editor shows what an audit of that text finds.
ShownIsOfTheText ==
  lsToServer = <<>> /\ lsToEditor = <<>> =>
    \A u \in Uri : lsText[u] # Unopened =>
      lsOpenDocs[u] = lsText[u] /\ lsShown[u] = audit_source(lsText[u], lsRules)

Requests(messages) == {i \in DOMAIN messages : "id" \in DOMAIN messages[i]}
Ids(messages) == {messages[i].id : i \in Requests(messages)}
InOrder(messages) == \A i, j \in Requests(messages) : i < j => messages[i].id < messages[j].id

\* Every request is on its way to the server or its answer on the way back, in the
\* order in which the editor asked.
AnswersComeInOrder ==
  /\ Ids(lsAsked) = Ids(lsToEditor) \cup Ids(lsToServer)
  /\ InOrder(lsAsked) /\ InOrder(lsToEditor) /\ InOrder(lsToServer)
  /\ \A answered \in Ids(lsToEditor), open \in Ids(lsToServer) : answered < open

\* A quick fix repairs the text it is applied to, line by line, and nothing is left
\* for a second; it gives rise to no new finding, unless a waiver without a reason
\* stands behind the header and is given one.
QuickFixRepairs ==
  \A u \in Uri : lsToEditor' # lsToEditor /\ lsText'[u] # lsText[u] =>
    LET old == splitlines(lsText[u])
        new == lsText'[u]
    IN /\ \A i \in DOMAIN new : new[i] = IF i \in DOMAIN old THEN Fixed(old[i]) ELSE ""
       /\ auto_fix_source(new, lsRules) = new
       /\ (\A i \in DOMAIN old : old[i] = "bare waiver" => InHeader(i)) =>
            audit_source(new, lsRules) \subseteq audit_source(lsText[u], lsRules)

\* What an editor may rely on, however its messages and the server's overtake what
\* the user types.
EditorsAreServed == [][ShownIsOfTheText' /\ AnswersComeInOrder' /\ QuickFixRepairs]_lsVars
=============================================================================
