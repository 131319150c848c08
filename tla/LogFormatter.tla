---------------------------- MODULE LogFormatter ----------------------------
(***************************************************************************)
(* hps_LogFormatter::init() (log.cpp): from a pattern to the list of items *)
(* that format() prints one after the other.  One step is one turn of the  *)
(* loop over the pattern.  A pattern is a sequence of characters; it is    *)
(* written token by token before init() is called, so that the result can  *)
(* be compared with what was meant.                                        *)
(***************************************************************************)
EXTENDS Integers, Sequences, SequencesExt

CONSTANTS
  Letters,    \* isalpha
  Others,     \* characters that mean nothing to init()
  Keys,       \* names in s_format_items
  ItemNames,  \* names that directives are written with
  Formats,    \* what is written between braces
  MaxTokens   \* bound: tokens of a pattern

\* The characters init() looks for
Percent    == "%"
OpenBrace  == "{"
CloseBrace == "}"

Chars == Letters \cup Others \cup {Percent, OpenBrace, CloseBrace}

\* A directive has a name; a format ends at the first closing brace
ASSUME FormatterAssumption ==
  /\ Letters \cap Others = {} /\ (Letters \cup Others) \cap {Percent, OpenBrace, CloseBrace} = {}
  /\ ItemNames \subseteq Seq(Letters) \ {<<>>}
  /\ Formats \subseteq Seq(Chars \ {CloseBrace})
  /\ MaxTokens \in Nat

\* An entry of vec: text, a directive with its format, or the mark of an
\* unclosed brace
Text(s)           == [kind |-> "text", name |-> s, fmt |-> <<>>]
Directive(s, fmt) == [kind |-> "directive", name |-> s, fmt |-> fmt]
PatternError      == [kind |-> "pattern_error", name |-> <<>>, fmt |-> <<>>]

VARIABLES
  m_pattern,
  written,    \* its tokens, each with the pattern's length and the items meant up to it
  pos,        \* the position of init()'s loop, from 1; 0 before the call
  nstr, vec,  \* init()'s locals: text so far, entries so far
  m_error,
  built       \* init() has returned

formatterVars == <<m_pattern, written, pos, nstr, vec, m_error, built>>

FormatterInit ==
  /\ m_pattern = <<>> /\ written = <<>>
  /\ pos = 0 /\ nstr = <<>> /\ vec = <<>>
  /\ m_error = FALSE /\ built = FALSE

-----------------------------------------------------------------------------
(* Writing a pattern.  The comment above init() lists what there is besides *)
(* text: %xxx, %xxx{xxx} and %%.  An unclosed brace is a mistake.           *)

Tokens ==
  [kind : {"char"}, name : {<<c>> : c \in Chars \ {Percent}}, fmt : {<<>>}] \cup
  [kind : {"percent"}, name : {<<Percent>>}, fmt : {<<>>}] \cup
  [kind : {"name"}, name : ItemNames, fmt : {<<>>}] \cup
  [kind : {"braced", "unclosed"}, name : ItemNames, fmt : Formats]

Render(tok) ==
  CASE tok.kind = "char"     -> tok.name
    [] tok.kind = "percent"  -> <<Percent, Percent>>
    [] tok.kind = "name"     -> <<Percent>> \o tok.name
    [] tok.kind = "braced"   -> <<Percent>> \o tok.name \o <<OpenBrace>> \o tok.fmt \o <<CloseBrace>>
    [] tok.kind = "unclosed" -> <<Percent>> \o tok.name \o <<OpenBrace>> \o tok.fmt

\* A letter or a brace behind a name would be read with the name; an unclosed
\* brace takes in whatever follows
Separate(tok, next) ==
  /\ tok.kind # "unclosed"
  /\ tok.kind = "name" /\ next.kind = "char" => next.name[1] \in Others

EndsInText(items) == items # <<>> /\ Last(items).kind = "text"

\* The items meant once tok is behind the others; neighbouring texts are one
Add(items, tok) ==
  CASE tok.kind \in {"char", "percent"} ->
         IF EndsInText(items) THEN Append(Front(items), Text(Last(items).name \o tok.name))
                              ELSE Append(items, Text(tok.name))
    [] tok.kind \in {"name", "braced"} -> Append(items, Directive(tok.name, tok.fmt))
    [] OTHER -> items

Meant == IF written = <<>> THEN <<>> ELSE Last(written).items

WriteToken(tok) ==
  /\ pos = 0 /\ Len(written) < MaxTokens
  /\ written # <<>> => Separate(Last(written).tok, tok)
  /\ m_pattern' = m_pattern \o Render(tok)
  /\ written' = Append(written, [tok |-> tok, end |-> Len(m_pattern'), items |-> Add(Meant, tok)])
  /\ UNCHANGED <<pos, nstr, vec, m_error, built>>

\* The constructor calls init()
Construct ==
  /\ pos = 0 /\ pos' = 1
  /\ UNCHANGED <<m_pattern, written, nstr, vec, m_error, built>>

-----------------------------------------------------------------------------
At(n, c) == n <= Len(m_pattern) /\ m_pattern[n] = c

\* First position from n on whose character is in Stop, or the end
FirstFrom(n, Stop) ==
  CHOOSE k \in n .. Len(m_pattern) + 1 :
    /\ k <= Len(m_pattern) => m_pattern[k] \in Stop
    /\ \A j \in n .. k - 1 : m_pattern[j] \notin Stop

\* Mutant of NameEnd: a closing brace ends the search, an opening one does not
NameEndAtClose == FirstFrom(pos + 1, Others \cup {Percent, CloseBrace})

\* The name of the directive at pos goes up to a character that is neither a
\* letter nor a closing brace
NameEnd == FirstFrom(pos + 1, Others \cup {Percent, OpenBrace})

Name   == SubSeq(m_pattern, pos + 1, NameEnd - 1)
Braced == At(NameEnd, OpenBrace)
Close  == FirstFrom(NameEnd + 1, {CloseBrace})

Flush == IF nstr = <<>> THEN vec ELSE Append(vec, Text(nstr))

Scanning == ~built /\ pos \in 1 .. Len(m_pattern)

AtText == Scanning /\ ~At(pos, Percent)

\* %%: the first of the two is skipped, the second is looked at again
AtEscape == Scanning /\ At(pos, Percent) /\ At(pos + 1, Percent)

AtDirective == Scanning /\ At(pos, Percent) /\ ~At(pos + 1, Percent)

ScanText ==
  /\ AtText \/ AtEscape
  /\ nstr' = Append(nstr, IF AtText THEN m_pattern[pos] ELSE Percent)
  /\ pos' = pos + 1
  /\ UNCHANGED <<m_pattern, written, vec, m_error, built>>

\* %xxx and %xxx{xxx}
ScanDirective ==
  /\ AtDirective /\ (Braced => Close <= Len(m_pattern))
  /\ vec' = Append(Flush, Directive(Name, IF Braced THEN SubSeq(m_pattern, NameEnd + 1, Close - 1)
                                          ELSE <<>>))
  /\ nstr' = <<>>
  /\ pos' = IF Braced THEN Close + 1 ELSE NameEnd
  /\ UNCHANGED <<m_pattern, written, m_error, built>>

\* The brace is not closed: what follows the % is text
ScanUnclosed ==
  /\ AtDirective /\ Braced /\ Close > Len(m_pattern)
  /\ vec' = Append(vec, PatternError)
  /\ m_error' = TRUE
  /\ pos' = pos + 1
  /\ UNCHANGED <<m_pattern, written, nstr, built>>

Unknown(item) == item.kind = "directive" /\ item.name \notin Keys

\* The entries become items; a name that is not in s_format_items is an error
BuildItems ==
  /\ ~built /\ pos > Len(m_pattern)
  /\ vec' = Flush /\ nstr' = <<>>
  /\ m_error' = (m_error \/ \E k \in 1 .. Len(Flush) : Unknown(Flush[k]))
  /\ built' = TRUE
  /\ UNCHANGED <<m_pattern, written, pos>>

FormatterNext ==
  \/ \E tok \in Tokens : WriteToken(tok)
  \/ Construct \/ ScanText \/ ScanDirective \/ ScanUnclosed \/ BuildItems

FormatterSpec == FormatterInit /\ [][FormatterNext]_formatterVars

-----------------------------------------------------------------------------
(* Properties.                                                              *)

Mistaken(tok) ==
  tok.kind = "unclosed" \/ (tok.kind \in {"name", "braced"} /\ tok.name \notin Keys)

\* Some token of the pattern is of the given kind
Has(kind) == \E k \in 1 .. Len(written) : written[k].tok.kind = kind

\* init() undoes the writing of a pattern: the items are those it was written
\* from, in order, with their formats, and isError() is true exactly when a
\* name is unknown or a brace left open.  A pattern with %% is left aside: the
\* second of the two starts a directive.
ParsedAsWritten ==
  built /\ ~Has("percent") =>
    /\ m_error <=> \E k \in 1 .. Len(written) : Mistaken(written[k].tok)
    /\ ~Has("unclosed") => vec = Meant
=============================================================================
