------------------------------- MODULE Snippet -------------------------------
(***************************************************************************)
(* snippet of src/diagnostic.rs: the line of the source a diagnostic shows *)
(* and the marker under it.  A span may come from another text than the    *)
(* source it is rendered against, so it is clamped to the source and to    *)
(* character boundaries first.  A source is a sequence of bytes; offsets   *)
(* count from 0 and byte o is source[o + 1].                               *)
(***************************************************************************)
EXTENDS Integers, Sequences, FiniteSetsExt

CONSTANTS
    MaxBytes,   \* bound on the length of a source
    Beyond,     \* how far a span may reach past the end of the source
    TabWidth

\* A character of two bytes is Lead and Cont.
Bytes == {"Char", "Lead", "Cont", "Tab", "Return", "Newline"}

IsUtf8(s) == \A k \in 1..Len(s) + 1 :
    (k <= Len(s) /\ s[k] = "Cont") <=> (k > 1 /\ s[k - 1] = "Lead")

Sources == {s \in UNION {[1..n -> Bytes] : n \in 0..MaxBytes} : IsUtf8(s)}

ASSUME WidthAssumption == TabWidth \in Nat \ {0}
ASSUME BoundsAssumption == MaxBytes \in Nat /\ Beyond \in Nat

VARIABLES
    source, span,   \* what is rendered
    shown           \* the snippet, once made

snippetVars == <<source, span, shown>>
NotYet == [made |-> FALSE]

-----------------------------------------------------------------------------
IsBoundary(o) == o = Len(source) \/ source[o + 1] # "Cont"

AnyOffset(o) == o   \* faulty: a character may be cut in two

FloorCharBoundary(o) == Max({b \in 0..o : IsBoundary(b)})

Clamped(o) == FloorCharBoundary(IF o > Len(source) THEN Len(source) ELSE o)

DisplayBytes(from, to) == to - from   \* faulty: columns are bytes

\* Columns of the bytes from..(to - 1) when the text starts at a tab stop.
DisplayWidth(from, to) ==
    LET Column[o \in from..to] ==
            IF o = from THEN 0
            ELSE LET before == Column[o - 1]
                 IN  CASE source[o] = "Tab" -> before + TabWidth - (before % TabWidth)
                       [] source[o] = "Cont" -> before
                       [] OTHER -> before + 1
    IN  Column[to]

\* The line as it is printed: for each of its cells, the byte whose character it shows.
ExpandTabs(from, to) ==
    LET Cells[o \in from..to] ==
            IF o = from THEN <<>>
            ELSE LET before == Cells[o - 1]
                     width == CASE source[o] = "Tab" -> TabWidth - (Len(before) % TabWidth)
                                [] source[o] = "Cont" -> 0
                                [] OTHER -> 1
                 IN  before \o [c \in 1..width |-> o]
    IN  Cells[to]

FirstLine(start) == 0   \* faulty: the snippet starts with the source

LineStart(start) == Max({0} \cup {o \in 1..start : source[o] = "Newline"})

LineFeed(start) == Min({Len(source)} \cup {o \in start..(Len(source) - 1) : source[o + 1] = "Newline"})

LineEnd(start) ==
    LET feed == LineFeed(start)
    IN  IF feed > LineStart(start) /\ source[feed] = "Return" THEN feed - 1 ELSE feed

LesserOf(a, b) == IF a <= b THEN a ELSE b
GreaterOf(a, b) == IF a >= b THEN a ELSE b

Unclamped(start, end) == end   \* faulty: the marker runs on past the line

VisibleEnd(start, end) ==
    GreaterOf(LesserOf(end, LineEnd(start)), LesserOf(start, LineEnd(start)))

SnippetOf(start, end) ==
    LET visibleStart == LesserOf(start, LineEnd(start))
        visibleEnd == VisibleEnd(start, end)
        markerStart == DisplayWidth(LineStart(start), visibleStart)
    IN  [made |-> TRUE,
         lineNumber |-> 1 + Cardinality({o \in 1..start : source[o] = "Newline"}),
         column |-> markerStart + 1,
         line |-> <<LineStart(start), LineEnd(start)>>,
         text |-> ExpandTabs(LineStart(start), LineEnd(start)),
         visible |-> <<visibleStart, visibleEnd>>,
         markerStart |-> markerStart,
         markerLen |-> GreaterOf(DisplayWidth(visibleStart, visibleEnd), 1),
         continues |-> end > LineEnd(start)]

SnippetInit ==
    /\ source \in Sources
    /\ span \in {s \in (0..(MaxBytes + Beyond)) \X (0..(MaxBytes + Beyond)) :
                    s[1] <= s[2] /\ s[2] <= Len(source) + Beyond}
    /\ shown = NotYet

Render ==
    /\ shown = NotYet
    /\ shown' = SnippetOf(Clamped(span[1]), Clamped(span[2]))
    /\ UNCHANGED <<source, span>>

Rendered == shown # NotYet /\ UNCHANGED snippetVars

SnippetNext == Render \/ Rendered

SnippetSpec == SnippetInit /\ [][SnippetNext]_snippetVars

-----------------------------------------------------------------------------
(* Properties.                                                             *)

(* Whatever the span, the slices taken of the source are in order and on   *)
(* character boundaries: rendering never panics.                           *)
SlicesAreSafe ==
    shown # NotYet =>
        /\ \A o \in {shown.line[1], shown.line[2], shown.visible[1], shown.visible[2]} :
            o \in 0..Len(source) /\ IsBoundary(o)
        /\ shown.line[1] <= shown.visible[1]
        /\ shown.visible[1] <= shown.visible[2] /\ shown.visible[2] <= shown.line[2]

(* The line shown is one whole line of the source, its number counts the   *)
(* lines before it, and its end, LF or CRLF, is not part of it.            *)
LineIsWhole ==
    shown # NotYet =>
        /\ \A o \in (shown.line[1] + 1)..shown.line[2] : source[o] # "Newline"
        /\ shown.lineNumber = 1 + Cardinality({o \in 1..shown.line[1] : source[o] = "Newline"})
        /\ shown.line[1] = 0 \/ source[shown.line[1]] = "Newline"
        /\ LET rest == SubSeq(source, shown.line[2] + 1, Len(source))
           IN  \/ rest = <<>> \/ rest = <<"Return">>
               \/ rest[1] = "Newline" \/ SubSeq(rest, 1, 2) = <<"Return", "Newline">>

\* The cells of the printed line that show what the span covers.
MarkedCells ==
    {c \in DOMAIN shown.text :
        Clamped(span[1]) < shown.text[c] /\ shown.text[c] <= Clamped(span[2])}

TabMarked == \E c \in MarkedCells : source[shown.text[c]] = "Tab"

(* The marker is printed under the cells the span covers: it begins behind *)
(* every cell that shows what lies before the span, tabs expanded, and has *)
(* one cell if the span has none on the line.  Its end is exact, but for a *)
(* span that covers a tab and does not begin at a tab stop: there it is    *)
(* off by less than a tab.                                                 *)
MarkerCoversSpan ==
    shown # NotYet =>
        /\ shown.markerStart <= Len(shown.text)
        /\ \A c \in DOMAIN shown.text : c <= shown.markerStart <=> shown.text[c] <= Clamped(span[1])
        /\ MarkedCells = {} => shown.markerLen = 1
        /\ MarkedCells # {} =>
             \E slip \in (1 - TabWidth)..(TabWidth - 1) :
                /\ MarkedCells = (shown.markerStart + 1)..(shown.markerStart + shown.markerLen + slip)
                /\ slip # 0 => TabMarked /\ shown.markerStart % TabWidth # 0

(* Whatever the span, what is shown is the marked part of one line.        *)
ShowsTheSpan == SlicesAreSafe /\ LineIsWhole /\ MarkerCoversSpan

=============================================================================
