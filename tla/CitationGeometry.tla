--------------------------- MODULE CitationGeometry ---------------------------
(***************************************************************************)
(* Page citations (pnull-geometry): text maps made from the extractors'    *)
(* words, the occurrences of a quote in them, the rectangles a citation    *)
(* stores, and the reviewer image that is highlighted from those.          *)
(*                                                                         *)
(* A word's text is a sequence of syllables that may end in "-"; a quote   *)
(* is a sequence of words.  A page is a grid: extractors count its rows    *)
(* from the top, a text map is meant to count them from the bottom; a pixel *)
(* of an extractor's image is one unit of the page.                        *)
(***************************************************************************)
EXTENDS Integers, SequencesExt, FiniteSets

CONSTANTS
    Layout,         \* page number -> the pages an extractor may deliver there:
                    \* [by, width, height, words], a word with its text and its box
    Quote,          \* the quotes asked for
    Number,         \* the page numbers of the document
    DefaultWidth, DefaultHeight,  \* the page size assumed when none is found
    Zoom            \* pixels of the reviewer image to one page unit

\* Any text, and any box: the extractor's numbers are taken as they come.  A
\* page with text is read by pdftotext, a scanned one by tesseract, which no
\* command of the CLI switches on; both count rows from the top.
Box == [left : Int, top : Int, right : Int, bottom : Int]
Page == [by : {"pdftotext", "tesseract"}, width : Nat \ {0}, height : Nat \ {0},
         words : Seq([text : Seq(STRING), box : Box])]

ASSUME SizeAssumption == {DefaultWidth, DefaultHeight, Zoom} \subseteq Nat \ {0}
ASSUME PagesAssumption ==
    Number \subseteq Nat /\ DOMAIN Layout = Number /\ \A p \in Number : Layout[p] \subseteq Page
ASSUME QuoteAssumption == Quote \subseteq Seq(Seq(STRING))

None == [none |-> TRUE]

VARIABLES
    pages,      \* page number -> what the document shows there, or None
    maps,       \* page number -> its stored text map, or None
    citations,  \* <<quote, page>> -> the page citation stored under that id, or None
    image       \* the reviewer image last written: [of, pixels], or None

geometryVars == <<pages, maps, citations, image>>

GeometryInit ==
    /\ pages = [p \in Number |-> None]
    /\ maps = [p \in Number |-> None]
    /\ citations = [id \in Quote \X Number |-> None]
    /\ image = None

(***************************************************************************)
(* Text maps.                                                              *)
(***************************************************************************)

\* parse_ocr_tsv: rows counted from the top become units from the bottom.
FlippedRect(height, box) ==
    [x |-> <<box.left, box.right>>, y |-> <<height - box.bottom, height - box.top>>]

\* parse_all_pages: yMin and yMax are stored as pdftotext gives them.
PlainRect(box) == [x |-> <<box.left, box.right>>, y |-> <<box.top, box.bottom>>]

PageRect(layout, box) ==
    IF layout.by = "tesseract" THEN FlippedRect(layout.height, box) ELSE PlainRect(box)

TextMap(layout) ==
    [width |-> layout.width, height |-> layout.height,
     words |-> [i \in DOMAIN layout.words |->
                  [text |-> layout.words[i].text, rect |-> PageRect(layout, layout.words[i].box)]]]

\* validate_rect.
ValidRect(rect, width, height) ==
    /\ rect.x[1] >= 0 /\ rect.y[1] >= 0
    /\ rect.x[1] < rect.x[2] /\ rect.y[1] < rect.y[2]
    /\ rect.x[2] <= width /\ rect.y[2] <= height

\* validate_text_map.
ValidMap(map) == \A i \in DOMAIN map.words : ValidRect(map.words[i].rect, map.width, map.height)

(***************************************************************************)
(* find_occurrences.                                                       *)
(***************************************************************************)

EndsInHyphen(text) == text # <<>> /\ Last(text) = "-"
Lower(a, b) == IF a < b THEN a ELSE b
Upper(a, b) == IF a < b THEN b ELSE a

\* The word loses its hyphen to the continuation.
JoinedText(before, word) == Front(before.text) \o word.text

\* A word that goes on from a hyphen: the box grows to the right, up and down.
Continue(before, word) ==
    [text |-> JoinedText(before, word),
     rect |-> [x |-> <<before.rect.x[1], Upper(before.rect.x[2], word.rect.x[2])>>,
               y |-> <<Lower(before.rect.y[1], word.rect.y[1]), Upper(before.rect.y[2], word.rect.y[2])>>]]

\* The stream of words with one more: an empty one is left out, one behind a
\* hyphen goes on from it.
Join(stream, word) ==
    IF word.text = <<>> THEN stream
    ELSE IF stream # <<>> /\ EndsInHyphen(Last(stream).text)
    THEN Append(Front(stream), Continue(Last(stream), word))
    ELSE Append(stream, word)

Joined(words) ==
    LET joined[n \in 0..Len(words)] == IF n = 0 THEN <<>> ELSE Join(joined[n - 1], words[n])
    IN  joined[Len(words)]

\* A mistake: the search goes on behind the occurrence it found.
DisjointStarts(stream, quote) ==
    {s \in 1..(Len(stream) - Len(quote) + 1) : quote # <<>> /\ s % Len(quote) = 1 % Len(quote)}

\* Where a quote could start; an empty one is not searched for.
Starts(stream, quote) == {s \in 1..(Len(stream) - Len(quote) + 1) : quote # <<>>}

Matches(stream, quote, s) == \A k \in DOMAIN quote : stream[s + k - 1].text = quote[k]

RectsAt(stream, quote, s) == [k \in DOMAIN quote |-> stream[s + k - 1].rect]

\* The rectangles of every occurrence, in order.
Occurrences(map, quote) ==
    LET stream == Joined(map.words)
        found[s \in 0..Len(stream)] ==
            IF s = 0 THEN <<>>
            ELSE IF s \in Starts(stream, quote) /\ Matches(stream, quote, s)
            THEN Append(found[s - 1], RectsAt(stream, quote, s))
            ELSE found[s - 1]
    IN  found[Len(stream)]

(***************************************************************************)
(* The operations.                                                         *)
(***************************************************************************)

\* Extraction stores a page's map, whatever its rectangles are.
StoreMap ==
    \E p \in Number : \E layout \in Layout[p] :
        /\ pages[p] = None
        /\ pages' = [pages EXCEPT ![p] = layout]
        /\ maps' = [maps EXCEPT ![p] = TextMap(layout)]
        /\ UNCHANGED <<citations, image>>

Holds(p, quote, n) == maps[p] # None /\ n <= Len(Occurrences(maps[p], quote))

\* cite_quote and insert_page_citation: the first page with that many
\* occurrences; every map up to there is valid, or the command fails.  The id
\* does not say which occurrence it is, and a row that exists stays.
Cite ==
    \E quote \in Quote, n \in 1..2, p \in Number :
        /\ Holds(p, quote, n)
        /\ \A o \in Number : o < p => ~Holds(o, quote, n)
        /\ \A o \in Number : o <= p /\ maps[o] # None => ValidMap(maps[o])
        /\ citations[<<quote, p>>] = None
        /\ citations' = [citations EXCEPT ![<<quote, p>>] =
                           [nth |-> n, rects |-> Occurrences(maps[p], quote)[n]]]
        /\ UNCHANGED <<pages, maps, image>>

\* clamp_pixel.
ClampPixel(value, dimension) == Upper(0, Lower(value, dimension - 1))

\* The pixels from one scaled coordinate to another, both ends painted.
Span(low, high, scale, size, dimension) ==
    ClampPixel((low * scale) \div size, dimension)..ClampPixel((high * scale) \div size, dimension)

Columns(page, rect, dims) ==
    Span(rect.x[1], rect.x[2], page.width * Zoom, dims[1], page.width * Zoom)

\* A mistake: rows are counted from the bottom of the image too.
DrawSameWayUp(page, rect, dims) ==
    Columns(page, rect, dims)
        \X Span(rect.y[1], rect.y[2], page.height * Zoom, dims[2], page.height * Zoom)

\* draw_highlight: a map's rows from the bottom become rows of the image.
DrawHighlight(page, rect, dims) ==
    Columns(page, rect, dims)
        \X Span(dims[2] - rect.y[2], dims[2] - rect.y[1], page.height * Zoom, dims[2], page.height * Zoom)

\* citation render: the text map is looked up by its digest under the ids,
\* where it never is, so the page always counts as a default one.
RenderDims == <<DefaultWidth, DefaultHeight>>

Render ==
    \E id \in Quote \X Number :
        /\ citations[id] # None
        /\ LET rects == Range(citations[id].rects)
           IN  image' = [of |-> id, pixels |-> UNION {DrawHighlight(pages[id[2]], r, RenderDims) : r \in rects}]
        /\ UNCHANGED <<pages, maps, citations>>

GeometryNext == StoreMap \/ Cite \/ Render

GeometrySpec == GeometryInit /\ [][GeometryNext]_geometryVars

(***************************************************************************)
(* Properties.                                                             *)
(***************************************************************************)

\* A whole word of the page: the stretch <<a, b>> of words that line breaks
\* connect, no break going into it or on behind it.
Printed(words) == {n \in DOMAIN words : words[n].text # <<>>}
Broken(words, n) == EndsInHyphen(words[n].text)

IsWholeWord(words, a, b) ==
    /\ a <= b
    /\ \A n \in Printed(words) : n \in a..(b - 1) => Broken(words, n)
    /\ \A n \in Printed(words) : n < a /\ Broken(words, n) => \E o \in Printed(words) : n < o /\ o < a
    /\ Broken(words, b) => \A n \in Printed(words) : n <= b

WholeWords(words) ==
    {w \in Printed(words) \X Printed(words) : IsWholeWord(words, w[1], w[2])}

\* What it spells, the hyphens at the breaks removed.
Spelled(words, a, b) ==
    LET spelled[n \in a..b] ==
            IF n = a THEN words[a].text
            ELSE IF words[n].text = <<>> THEN spelled[n - 1]
            ELSE Front(spelled[n - 1]) \o words[n].text
    IN  spelled[b]

\* The ways to read a quote on a page: whole words that spell the quote's,
\* with nothing printed in between.
Readings(words, quote) ==
    {w \in [DOMAIN quote -> WholeWords(words)] :
        /\ quote # <<>>
        /\ \A k \in DOMAIN quote : Spelled(words, w[k][1], w[k][2]) = quote[k]
        /\ \A k \in DOMAIN quote \ {1} :
              /\ w[k - 1][2] < w[k][1]
              /\ \A n \in Printed(words) : ~(w[k - 1][2] < n /\ n < w[k][1])}

\* find_occurrences finds a quote as often as it can be read on the page,
\* overlapping itself and over hyphenated line breaks too, and nowhere else.
\* (geometry lib.rs 333-390.)
OccurrencesAreExact ==
    \A p \in Number, quote \in Quote : maps[p] # None =>
        Len(Occurrences(maps[p], quote)) = Cardinality(Readings(maps[p].words, quote))

\* The pixels of a word's box, in a reviewer image of its page.
PixelsOf(box) ==
    ((box.left * Zoom)..(box.right * Zoom - 1)) \X ((box.top * Zoom)..(box.bottom * Zoom - 1))

IsDefault(page) == page.width = DefaultWidth /\ page.height = DefaultHeight

\* Where a map puts a box: a scanned page's where it is, that of a page with
\* text upside down, because its rows are never turned.
Placed(page, box) ==
    IF page.by = "tesseract" THEN box
    ELSE [box EXCEPT !.top = page.height - box.bottom, !.bottom = page.height - box.top]

\* The reviewer image of a page of the default size has a reading of its quote
\* all highlighted, but for words broken over two lines, wherever the map puts
\* them: on the words themselves if tesseract read the page, and if pdftotext
\* did, on their mirror images about the middle of the page, which are other
\* words or none.  (ingest lib.rs 669-760, geometry lib.rs 257-300, 442-554.)
HighlightCoversQuote ==
    image # None =>
        LET page == pages[image.of[2]]
            quote == image.of[1]
        IN  IsDefault(page) =>
              \E w \in Readings(page.words, quote) : \A k \in DOMAIN quote :
                 w[k][1] = w[k][2] =>
                     PixelsOf(Placed(page, page.words[w[k][1]].box)) \subseteq image.pixels

=============================================================================
