----------------------------- MODULE Extractor ------------------------------
(***************************************************************************)
(* Finding the verification code and the link of a mail.  The text is a    *)
(* sequence of marks: "zh" and "en" stand for a keyword each, of a script  *)
(* of its own and of Latin letters, "9" and "1" for digits, "l" for a      *)
(* Latin letter and "s" for whatever separates words.  A number of YearLen *)
(* digits that begins with "1" looks like a year or a time of day.  The    *)
(* caller may name the marks a code is made of.                            *)
(***************************************************************************)
EXTENDS Naturals, Sequences, FiniteSetsExt

CONSTANTS MinLen, MaxLen,  \* length of a code
          YearLen,         \* length of a year, and of a time of day
          Window,          \* marks looked at on either side of a keyword
          MaxText,         \* bound: length of a text
          MaxLinks         \* bound: links of a mail

ASSUME ExtractorAssumption ==
    /\ {MinLen, MaxLen, YearLen, Window, MaxText, MaxLinks} \subseteq Nat \ {0}
    /\ MinLen <= YearLen /\ YearLen <= MaxLen

VARIABLE extraction   \* a mail and what was made of it

Digits == {"9", "1"}
Latin == {"en", "l"} \cup Digits
Marks == {"zh", "s"} \cup Latin
Keywords == <<"zh", "en">>
LinkKeywords == <<"verify", "confirm">>
Nothing == <<0, 0>>

Texts == UNION {[1 .. n -> Marks] : n \in 1 .. MaxText}
Links == UNION {[1 .. n -> SUBSET {"verify", "confirm"}] : n \in 0 .. MaxLinks}

\* The plain body, the HTML body, Graph's body, the preview and the subject of a
\* mail.  An HTML body of tags alone has no text.
MailParts == {parts \in [1 .. 5 -> {"empty", "tags", "text"}] :
              \A i \in {1, 4, 5} : parts[i] # "tags"}

-----------------------------------------------------------------------------
(* Which part of the mail is read.                                         *)

\* The first part that has a text.
TextPart(parts) ==
    IF \E i \in DOMAIN parts : parts[i] = "text"
    THEN Min({i \in DOMAIN parts : parts[i] = "text"}) ELSE 0

\* The other extractor does not read the subject, nor go on after an HTML
\* body without text.
ContentPart(parts) ==
    LET filled == {i \in 1 .. 4 : parts[i] # "empty"} IN
    IF filled # {} /\ parts[Min(filled)] = "text" THEN Min(filled) ELSE 0

-----------------------------------------------------------------------------
(* The code.                                                               *)

\* The words between two places of a text: its beginning and its end separate.
Words(text, lo, hi) ==
    {w \in (lo .. hi) \X (lo .. hi) :
        /\ w[1] <= w[2]
        /\ \A i \in w[1] .. w[2] : text[i] # "s"
        /\ w[1] = lo \/ text[w[1] - 1] = "s"
        /\ w[2] = hi \/ text[w[2] + 1] = "s"}

Size(w) == w[2] - w[1] + 1

Codes(text, lo, hi, marks) ==
    {w \in Words(text, lo, hi) :
        /\ Size(w) \in MinLen .. MaxLen
        /\ \A i \in w[1] .. w[2] : text[i] \in marks
        /\ \E i \in w[1] .. w[2] : text[i] \in Digits}

First(words) == IF words = {} THEN Nothing ELSE CHOOSE w \in words : \A v \in words : w[1] <= v[1]

\* The surroundings of the first place where a keyword is: none if it is nowhere.
Around(text, keyword) ==
    LET places == {i \in DOMAIN text : text[i] = keyword} IN
    IF places = {} THEN <<1, 0>>
    ELSE <<Max({1, Min(places) - Window}), Min({Len(text), Min(places) + Window})>>

\* The first code around the first keyword that has one.
Smart(text, marks) ==
    LET near(k) == LET a == Around(text, Keywords[k]) IN Codes(text, a[1], a[2], marks)
        useful == {k \in DOMAIN Keywords : near(k) # {}}
    IN IF useful = {} THEN Nothing ELSE First(near(Min(useful)))

LooksLikeTime(text, w) ==
    /\ Size(w) = YearLen
    /\ \A i \in w[1] .. w[2] : text[i] \in Digits
    /\ text[w[1]] = "1"

\* Mutant: every number as long as a year is taken for one.
FallbackDropsNumbers(text, marks) ==
    First({w \in Codes(text, 1, Len(text), marks) :
              ~(Size(w) = YearLen /\ \A i \in w[1] .. w[2] : text[i] \in Digits)})

\* Without a keyword: the first code that is not a year or a time.
Fallback(text, marks) ==
    First({w \in Codes(text, 1, Len(text), marks) : ~LooksLikeTime(text, w)})

\* The page's extraction takes digits and letters.
PageCode(text) ==
    IF Smart(text, Latin) # Nothing THEN Smart(text, Latin) ELSE Fallback(text, Latin)

\* A consumer's takes digits, or what the consumer says a code is.  A code is
\* trusted that stands near a keyword or is as the consumer says.
ConsumerCode(text, marks, directed) ==
    LET near == Smart(text, marks)
        code == IF near # Nothing THEN near ELSE Fallback(text, marks)
    IN [code |-> code, high |-> near # Nothing \/ (directed /\ code # Nothing)]

-----------------------------------------------------------------------------
(* The link.                                                               *)

\* The first link with the first keyword that any link has, or the first link.
PreferredLink(links) ==
    LET with(k) == {i \in DOMAIN links : LinkKeywords[k] \in links[i]}
        useful == {k \in DOMAIN LinkKeywords : with(k) # {}}
    IN IF links = <<>> THEN 0
       ELSE IF useful = {} THEN 1 ELSE Min(with(Min(useful)))

\* A link is trusted that has a keyword itself or stands in a mail that speaks
\* of verifying an address or an account.
LinkIsHigh(links, speaks) ==
    PreferredLink(links) # 0 /\ (links[PreferredLink(links)] # {} \/ speaks)

\* What is not trusted is not given to a consumer.
Gate(found) ==
    [code |-> IF found.codeHigh THEN found.code ELSE Nothing,
     link |-> IF found.linkHigh THEN found.link ELSE 0]

-----------------------------------------------------------------------------
NoExtraction == [parts |-> <<>>, page |-> 0, consumer |-> 0, text |-> <<>>, marks |-> {}, directed |-> FALSE, links |-> <<>>, speaks |-> FALSE,
                 code |-> Nothing, link |-> 0]

ExtractorInit == extraction = NoExtraction

\* The page's extraction of a code.
ExtractForPage(text) ==
    extraction' = [NoExtraction EXCEPT !.text = text, !.marks = Latin, !.code = PageCode(text)]

\* A consumer's extraction of a code, and of a link.
ExtractForConsumer(text, marks, directed, links, speaks) ==
    LET code == ConsumerCode(text, marks, directed)
        given == Gate([code |-> code.code, codeHigh |-> code.high,
                       link |-> PreferredLink(links), linkHigh |-> LinkIsHigh(links, speaks)])
    IN extraction' = [NoExtraction EXCEPT !.text = text, !.marks = marks, !.directed = directed,
                          !.links = links, !.speaks = speaks, !.code = given.code, !.link = given.link]

\* What each extraction reads of a mail.
ReadParts(parts) ==
    extraction' = [NoExtraction EXCEPT !.parts = parts, !.page = TextPart(parts),
                                       !.consumer = ContentPart(parts)]

ExtractorNext ==
    /\ extraction = NoExtraction
    /\ \/ \E text \in Texts :
            \/ ExtractForPage(text)
            \/ ExtractForConsumer(text, Digits, FALSE, <<>>, FALSE)
            \/ ExtractForConsumer(text, Latin, TRUE, <<>>, FALSE)
       \/ \E links \in Links, speaks \in BOOLEAN :
            ExtractForConsumer(<<"s">>, Digits, FALSE, links, speaks)
       \/ \E parts \in MailParts : ReadParts(parts)

ExtractorSpec == ExtractorInit /\ [][ExtractorNext]_extraction

ExtractorTypeOK ==
    /\ extraction.text = <<>> \/ extraction.text \in Texts
    /\ extraction.code \in (0 .. MaxText) \X (0 .. MaxText)
    /\ extraction.link \in 0 .. MaxLinks

-----------------------------------------------------------------------------
(* Properties.                                                             *)

Whole == Codes(extraction.text, 1, Len(extraction.text), extraction.marks)

\* A code that is given is a whole word of the mail that can be a code, unless
\* the surroundings of a keyword cut it out of a longer word.  If the mail has
\* a word that can be a code and looks like no time, the page is given a code,
\* and so is a consumer if it says what a code is or the word is near the first
\* place of a keyword.  A consumer is given a link only if one has a keyword or
\* the mail speaks of it, and then one with a keyword if any has.
\* A mail with a text is read, by the page from whichever part has it, by a
\* consumer's extraction unless a body of tags comes first.
ExtractionIsRight ==
    LET x == extraction
        cut == \E k \in DOMAIN Keywords : LET a == Around(x.text, Keywords[k]) IN
                    \/ x.code[1] = a[1] /\ a[1] > 1 /\ x.text[a[1] - 1] # "s"
                    \/ x.code[2] = a[2] /\ a[2] < Len(x.text) /\ x.text[a[2] + 1] # "s"
        near == {w \in Whole : \E k \in DOMAIN Keywords : LET a == Around(x.text, Keywords[k]) IN
                    a[1] <= w[1] /\ w[2] <= a[2]}
    IN
    /\ x.code # Nothing => x.code \in Whole \/ cut
    /\ x.code = Nothing =>
        /\ near = {}
        /\ (x.directed \/ x.marks = Latin) => \A w \in Whole : LooksLikeTime(x.text, w)
    /\ x.link # 0 => x.links[x.link] # {} \/ (x.speaks /\ \A i \in DOMAIN x.links : x.links[i] = {})
    /\ x.link = 0 => \A i \in DOMAIN x.links : x.links[i] = {} /\ ~x.speaks
    /\ \A i \in DOMAIN x.parts : x.parts[i] = "text" =>
        /\ x.page # 0 /\ x.parts[x.page] = "text"
        /\ i # 5 => x.consumer # 0 \/ \E k \in 1 .. i : x.parts[k] = "tags"
=============================================================================
