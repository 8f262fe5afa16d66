------------------------------ MODULE WebPages ------------------------------
(***************************************************************************)
(* The public pages of the server (main.rs, i18n.rs): a visitor who goes     *)
(* from page to page in a language and a display size, the changelog        *)
(* rendered from Markdown, and the list of downloads.                       *)
(*                                                                         *)
(* The pages hold no script.  The language travels in every link; the size  *)
(* only in the links of the switcher, else in a cookie.                     *)
(***************************************************************************)
EXTENDS Integers, Sequences, SequencesExt

CONSTANTS
    MaxLines,      \* bound: lines of a changelog
    MaxClicks      \* bound: links a visitor follows

ASSUME WebConstants == MaxLines \in Nat /\ MaxClicks \in Nat

VARIABLES
    site,      \* scheme of PUBLIC_BASE, and how the visitor came to the server
    visitor,   \* Accept-Language, cookie kept by the browser
    shown,     \* the page: language, display size
    chosen,    \* history: language and size chosen last, if any
    links,    \* links to follow
    doc        \* a changelog being rendered: lines to come, tags so far

webVars == <<site, visitor, shown, chosen, links, doc>>

\* Two languages and two sizes stand for five and three; "xx" is neither.
Lang == {"en", "de"}
Ui == {"md", "lg"}
Unset == "unset"

\* Lang::detect(), Ui::detect(): the query wins, then what the browser sends.
LangOf(query, accept) ==
    LET known == {k \in DOMAIN accept : accept[k] \in Lang}
    IN IF query \in Lang THEN query
       ELSE IF known = {} THEN "en"
       ELSE accept[CHOOSE k \in known : \A l \in known : k <= l]

UiOf(query, cookie) ==
    IF query \in Ui THEN query ELSE IF cookie \in Ui THEN cookie ELSE "md"

\* ui_cookie(): Secure follows the public address; a browser drops such a cookie
\* over plain http, and keeps the others for the host that set them.
Keeps == site.base = "http" \/ site.here = "https"

\* page(): an explicit choice is remembered, as the size that was shown.
SetsCookie(query, ui) == query # Unset

\* A page is asked for with the query q.
Get(q) ==
    LET ui == UiOf(q.ui, visitor.cookie)
    IN /\ shown' = [lang |-> LangOf(q.lang, visitor.accept), ui |-> ui]
       /\ visitor' = IF SetsCookie(q.ui, ui) /\ Keeps
                       THEN [visitor EXCEPT !.cookie = ui] ELSE visitor
       /\ UNCHANGED <<site, doc>>

Click == links > 0 /\ links' = links - 1

\* A link from elsewhere; a parameter may hold anything.
Visit(q) ==
    /\ Click
    /\ Get(q)
    /\ chosen' = [lang |-> IF q.lang \in Lang THEN q.lang ELSE Unset,
                  ui |-> IF q.ui \in Ui THEN q.ui ELSE chosen.ui]

\* Mutant: the links of the footer name no language.
NavQueryPlain == [lang |-> Unset, ui |-> Unset]

\* footer(), the brand, and the links between the legal texts.
NavQuery == [lang |-> shown.lang, ui |-> Unset]

Navigate ==
    /\ Click
    /\ shown.lang # Unset
    /\ Get(NavQuery)
    /\ UNCHANGED chosen

\* switcher(): another language at this size, another size in this language.
SwitchLang(l) ==
    /\ Click
    /\ shown.lang # Unset
    /\ Get([lang |-> l, ui |-> shown.ui])
    /\ chosen' = [chosen EXCEPT !.lang = l]

SwitchUi(u) ==
    /\ Click
    /\ shown.lang # Unset
    /\ Get([lang |-> shown.lang, ui |-> u])
    /\ chosen' = [chosen EXCEPT !.ui = u]

-----------------------------------------------------------------------------
(***************************************************************************)
(* render_changelog(): one line after the other, with a flag for an open    *)
(* list.                                                                   *)
(***************************************************************************)
Line == {"## ", "### ", "# ", "- ", "blank", "text"}

Close(d) == IF d.in_ul THEN <<"</ul>">> ELSE <<>>

\* The lines a list goes on over; a title is skipped.
ListGoesOn(l) == l \in {"- ", "text", "# "}

\* The tags of one line; the rest of a bullet goes into the last <li>.
Tags(d, l) ==
    CASE l \in {"## ", "### "} -> <<"h">>
      [] l = "- " -> (IF d.in_ul THEN <<>> ELSE <<"<ul>">>) \o <<"li">>
      [] l = "text" -> IF d.in_ul THEN <<"+li">> ELSE <<"p">>
      [] OTHER -> <<>>

Render ==
    /\ doc.lines # <<>>
    /\ LET l == Head(doc.lines)
       IN doc' = [lines |-> Tail(doc.lines),
                  html |-> doc.html \o (IF ListGoesOn(l) THEN <<>> ELSE Close(doc)) \o Tags(doc, l),
                  in_ul |-> IF ListGoesOn(l) THEN doc.in_ul \/ l = "- " ELSE FALSE]
    /\ UNCHANGED <<site, visitor, shown, chosen, links>>

\* What a browser makes of the tags: is the list open, and is there a bullet to
\* continue.
Html == doc.html \o (IF doc.lines = <<>> THEN Close(doc) ELSE <<>>)

-----------------------------------------------------------------------------
WebInit ==
    /\ site \in [base : {"http", "https"}, here : {"http", "https"}]
    /\ visitor \in [accept : {<<>>, <<"de">>, <<"xx", "en", "de">>}, cookie : {Unset}]
    /\ shown = [lang |-> Unset, ui |-> Unset]
    /\ chosen = shown
    /\ \/ links = MaxClicks /\ doc = [lines |-> <<>>, html |-> <<>>, in_ul |-> FALSE]
       \/ links = 0 /\ doc \in [lines : BoundedSeq(Line, MaxLines), html : {<<>>}, in_ul : {FALSE}]

WebNext ==
    \/ Render
    \/ \E q \in [lang : Lang \cup {Unset, "xx"}, ui : Ui \cup {Unset, "xx"}] : Visit(q)
    \/ Navigate
    \/ \E l \in Lang : SwitchLang(l)
    \/ \E u \in Ui : SwitchUi(u)

WebSpec == WebInit /\ [][WebNext]_webVars

-----------------------------------------------------------------------------
\* The language a visitor has chosen stays, from page to page, whatever the
\* browser asks for.
LanguageSticks == chosen.lang # Unset => shown.lang = chosen.lang

\* The size a visitor has chosen stays: in the links of the switcher, and from
\* page to page wherever the browser keeps the cookie.
SizeSticks == Keeps /\ chosen.ui # Unset => shown.ui = chosen.ui

\* A list is open before place k of the tags h.
Inside(h, k) ==
    \E i \in 1 .. k - 1 : h[i] = "<ul>" /\ \A j \in i + 1 .. k - 1 : h[j] # "</ul>"

\* The changelog is well formed: lists are opened and closed in turns, bullets
\* and what continues them stand inside a list, headings and paragraphs outside, and
\* the page ends with no list open.
WellFormed ==
    /\ \A k \in DOMAIN Html :
         /\ Html[k] \in {"<ul>", "h", "p"} => ~Inside(Html, k)
         /\ Html[k] \in {"</ul>", "li", "+li"} => Inside(Html, k)
    /\ doc.lines = <<>> => ~Inside(Html, Len(Html) + 1)

\* What a visitor gets: the language and the size it has chosen, and a changelog
\* that is well formed.
PagesHold == LanguageSticks /\ SizeSticks /\ WellFormed
=============================================================================
