-------------------------------- MODULE Page --------------------------------
(***************************************************************************)
(* Download of crawler/download.go: the answer to one request is read      *)
(* token by token, its references are rewritten for the mirror and         *)
(* collected for the crawler (ProcessURL of crawler/downloaded.go).        *)
(*                                                                         *)
(* A token has one attribute, or none.  What the tokenizers deliver is any *)
(* sequence of Tokens; the raw text of a script or a style element is one  *)
(* text token before its end tag.                                          *)
(***************************************************************************)
EXTENDS Links

CONSTANTS
    Pages,       \* urls that are downloaded
    Tokens,      \* what documents consist of
    Locations,   \* references in Location headers
    Rewrites,    \* the host rewrites: site -> site
    MaxTokens,   \* bound on a document, not counting a last end tag
    Closed       \* every script and style element has its end tag

Tags == {"a", "form", "img", "link", "script", "style", "base", "other", "text"}

Forms == {"start", "selfClosing", "end", "text"}

Attributes == {"href", "action", "src", "data", "stylesheet", "style", "getBase", "none"}

Token(tag, form, attr, ref) == [tag |-> tag, form |-> form, attr |-> attr, ref |-> ref]

\* The header Location.
LocationToken(ref) == Token("location", "text", "href", ref)

ASSUME PageAssumption ==
    /\ Rewrites \in [Sites -> Sites]
    /\ Pages \subseteq URLSet
    /\ Locations \subseteq References
    /\ Tokens \subseteq [tag : Tags, form : Forms, attr : Attributes, ref : References]
    /\ MaxTokens \in Nat
    /\ Closed \in BOOLEAN

\* The tokenizer gives end tags no attributes, and getBase is a script's text.  A base
\* element that names no page (mailto:) is left aside.
ASSUME TokensAssumption ==
    \A t \in Tokens :
        /\ t.tag = "base" => t.ref.kind # "foreign"
        /\ t.form = "end" => t.attr = "none"
        /\ t.attr = "getBase" => t.form = "text"

VARIABLES
    page,         \* Input.URL
    noCrossHost,  \* Input.NoCrossHost
    phase,        \* which loop reads
    base,         \* BaseURL
    ended,        \* the tokenizer is at the end of its input
    read,         \* history: the tokens so far
    body,         \* what was written: the token, its reference now and before
    links,        \* LinksDiscovered and LinksAssets
    crossRef,     \* the header that says that references name hosts
    docBase       \* history: what references are relative to in the original

input == <<page, noCrossHost>>
output == <<body, links, crossRef>>
vars == <<input, phase, base, ended, read, output, docBase>>

Phases == {"request", "html", "css", "script", "style", "returned"}

Init ==
    /\ page \in Pages
    /\ noCrossHost \in BOOLEAN
    /\ phase = "request"
    /\ base = page
    /\ ended = FALSE
    /\ read = <<>>
    /\ body = <<>>
    /\ links = [discovered |-> {}, assets |-> {}]
    /\ crossRef = FALSE
    /\ docBase = page

----------------------------------------------------------------------------
(* ProcessURL.                                                             *)

\* The rewriter knows hosts only, and a relative reference has none.
Rewritten(ref) ==
    IF ref.kind = "absolute" THEN Absolute(URL(Rewrites[ref.url.site], ref.url.path)) ELSE ref

FullURLOfPage(ref) == Resolve(page, Rewritten(ref))   \* mutant: BaseURL is forgotten

FullURL(ref) == Resolve(base, Rewritten(ref))

Processed(ref) ==
    IF Meaningful(ref) THEN Reduce(page, noCrossHost, FullURL(ref)) ELSE ref

Discovers(t) == t.tag \in {"a", "form", "location"} /\ t.attr # "style"

\* A page does not link to itself.
FoundIn(t) == IF Meaningful(t.ref) THEN {FullURL(t.ref)} \ {page} ELSE {}

WriteAs(t, ref) ==
    body' = Append(body, [token |-> t, ref |-> ref,
                          original |-> IF Meaningful(t.ref)
                                       THEN Resolve(docBase, Rewritten(t.ref))
                                       ELSE page])

WriteRaw(t) == WriteAs(t, t.ref) /\ UNCHANGED <<links, crossRef>>

WriteProcessed(t) ==
    /\ WriteAs(t, Processed(t.ref))
    /\ links' = IF Discovers(t)
                THEN [links EXCEPT !.discovered = @ \cup FoundIn(t)]
                ELSE [links EXCEPT !.assets = @ \cup FoundIn(t)]
    /\ crossRef' = (crossRef \/ (Meaningful(t.ref)
                                 /\ NeedsCrossHost(page, noCrossHost, FullURL(t.ref))))

----------------------------------------------------------------------------
(* The answer.                                                             *)

Enter(from, to) ==
    /\ phase = from
    /\ phase' = to
    /\ UNCHANGED input

\* No answer, an error status, or a type that is not parsed.
NothingToParse ==
    /\ Enter("request", "returned")
    /\ UNCHANGED <<base, ended, read, output, docBase>>

\* parseRedirect: a location that does not parse is not passed on.
Redirect(ref) ==
    /\ ref.kind # "invalid"
    /\ Enter("request", "returned")
    /\ WriteProcessed(LocationToken(ref))
    /\ UNCHANGED <<base, ended, read, docBase>>

ParseBody ==
    /\ Enter("request", "html") \/ Enter("request", "css")
    /\ UNCHANGED <<base, ended, read, output, docBase>>

\* An element with raw text may be closed beyond the bound.
Read(t, from, to) ==
    /\ ~ended
    /\ Len(read) < MaxTokens \/ (Closed /\ t.form = "end" /\ phase # "html")
    /\ Enter(from, to)
    /\ read' = Append(read, t)
    /\ UNCHANGED ended

----------------------------------------------------------------------------
(* The tokens of a page.                                                   *)

IsTag(t) == t.form \in {"start", "selfClosing"}

IsBase(t) == IsTag(t) /\ t.tag = "base" /\ t.attr = "href" /\ Meaningful(t.ref)

StartTags == {<<"a", "href">>, <<"form", "action">>, <<"script", "src">>}

HandlesTags(t) == t.form = "start" /\ <<t.tag, t.attr>> \in StartTags   \* mutant

\* The attributes that are processed.  Those of an image that are named data-*
\* must hold an absolute url.
Handles(t) ==
    \/ t.form = "start" /\ <<t.tag, t.attr>> \in StartTags
    \/ <<t.tag, t.attr>> \in {<<"img", "src">>, <<"link", "stylesheet">>}
    \/ t.tag = "img" /\ t.attr = "data" /\ t.ref.kind \in {"absolute", "foreign"}
    \/ t.attr = "style"

\* Elements whose text is read in a loop of its own: style, and a script whose
\* src was not rewritten.
Inline(t) ==
    /\ t.form = "start"
    /\ \/ t.tag = "style"
       \/ t.tag = "script" /\ (t.attr = "src" => Processed(t.ref) = t.ref)

\* In HTML the first base element counts.
NoteBase(t) ==
    docBase' = IF IsBase(t) /\ ~(\E i \in 1 .. Len(read) : IsBase(read[i]))
               THEN Resolve(page, t.ref)
               ELSE docBase

Tag(t) ==
    /\ IsTag(t) /\ ~Inline(t)
    /\ ~(IsBase(t) /\ t.form = "selfClosing")
    /\ Read(t, "html", "html")
    /\ IF Handles(t) THEN WriteProcessed(t) ELSE WriteRaw(t)
    /\ NoteBase(t)
    /\ UNCHANGED base

\* A base element is left out of the page, if it closes itself.
Base(t) ==
    /\ IsBase(t) /\ t.form = "selfClosing"
    /\ Read(t, "html", "html")
    /\ base' = Resolve(base, t.ref)
    /\ NoteBase(t)
    /\ UNCHANGED output

InlineTag(t) ==
    /\ Inline(t)
    /\ Read(t, "html", t.tag)
    /\ IF t.tag = "script" /\ t.attr = "src" THEN WriteProcessed(t) ELSE WriteRaw(t)
    /\ UNCHANGED <<base, docBase>>

\* Text and end tags.
Other(t) ==
    /\ ~IsTag(t) /\ t.attr = "none"
    /\ Read(t, "html", "html")
    /\ WriteRaw(t)
    /\ UNCHANGED <<base, docBase>>

FirstText(t) ==
    /\ t.form = "text" /\ phase \in {"script", "style"}
    /\ read[Len(read)].form # "text"

DropsScript(t) == t.attr # "getBase"   \* mutant: the others are dropped

\* parseBodyJsString: a script that looks for the base element.
Drops(t) == t.attr = "getBase"

ScriptText(t) ==
    /\ FirstText(t) /\ t.attr \in {"none", "getBase"}
    /\ Read(t, "script", "script")
    /\ IF Drops(t) THEN UNCHANGED output ELSE WriteRaw(t)
    /\ UNCHANGED <<base, docBase>>

\* A token of CSS in a style element or a style sheet: "style" is a url().
CSSToken(t) ==
    /\ t.form = "text" /\ t.attr \in {"none", "style"}
    /\ phase = "css" \/ FirstText(t)
    /\ Read(t, "css", "css") \/ Read(t, "style", "style")
    /\ IF t.attr = "style" THEN WriteProcessed(t) ELSE WriteRaw(t)
    /\ UNCHANGED <<base, docBase>>

EndInline(t) ==
    /\ t.form = "end" /\ t.tag = phase
    /\ Read(t, t.tag, "html")
    /\ WriteRaw(t)
    /\ UNCHANGED <<base, docBase>>

EndOfInput ==
    /\ ~ended
    /\ phase \in {"html", "css"} \cup (IF Closed THEN {} ELSE {"script", "style"})
    /\ ended' = TRUE
    /\ UNCHANGED <<input, phase, base, read, output, docBase>>

OnlyHTML == {"html"}   \* mutant: the scanner of CSS goes on at TokenEOF

\* The loops that look for the end of their input.
LoopsThatEnd == {"html", "css"}

Return ==
    /\ ended
    /\ \E from \in LoopsThatEnd : Enter(from, "returned")
    /\ UNCHANGED <<base, ended, read, output, docBase>>

Next ==
    \/ NothingToParse
    \/ \E ref \in Locations : Redirect(ref)
    \/ ParseBody
    \/ \E t \in Tokens :
          \/ Tag(t)
          \/ Base(t)
          \/ InlineTag(t)
          \/ Other(t)
          \/ ScriptText(t)
          \/ CSSToken(t)
          \/ EndInline(t)
    \/ EndOfInput
    \/ Return

Spec == Init /\ [][Next]_vars

\* An answer comes, at the latest with the client's timeout, its elements are
\* closed, its end is delivered, and the loops that look for it leave.
FairSpec ==
    /\ Spec
    /\ WF_vars(NothingToParse)
    /\ WF_vars(\E t \in Tokens : EndInline(t))
    /\ WF_vars(EndOfInput)
    /\ WF_vars(Return)

----------------------------------------------------------------------------
(* Properties.                                                             *)

Entries == [token : Tokens \cup {LocationToken(ref) : ref \in Locations},
            ref : References, original : URLSet]

\* Type invariant of a Downloaded that is being filled.
TypeOK ==
    /\ page \in Pages /\ base \in URLSet /\ docBase \in URLSet
    /\ noCrossHost \in BOOLEAN
    /\ phase \in Phases
    /\ ended \in BOOLEAN
    /\ read \in Seq(Tokens)
    /\ body \in Seq(Entries)
    /\ links \in [discovered : SUBSET URLSet, assets : SUBSET URLSet]
    /\ crossRef \in BOOLEAN

\* What holds a link: elements as HTML has them, CSS, and the header Location.  A
\* script or a style element is not shown and its style attribute means nothing.
HoldsLink(t) ==
    /\ Meaningful(t.ref)
    /\ \/ t.attr = "style" /\ ~(IsTag(t) /\ t.tag \in {"script", "style"})
       \/ t.tag = "location"
       \/ t.form = "start" /\ <<t.tag, t.attr>> \in StartTags
       \/ <<t.tag, t.attr>> \in {<<"img", "src">>, <<"link", "stylesheet">>}

\* There is one base element at most, and it closes itself.
PlainBase ==
    \A i, j \in 1 .. Len(read) :
        IsBase(read[i]) /\ IsBase(read[j]) => i = j /\ read[i].form = "selfClosing"

\* A page with references that name hosts is refused where one host is served (and
\* shown there right after a download of its own only, which Serving has); visitors
\* never ask for a url without a path: the server redirects.
ShownIn == {layout \in Layouts : page.path # <<>> /\ (crossRef => layout = "cross")}

\* https://host without a slash, in a page of that host.
BareHost(u) == u.site = page.site /\ u.path = <<>>

\* README.md, "a near exact web browsing experience": a visitor who follows a
\* reference of the page, wherever the mirror shows the page, comes to the mirror
\* of what the original reference means, or to that url itself.
LinksKept ==
    PlainBase =>
        \A i \in 1 .. Len(body), layout \in ShownIn :
            LET original == body[i].original
                followed == Resolve(Location(layout, page), body[i].ref)
            IN  HoldsLink(body[i].token) /\ ~(layout = "cross" /\ BareHost(original))
                    => Redirected(followed) \in {Home(original), Location(layout, original)}

\* README.md, "Links should be followed": what a page refers to is among the
\* links that the crawler gets, assets as such, unless it is the page itself.
LinksFollowed ==
    PlainBase =>
        \A i \in 1 .. Len(body) :
            LET t == body[i].token
                found == IF t.tag \in {"a", "form", "location"} /\ t.attr # "style"
                         THEN links.discovered ELSE links.assets
            IN  HoldsLink(t) => body[i].original \in found \cup {page}

\* Base elements that close themselves and scripts that look for one are left out.
IsKept(t) == t.attr # "getBase" /\ ~(IsBase(t) /\ t.form = "selfClosing")

Kept(tokens) ==
    LET kept[n \in 0 .. Len(tokens)] ==
            IF n = 0 THEN <<>>
            ELSE IF IsKept(tokens[n]) THEN Append(kept[n - 1], tokens[n])
            ELSE kept[n - 1]
    IN  kept[Len(tokens)]

\* Nothing else of a page is lost, and nothing is doubled or moved.
KeptInOrder ==
    phase # "request" /\ read # <<>> =>
        [i \in 1 .. Len(body) |-> body[i].token] = Kept(read)

\* download.go, "Download returns parsed data": it returns whatever the input is.
DownloadReturns == <>(phase = "returned")

============================================================================
