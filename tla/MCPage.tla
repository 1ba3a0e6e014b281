------------------------------- MODULE MCPage -------------------------------
(* Instances of Page for TLC.                                              *)
EXTENDS Page

Site(scheme, host) == [scheme |-> scheme, host |-> host]
This == Site("https", "this")
Plain == Site("http", "this")
Old == Site("https", "old")
Far == Site("https", "far")

AllSites == {This, Plain, Old, Far}
CrossSite == Site("http", "cross.localhost")
OldToThis == [s \in AllSites |-> IF s = Old THEN This ELSE s]

AllNames == {"", "x", "y", "z"}
                \cup {s.scheme : s \in AllSites} \cup {s.host : s \in AllSites}

\* No path, the root, a directory and a file in one.
SomePages == {URL(This, p) : p \in {<<>>, <<"">>, <<"x", "">>, <<"x", "y">>}}

Refs == {Relative(0, <<"y">>), Relative(1, <<"z", "">>), Rooted(<<"x", "y", "z">>),
         Absolute(URL(This, <<>>)), Absolute(URL(Plain, <<"x">>)),
         Absolute(URL(Old, <<"x", "y">>)), Absolute(URL(Far, <<>>)), Foreign, Invalid}

Text(attr, ref) == Token("text", "text", attr, ref)

SomeTokens ==
    {Token("a", "start", "href", r) : r \in Refs \ {Foreign}}
        \cup {Token("form", "start", "action", Relative(1, <<"y">>))}
        \cup {Token("script", "start", "src", r) : r \in {Relative(0, <<"y">>), Foreign}}
        \cup {Token("img", "start", "src", Relative(1, <<"x">>)),
              Token("img", "selfClosing", "data", Relative(0, <<"x">>)),
              Token("img", "selfClosing", "data", Absolute(URL(Far, <<"x">>)))}
        \cup {Token("link", "selfClosing", "stylesheet", Rooted(<<"x">>))}
        \cup {Token("other", "start", "style", Relative(0, <<"x">>))}
        \cup {Token("base", "start", "href", Rooted(<<"z", "">>)),
              Token("base", "selfClosing", "href", Absolute(URL(Far, <<"z", "">>))),
              Token("base", "selfClosing", "none", Invalid)}
        \cup {Token(t, f, "none", Invalid) : t \in {"script", "style"}, f \in {"start", "end"}}
        \cup {Text("none", Invalid), Text("getBase", Invalid),
              Text("style", Rooted(<<"x">>)), Text("style", Absolute(URL(Far, <<"y">>)))}

\* A script, its text and its end.
ScriptTokens ==
    {Token("script", f, "none", Invalid) : f \in {"start", "end"}} \cup {Text("none", Invalid)}

============================================================================
