----------------------------- MODULE MCDwfilter ----------------------------
(* Calls of dwdiff and dwfilter for TLC: every sequence of up to three of  *)
(* a choice of options, with several .dwdiffrc files.                      *)
EXTENDS Dwfilter

O(name) == [name |-> name, value |-> ""]
V(name, value) == [name |-> name, value |-> value]

MCSpaces == {9, 32}
MCPunctuation == {44, 46}

Missing == [errno |-> "ENOENT", lines |-> << >>]
Unreadable == [errno |-> "EACCES", lines |-> << >>]
NoHome == [errno |-> "no home directory", lines |-> << >>]
File(lines) == [errno |-> "none", lines |-> lines]

(* Two profiles, one of them in two parts, and an option before any header *)
Rc == File(<<V("algorithm", "fast"), V("[]", "default"), O("no_deleted"),
             V("start_delete", "<"), V("algorithm", "best"),
             V("[]", "p"), O("color"), V("match_context", 3),
             V("[]", "default"), V("algorithm", "fast")>>)
RcText == File(<<V("[]", "p"), O("no_common"), O("statistics"), O("paragraph_separator"),
                 V("[]", "default"), O("repeat_markers"), O("line_numbers"),
                 V("white_space", {9}), V("white_space", {32, 44})>>)

RcParts == File(<<V("[]", "default"), O("no_common"), O("printer"),
                  O("paragraph_separator"), O("color")>>)

UpTo(n, S) == UNION {[1..k -> S] : k \in 0..n}

Printing == {O("no_deleted"), O("no_inserted"), O("no_common"), V("start_delete", "-"),
             O("color"), V("algorithm", "best"),
             V("profile", "p"), O("no_profile")}
Characters == {V("delimiters", {32}), V("delimiters", {44, 120}), O("punctuation"),
               V("white_space", {9, 32}), V("white_space", {46}), O("wdiff_output")}
Others == {O("diff_input"), O("help"), O("reverse"), O("printer"), V("profile", "none"),
           V("context", 0), V("context", -1), V("match_context", 2), O("autopager"), O("ignore_formatting"), O("version")}
FileLists == {<<"a", "b">>, <<"-", "b">>, <<"a", "-">>, <<"-", "-">>, <<"a">>, << >>,
              <<"-">>, <<"a", "b", "c">>}

Call(program, options, files, rc) ==
    [program |-> program, options |-> options, files |-> files, dwdiffrc |-> rc]

DwdiffCalls ==
    {Call("dwdiff", o, <<"a", "b">>, rc) : o \in UpTo(3, Printing), rc \in {Rc, Missing}}
    \cup {Call("dwdiff", o, <<"a", "b">>, rc) :
             o \in UpTo(3, Characters), rc \in {Missing, RcText}}
    \cup {Call("dwdiff", o, f, rc) :
             o \in UpTo(1, Others), f \in FileLists, rc \in {Rc, Unreadable, NoHome}}

DwfilterOptions == {O("reverse"), V("profile", "p"), O("no_profile"), V("algorithm", "best"),
                    O("ignore_formatting"), O("color"), O("help"), V("context", 1)}

DwfilterCalls ==
    {Call("dwfilter", o, <<"a", "b", "post">>, rc) :
        o \in UpTo(2, DwfilterOptions), rc \in {Missing, Rc}}
    \cup {Call("dwfilter", o, <<"a", "b", "post">>, RcParts) : o \in UpTo(1, DwfilterOptions)}
    \cup {Call("dwfilter", o, f, rc) :
             o \in UpTo(1, DwfilterOptions),
             f \in {<<"-", "b", "post">>, <<"a", "-", "post">>, <<"-", "-", "post">>, <<"a", "b">>},
             rc \in {Rc, RcText}}

MCCommands == DwdiffCalls \cup DwfilterCalls

(* The plain call, without anything that could change what it promises     *)
PlainCalls == {Call("dwfilter", << >>, <<"a", "b", "post">>, Missing),
               Call("dwfilter", <<O("reverse")>>, <<"a", "b", "post">>, Missing)}
=============================================================================
