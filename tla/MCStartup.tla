------------------------------ MODULE MCStartup ------------------------------
(* Startup with SKIs of two digits and ports up to 3.                        *)
EXTENDS Startup, SequencesExt

Spellings(chars, n) == BoundedSeq(chars, n)
Skis == Spellings({"a", "A", " ", ":"}, 4) \union Spellings({"b", "g", "tab", "-"}, 2)

OnFile == [Default EXCEPT !.serial = <<"b">>]

(* One option at a time in every form, and two remotes in some.              *)
MCOptionFiles ==
    {[OnFile EXCEPT !.file = f] : f \in {"missing", "unreadable", "garbage"}}
    \union {[OnFile EXCEPT !.apiPort = p, !.eebusPort = q] : p, q \in 0 .. 4}
    \union {[OnFile EXCEPT !.inverter = s] : s \in Skis}
    \union {[Default EXCEPT !.trusted = <<<<"a", ":", "b">>, s>>, !.inverter = s] :
                s \in Spellings({"a", "A", "b", "-"}, 3)}
MCRequests == {<<"a", "b">>, <<"A", "-", "b">>, <<"tab", "a", "a">>, <<"a">>, <<"a", "g">>}
MCHost == <<"a", "g", "-">>

(* Selecting by positions is SelectSeq.                                      *)
ASSUME CompactAssumption ==
    \A s \in Skis : Compact(s) = SelectSeq(s, LAMBDA c : ~Separator(c))
==============================================================================
