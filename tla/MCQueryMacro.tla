----------------------------- MODULE MCQueryMacro -----------------------------
(* A small instance of QueryMacro for TLC.                                   *)
EXTENDS QueryMacro

Receiver(ref, mutable) == [kind |-> "receiver", ref |-> ref, mutable |-> mutable]
Typed(pat, attr, impl) == [kind |-> "typed", pat |-> pat, attr |-> attr, impl |-> impl]

(* self, mut self, &mut self; names, `self: T`, and what is not supported.   *)
SomeForms ==
    {Receiver(FALSE, FALSE), Receiver(FALSE, TRUE), Receiver(TRUE, TRUE),
     Typed("name", FALSE, FALSE), Typed("self", FALSE, FALSE),
     Typed("name", TRUE, TRUE), Typed("name", FALSE, TRUE),
     Typed("wild", FALSE, FALSE), Typed("other", FALSE, FALSE)}

Header(item, unsupported, isAsync, impls) ==
    [item |-> item, unsupported |-> unsupported, isAsync |-> isAsync, impls |-> impls]

SomeHeaders ==
    {Header("fn", {}, TRUE, 0), Header("struct", {}, TRUE, 0),
     Header("fn", {"const", "unsafe"}, TRUE, 0), Header("fn", {"extern", "variadic"}, FALSE, 0),
     Header("fn", {}, FALSE, 0), Header("fn", {}, TRUE, 1)}
=============================================================================
