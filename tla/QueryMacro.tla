------------------------------ MODULE QueryMacro ------------------------------
(* #[query]: the checks on a function's signature, the sorting of its        *)
(* parameters, and the function put in its place, which makes the arguments  *)
(* into the key of a node and hands the body to that node as its tenant.     *)
(* A value is bound to the body by its place in the key; the receiver, if    *)
(* any, takes the first place there, and reaches the body by capture.        *)
EXTENDS Naturals, Sequences, FiniteSets

CONSTANTS
    Headers,    \* item kinds and qualifiers: [item, unsupported, isAsync, impls]
    Forms,      \* forms a parameter may be written in
    MaxParams,  \* bound: parameters of a function
    Values,     \* values of an argument
    MaxCalls    \* bound: calls of the generated function

(* How syn sorts parameters and their patterns.                              *)
ASSUME MacroAssumption ==
    /\ \A h \in Headers : h.impls \in Nat
    /\ \A p \in Forms :
          \/ p.kind = "receiver"
          \/ /\ p.kind = "typed" /\ p.attr \in BOOLEAN /\ p.impl \in BOOLEAN
             /\ p.pat \in {"name", "self", "wild", "other"}
    /\ MaxParams \in Nat

VARIABLES
    header,     \* the function's item kind and qualifiers
    inputs,     \* its parameters, as written
    stage,      \* how far the expansion is
    params,     \* Parameters
    calls,      \* arguments of the calls made so far
    nodes,      \* by key: the tenant of the call that spawned the node
    seen        \* what the body saw in each call

macroVars == <<header, inputs, stage, params, calls, nodes, seen>>

(* syn gives a bare self as a Receiver and `self: T` as a typed pattern.     *)
IsReceiver(p) == p.kind = "receiver"
NamedSelf(p)  == p.kind = "typed" /\ p.pat = "self"

NoParams == [receiver |-> <<>>, common |-> <<>>]

MacroInit ==
    /\ header \in Headers
    /\ inputs \in UNION {[1 .. n -> Forms] : n \in 0 .. MaxParams}
    /\ stage = "item"
    /\ params = NoParams
    /\ calls = <<>>
    /\ nodes = <<>>
    /\ seen = <<>>

-----------------------------------------------------------------------------
(* Mutant: the return type is not looked at.                                 *)
SanityErrorsNoOutput == header.unsupported \cup IF header.isAsync THEN {} ELSE {"not async"}

(* All of these are collected before the expansion gives up.                 *)
SanityErrors ==
    header.unsupported
        \cup (IF header.isAsync THEN {} ELSE {"not async"})
        \cup (IF header.impls > 0 THEN {"impl Trait"} ELSE {})

CheckItem ==
    /\ stage = "item"
    /\ stage' = IF header.item = "fn" /\ SanityErrors = {} THEN "checked" ELSE "rejected"
    /\ UNCHANGED <<header, inputs, params, calls, nodes, seen>>

(* process_pat, in the order of its returns.                                 *)
PatternError(p) ==
    CASE p.attr                  -> "Attribute"
      [] ~p.attr /\ p.impl       -> "ImplTrait"
      [] ~p.attr /\ ~p.impl /\ p.pat = "wild"  -> "WildcardPattern"
      [] ~p.attr /\ ~p.impl /\ p.pat = "other" -> "PatternDestructuring"
      [] OTHER                   -> "none"

(* The first parameter may be a receiver, written either way.                *)
ParamError(n) ==
    IF IsReceiver(inputs[n])
       THEN IF n = 1 THEN "none" ELSE "UnexpectedSelf"
       ELSE PatternError(inputs[n])

HasReceiver == inputs # <<>> /\ (IsReceiver(inputs[1]) \/ NamedSelf(inputs[1]))

(* Everything after the receiver, the context at the end.                    *)
Rest == IF HasReceiver THEN Tail(inputs) ELSE inputs

(* collect stops at the first error; then the context is popped.             *)
FromInputsError ==
    LET bad == {n \in DOMAIN inputs : ParamError(n) # "none"}
    IN  IF bad # {} THEN ParamError(CHOOSE n \in bad : \A k \in bad : n <= k)
        ELSE IF Rest = <<>> THEN "MissingContext" ELSE "none"

FromInputs ==
    /\ stage = "checked"
    /\ IF FromInputsError = "none"
          THEN /\ params' = [receiver |-> IF HasReceiver THEN <<inputs[1]>> ELSE <<>>,
                             common   |-> SubSeq(Rest, 1, Len(Rest) - 1)]
               /\ stage' = "expanded"
          ELSE stage' = "rejected" /\ UNCHANGED params
    /\ UNCHANGED <<header, inputs, calls, nodes, seen>>

-----------------------------------------------------------------------------
(* The generated function.                                                   *)

ReceiverLen == Len(params.receiver)
CommonLen   == Len(params.common)

(* __input: a clone of self, then the common arguments by name.              *)
InputOf(args) ==
    SubSeq(args, 1, ReceiverLen) \o SubSeq(args, ReceiverLen + 1, ReceiverLen + CommonLen)

(* Mutant: the places are counted from the start of the key.                 *)
BodyBindingFromZero(captured, input) ==
    [self |-> captured, common |-> [k \in 1 .. CommonLen |-> input[k]]]

(* __tenant: common parameter k takes input.(start + k).                     *)
BodyBinding(captured, input) ==
    LET start == IF ReceiverLen > 0 THEN 1 ELSE 0
    IN  [self |-> captured, common |-> [k \in 1 .. CommonLen |-> input[start + k]]]

Captured(args) == SubSeq(args, 1, ReceiverLen)

(* Mutant: every call spawns a node of its own.                              *)
CallAlone(args) ==
    /\ stage = "expanded"
    /\ Len(calls) < MaxCalls
    /\ nodes' = Append(nodes, [input |-> InputOf(args), captured |-> Captured(args)])
    /\ seen' = Append(seen, BodyBinding(Captured(args), InputOf(args)))
    /\ calls' = Append(calls, args)
    /\ UNCHANGED <<header, inputs, stage, params>>

(* The executor finds the node of the input or spawns it with this call's    *)
(* tenant; the node runs the tenant it was spawned with.                     *)
Call(args) ==
    /\ stage = "expanded"
    /\ Len(calls) < MaxCalls
    /\ LET input == InputOf(args)
           spawns == \A n \in DOMAIN nodes : nodes[n].input # input
           node == IF spawns THEN [input |-> input, captured |-> Captured(args)]
                   ELSE nodes[CHOOSE n \in DOMAIN nodes : nodes[n].input = input]
       IN  /\ nodes' = IF spawns THEN Append(nodes, node) ELSE nodes
           /\ seen' = Append(seen, BodyBinding(node.captured, node.input))
    /\ calls' = Append(calls, args)
    /\ UNCHANGED <<header, inputs, stage, params>>

MacroNext ==
    \/ CheckItem \/ FromInputs
    \/ \E args \in [1 .. ReceiverLen + CommonLen -> Values] : Call(args)

MacroSpec == MacroInit /\ [][MacroNext]_macroVars

-----------------------------------------------------------------------------
(* What #[query] accepts: an async function with no qualifier it does not    *)
(* support and no impl Trait, whose only bare self comes first, whose other  *)
(* parameters are plain names, and which has a context after the receiver.   *)
Supported ==
    /\ header.item = "fn" /\ header.unsupported = {}
    /\ header.isAsync /\ header.impls = 0
    /\ \A n \in DOMAIN inputs :
          \/ IsReceiver(inputs[n]) /\ n = 1
          \/ ~IsReceiver(inputs[n]) /\ ~inputs[n].attr /\ ~inputs[n].impl
             /\ inputs[n].pat \in {"name", "self"}
    /\ \E n \in DOMAIN inputs : ~IsReceiver(inputs[n]) /\ ~(n = 1 /\ NamedSelf(inputs[n]))

(* The macro goes by that: nothing unsupported slips through one of its      *)
(* early returns, nothing supported is refused, and the arguments are all    *)
(* parameters but the last, the receiver included.                           *)
AcceptsSupported ==
    /\ stage = "rejected" => ~Supported
    /\ stage = "expanded" => Supported /\ ReceiverLen + CommonLen = Len(inputs) - 1

(* A query is a pure function of its arguments: whatever node runs it, with  *)
(* the tenant of an earlier call, the body sees the arguments of this call.  *)
BodySeesArguments ==
    \A n \in DOMAIN calls :
        seen[n].self \o seen[n].common = calls[n]

(* "each node corresponds to query + set of arguments" (salvia_macro/src/lib.rs:278):   *)
(* two calls share a node if and only if all their arguments are the same.   *)
OneNodePerArguments ==
    Len(nodes) = Cardinality({calls[n] : n \in DOMAIN calls})

(* Nodes stand for arguments, whichever call spawned the node that runs one. *)
NodesStandForArguments == OneNodePerArguments /\ BodySeesArguments
=============================================================================
