------------------------------- MODULE Hooks -------------------------------
(***************************************************************************)
(* packages/cw-hooks: an ordered list of hook receivers without            *)
(* duplicates.  Indices are the code's, from zero.                         *)
(***************************************************************************)
EXTENDS Integers, SequencesExt

\* The condition on which add_hook does not return HookAlreadyRegistered.
can_add_hook(hooks, addr) == ~Contains(hooks, addr)

\* add_hook
add_hook(hooks, addr) == Append(hooks, addr)

\* The condition on which remove_hook does not return HookNotRegistered.
can_remove_hook(hooks, addr) == Contains(hooks, addr)

\* remove_hook
remove_hook(hooks, addr) == RemoveAt(hooks, CHOOSE i \in DOMAIN hooks : hooks[i] = addr)

\* Vec::remove panics when the index is not below the length.
can_remove_hook_by_index(hooks, index) == index < Len(hooks)

\* remove_hook_by_index
remove_hook_by_index(hooks, index) == RemoveAt(hooks, index + 1)

\* prepare_hooks: one message per receiver, in order; prep is the function that
\* makes it from the receiver and its index.
prepare_hooks(hooks, prep) == [i \in DOMAIN hooks |-> prep[<<hooks[i], i - 1>>]]
=============================================================================
