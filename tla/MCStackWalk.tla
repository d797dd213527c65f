----------------------------- MODULE MCStackWalk ------------------------------
(* A root stack, a stack nested in it, and one nested in that. *)
EXTENDS StackWalk

TreeSlots == {<<"root", "n">>, <<"child", "n">>, <<"grandchild", "a">>}
TreeChild == [r \in {<<"root", "n">>, <<"child", "n">>} |->
                IF r[1] = "root" THEN "child" ELSE "grandchild"]
==============================================================================
