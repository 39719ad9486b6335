------------------------------ MODULE MCGuiIpc ------------------------------
(***************************************************************************)
(* A model without EMPDAG, one with an empty EMPDAG, one whose MPs fit one *)
(* chunk, one with a Nash node, one with two chunks of which the first, a  *)
(* full one, overruns the GUI's buffer.                                    *)
(***************************************************************************)
EXTENDS GuiIpc

MCModels == { [id |-> 0, dag |-> FALSE, mps |-> 0, nashs |-> 0],
              [id |-> 0, dag |-> TRUE,  mps |-> 0, nashs |-> 0],
              [id |-> 1, dag |-> TRUE,  mps |-> 2, nashs |-> 0],
              [id |-> 0, dag |-> TRUE,  mps |-> 1, nashs |-> 1],
              [id |-> 0, dag |-> TRUE,  mps |-> 5, nashs |-> 0] }

=============================================================================
