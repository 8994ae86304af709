----------------------------- MODULE MCToolGate -----------------------------
(* A small instance of ToolGate: one sub-agent, batches of two, a call of each *)
(* kind the policy tells apart, and four postures, each looser than the last.  *)
EXTENDS ToolGate

Made(t, d, i, p) == [tool |-> t, danger |-> d, install |-> i, path |-> p]
MCCalls == {Made("Read", FALSE, None, "secret"), Made("task", FALSE, None, "plain"),
            Made("Edit", FALSE, None, "written"),
            Made("Bash", FALSE, None, "plain"), Made("Bash", TRUE, None, "plain"),
            Made("Bash", FALSE, "left", "plain")}

NoOver == [t \in Tools |-> None]
Under(m, o, c, b) == [mode |-> m, over |-> o, confirm |-> c, banned |-> b, deps |-> TRUE,
                      prompter |-> TRUE]
MCPostures == {Under("ask", NoOver, {}, {}),
               Under("allow", NoOver, {"Read"}, {}),
               Under("autonomous", [NoOver EXCEPT !["Bash"] = "ask"], {}, {"Edit"}),
               [Under("bypass", NoOver, {}, {}) EXCEPT !.prompter = FALSE]}
=============================================================================
