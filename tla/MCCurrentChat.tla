---------------------------- MODULE MCCurrentChat ----------------------------
(* A small instance of CurrentChat: two saved chats and the name of a third. *)
EXTENDS CurrentChat

MCConfs == {{"says", "prompts"}, {"names", "elsewhere"}, {"names", "drivers"}, {"drivers", "egress"},
            {"uploads"}, {"pages"}}
=============================================================================
