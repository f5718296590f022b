------------------------------- MODULE MCConsole -------------------------------
(* A console with two rows of everything, and room for a third. *)
EXTENDS Console

CONSTANTS r1, r2, r3

MCRows == {r1, r2, r3}

MCSpare == {r3}

MCMaxClicks ==
    [p \in {"keys", "accounts", "sheet", "pool", "export", "add", "overview", "models",
            "prices", "usage", "shell", "docs", "settings"} \cup NAV |-> 2]
=============================================================================
