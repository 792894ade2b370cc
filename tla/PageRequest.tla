---------------------------- MODULE PageRequest ----------------------------
(* A GET that a page has under way: Asked, then what the server answers.   *)
CONSTANTS
    Asked,   \* a request the server has not answered
    None     \* no request, no object

Answered(r) == r \notin {Asked, None}

=============================================================================
