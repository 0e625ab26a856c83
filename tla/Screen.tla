-------------------------------- MODULE Screen --------------------------------
(* What the screens of the browser share: values no cell, column, row or page   *)
(* has.                                                                         *)

CONSTANTS
    Closed,      \* the state of a screen that is not on the page
    Null,        \* an empty cell
    NoField, NoRow

\* What has been asked for and is not answered yet.
Asked == Null

===============================================================================
