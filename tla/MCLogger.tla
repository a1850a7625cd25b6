------------------------------ MODULE MCLogger ------------------------------
(* The logger with two bits: trace, whose value is 1 and which the logger's *)
(* own messages have, and error, which those of the callers have.           *)
EXTENDS Logger
MCLevels == {{"error"}}
MCFilters == {{"trace"}, {"error"}}
=============================================================================
