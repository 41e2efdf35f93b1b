---------------------------- MODULE MCAcpCommand ----------------------------
(* Instances of AcpCommand. *)
EXTENDS AcpCommand
CONSTANTS a, b, o

Cmd(kind) == [kind |-> kind, object |-> o]
String(actor, cmd, issued, delta, form) ==
    [actor |-> actor, cmd |-> cmd, issued |-> issued, delta |-> delta, form |-> form]
(* Commands that can be undone and done again, one that is issued ahead of *)
(* its height, and one whose expiry wraps.                                 *)
Submitted ==
    {String(a, Cmd("archive"), 1, 1, "json"),
     String(a, Cmd("unarchive"), 1, 0, "json"),
     String(b, Cmd("register"), 15, 2, "json"),
     String(b, [kind |-> "reveal", commitment |-> 1, object |-> o], 1, 1, "json"),
     String(b, [kind |-> "commit", leaves |-> {<<b, o>>}], 1, 0, "json"),
     String(b, [kind |-> "flag", event |-> 1], 2, 1, "json")}
(* One payload in two forms. *)
TwoForms == {String(a, Cmd("archive"), 1, 1, form) : form \in {"json", "compact"}}
(* Each actor may claim the object. *)
OwnClaims == {{<<a, o>>}, {<<b, o>>}}
(* The validity and the largest delta change together. *)
TwoParams ==
    {<<[unit |-> "blocks", length |-> 1], 1>>, <<[unit |-> "time", length |-> 1], 2>>}
BlocksOrTime == {p[1] : p \in TwoParams}
=============================================================================
