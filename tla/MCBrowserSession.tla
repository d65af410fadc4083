-------------------------- MODULE MCBrowserSession --------------------------
(* One session with traffic and one beside it; a submit that waits and one that
   does not.                                                                   *)
EXTENDS BrowserSession

CONSTANTS main, side, waited, detached, r1

TheRoles == {main, side}
OneRole == {main}
TheFrames == {waited, detached}
TheWaited == {waited}
NoFrames == {}
TheDetached == {detached}
TheReaders == {r1}
TheWindows == {1}

\* The operation of the detached submit also tells its lifecycle.
TheEvents ==
  [kind : {"result"}, frame : TheFrames, number : 1..MaxSent]
    \cup [kind : {"drop", "lifecycle"}, frame : {detached}, number : 1..MaxSent]
    \cup [kind : {"flow"}, credits : TheWindows, number : 1..MaxSent]
=============================================================================
