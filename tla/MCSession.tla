------------------------------ MODULE MCSession -----------------------------
EXTENDS Session

(* Every combination of producers; what the tests print, the damaged       *)
(* sources and the policies are varied where they meet different code.     *)
AllRequests ==
  [need : {{"c0", "ast"}}, entities : {TRUE}, testFiles : {TRUE},
   unparsable : {FALSE}, lines : {{"fail"}}, timeout : {FALSE},
   record : {FALSE}, save : {TRUE}, strict : {FALSE}, threshold : {FALSE}]
  \union
  [need : {{"ast", "compiler"}}, entities : {TRUE}, testFiles : {FALSE},
   unparsable : {FALSE}, lines : {{"test", "runtime"}}, timeout : {TRUE},
   record : {TRUE}, save : {FALSE}, strict : {FALSE}, threshold : {FALSE}]
  \union
  [need : {{"c0"}}, entities : {FALSE}, testFiles : {TRUE},
   unparsable : BOOLEAN, lines : {{"build", "timeout", "cover"}},
   timeout : {TRUE}, record : {FALSE}, save : {FALSE}, strict : {TRUE},
   threshold : {TRUE}]
=============================================================================
