-------------------------- MODULE MCAuthorization --------------------------
(* Model-checking instances of Authorization. *)
EXTENDS Authorization

CONSTANTS me, dev, s1, s2, web, root, app, bare

Grant(sub, tgt, principals, caps, ttl, full) ==
  [subject |-> sub, target |-> tgt, principals |-> principals, caps |-> caps,
   ttl |-> ttl, full |-> full]

\* Two direct grants an update can turn into each other, and a group-to-group
\* grant; two of them ask for full recording.
GrantCatalog ==
  {Grant(me, s1, {root}, {"shell"}, 0, FALSE),
   Grant(me, s1, {app}, {"exec"}, 1, TRUE),
   Grant(dev, web, {root, app}, {"sftp"}, 2, TRUE)}

AllowCatalog == {{}, {app}}
=============================================================================
