-------------------------- MODULE MCAuditdAssembly --------------------------
(***************************************************************************)
(* System calls alone and in pairs: two boots of one host that reach the   *)
(* same audit serial, two hosts, a failed call and a read beside calls     *)
(* that changed files, names moved and removed, lab keys and another key.  *)
(***************************************************************************)
EXTENDS AuditdAssembly

CONSTANTS h, g

Path(name, nametype) == [name |-> name, nametype |-> nametype]
Call(host, epoch, serial, key, name, success, target, paths) ==
  [host |-> host, epoch |-> epoch, serial |-> serial, key |-> key, name |-> name,
   success |-> success, target |-> target, paths |-> paths]

Created(dir, file) == {Path(dir, "PARENT"), Path(file, "CREATE")}
Existing(file) == {Path(file, "NORMAL")}
AuthorizedKeys == "/u/.ssh/authorized_keys"

Marker == Call(h, 1, 10, "isl_tmp_marker", "mkdir", TRUE, "/tmp/m", Created("/tmp", "/tmp/m"))
Opened == Call(h, 1, 10, "isl_tmp_marker", "open for writing", TRUE, "/tmp/m", Existing("/tmp/m"))
Reboot == Call(h, 2, 10, "isl_tmp_marker", "open for writing", TRUE, "/tmp/n", Existing("/tmp/n"))
Failed == Call(g, 1, 10, "isl_tmp_marker", "chmod", FALSE, "/tmp/m", Existing("/tmp/m"))
Runs == Call(h, 1, 9, "isl_execve", "execve", TRUE, None, Existing("/bin/tar"))
Keys == Call(h, 1, 10, "isl_ssh_persistence", "chmod", TRUE, AuthorizedKeys, Existing(AuthorizedKeys))
Elsewhere == Call(h, 1, 11, "isl_ssh_persistence", "chmod", TRUE, "/u/a", Existing("/u/a"))
Read == Call(h, 1, 12, "isl_tmp_marker", "open", TRUE, "/tmp/m", Existing("/tmp/m"))
RunFails == Call(g, 1, 11, "isl_execve", "execve", FALSE, None, Existing("/bin/no"))
Mode == Call(g, 1, 12, "isl_tmp_marker", "chmod", TRUE, "/tmp/m", Existing("/tmp/m"))
Gone == Call(g, 1, 13, "isl_tmp_marker", "unlinkat", TRUE, "/tmp/m",
             {Path("/tmp", "PARENT"), Path("/tmp/m", "DELETE")})
Shifted == Call(g, 1, 14, "isl_ssh_persistence", "renameat2", TRUE, AuthorizedKeys,
                {Path("/u/k", "DELETE"), Path(AuthorizedKeys, "CREATE")})
Foreign == Call(h, 1, 13, "other", "open for writing", TRUE, "/d", Existing("/d"))
Unlinked == Call(h, 1, 9, "isl_tmp_marker", "unlink", TRUE, "/tmp/m",
                 {Path("/tmp", "PARENT"), Path("/tmp/m", "DELETE")})
Removed == Call(h, 1, 9, "isl_ssh_persistence", "unlink", TRUE, AuthorizedKeys,
                {Path("/u/.ssh", "PARENT"), Path(AuthorizedKeys, "DELETE")})
Moved == Call(g, 1, 8, "isl_tmp_marker", "rename", TRUE, "/tmp/o",
              {Path("/tmp/m", "DELETE"), Path("/tmp/o", "CREATE")})
Installed == Call(g, 1, 9, "isl_ssh_persistence", "rename", TRUE, AuthorizedKeys,
                  {Path("/u/k", "DELETE"), Path(AuthorizedKeys, "CREATE")})

MCWorlds == {{Opened, Reboot}, {Opened, Failed}, {Keys, Elsewhere}, {Foreign, Read},
             {Runs}, {RunFails}, {Mode}, {Gone}, {Shifted}, {Marker}, {Unlinked}, {Removed}, {Moved}, {Installed}}
MCDeletions == {{Unlinked}}
MCSshNames == {AuthorizedKeys}
=============================================================================
