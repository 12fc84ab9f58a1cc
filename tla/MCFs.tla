-------------------------------- MODULE MCFs --------------------------------
(* Instances of Fs for TLC. *)
EXTENDS Fs, TLC

Symm == Permutations(Proc)

Call(op, abs, path) == [op |-> op, abs |-> abs, path |-> path, newabs |-> FALSE, new |-> <<>>]
Link(path, new) == [Call("link", FALSE, path) EXCEPT !.new = new]

(* The image of mkfs with one file, and one on which an earlier session has *)
(* made a directory and lost a file that was open: its inode has no links.  *)
Made1 == Mkfs(<<"a">>)
Dir2(im) ==
  LET ip == DotLink(Fresh("dir"), im.used, 3, ROOTINO)
      dp == DirLink(im.inode[ROOTINO], ip.used, "d", 3)
  IN [inode |-> [im.inode EXCEPT ![3] = ip.ip, ![ROOTINO] = [dp.ip EXCEPT !.nlink = 2]],
      used |-> dp.used]
Lost2(im) == [im EXCEPT !.inode[2].nlink = 0, !.inode[ROOTINO].dir["a"] = 0]
SmallImages == {Dir2(Made1), Lost2(Dir2(Made1))}

SmallCalls ==
  { Call("creat", FALSE, <<"a">>), Call("creat", TRUE, <<"d", "a">>),
    Call("mkdir", TRUE, <<"d", "d">>),
    Call("unlink", FALSE, <<"d">>), Call("unlink", TRUE, <<"a">>), Call("unlink", FALSE, <<"d", "a">>),
    Call("chdir", FALSE, <<"d">>), Call("chdir", FALSE, <<"..">>),
    Call("trunc", FALSE, <<"a">>),
    Link(<<"a">>, <<"d", "d">>) }
=============================================================================
