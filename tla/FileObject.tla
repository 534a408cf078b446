----------------------------- MODULE FileObject -----------------------------
(***************************************************************************)
(* The File objects of a script (v8/file.cpp) over a file system that      *)
(* other processes change too.  An object keeps a path, the attributes of  *)
(* its last stat and a stdio stream; a file is an inode, which a path may  *)
(* stop to name while a stream is still open on it.  Of the contents the   *)
(* model keeps the length, of uid, gid and the dates nothing: stat sets    *)
(* them together with the size.  Where a stream stands is left out.        *)
(***************************************************************************)
EXTENDS FileLength

CONSTANTS
    Objs,     \* the File objects
    Paths,    \* the paths a script uses
    Inodes,   \* bound: the files and directories there is room for
    Dirs,     \* those of Inodes that are directories
    Guarded,  \* the paths whose permissions change
    Tilde,    \* the paths that begin with a tilde
    Home,     \* what those stand for
    Sizes,    \* bound: how long a file may be
    Streams,  \* bound: the streams that can be open; the memory fclose frees is used again
    Std,      \* the stream of stdin, stdout or stderr
    None      \* no inode, no stream, no object, and the path of a File of Std

ASSUME InodesAssumption == Dirs \subseteq Inodes /\ None \notin Inodes
ASSUME StreamsAssumption == Std \in Streams /\ None \notin Streams
ASSUME PathsAssumption == None \notin Paths /\ Guarded \subseteq Paths
ASSUME TildeAssumption == Tilde \subseteq Paths /\ Home \in Paths \ Tilde
ASSUME SizesAssumption == 0 \in Sizes /\ Sizes \subseteq Nat
ASSUME ObjsAssumption == None \notin Objs

VARIABLES
    link,     \* the file system: the inode a path names
    size,     \* the length of each inode
    denied,   \* the paths binjs may neither look up nor open
    live,     \* the objects the script has
    path,     \* file.path
    attr,     \* the attributes of the last stat
    handle,   \* internal field 0: the stream
    open,     \* the streams that are open
    on,       \* the inode a stream is open on
    writers,  \* the streams that are open for writing
    dirty,    \* the streams whose buffer holds output
    reading,  \* the read() in progress
    crash,    \* the call the process crashed in, and whether for want of a descriptor or memory
    lost      \* history: the streams whose object was collected

fsVars == <<link, size, denied>>
objVars == <<live, path, attr, handle>>
streamVars == <<open, on, writers, dirty, lost>>
vars == <<link, size, denied, live, path, attr, handle, open, on, writers,
          dirty, reading, crash, lost>>

Modes == {"unset", "file", "dir"}
Attr == [exists : BOOLEAN, mode : Modes, size : Int]
Blank == [exists |-> FALSE, mode |-> "unset", size |-> -1]

Kind(i) == IF i \in Dirs THEN "dir" ELSE "file"

InUse == {link[p] : p \in Paths} \union {on[s] : s \in open}
FreeFiles == Inodes \ (Dirs \union InUse)

\* The script makes its next call once read() is over.
Ready == reading = None /\ crash = None
HasPath(o) == o \in live /\ path[o] # None

\* What stat says of an inode.
Found(i) == [exists |-> TRUE, mode |-> Kind(i), size |-> size[i]]

\* DoStat when the file can be looked up.  If there is none, mode stays as it was.
Look(i, a) ==
    IF i = None THEN [exists |-> FALSE, mode |-> a.mode, size |-> -1] ELSE Found(i)

\* What SetPath makes of a name.
Expand(p) == IF p \in Tilde THEN Home ELSE p

\* The attributes of an object say what its path names, nothing included.
Fresh(o) ==
    path[o] # None =>
        attr[o] = IF link[path[o]] = None THEN Blank ELSE Found(link[path[o]])

-----------------------------------------------------------------------------
(* Objects. *)

\* new File("name"): nothing is constructed when stat is refused.
New(o, p) ==
    /\ Ready
    /\ o \notin live
    /\ Expand(p) \notin denied
    /\ live' = live \union {o}
    /\ path' = [path EXCEPT ![o] = Expand(p)]
    /\ attr' = [attr EXCEPT ![o] = Look(link[Expand(p)], Blank)]
    /\ handle' = [handle EXCEPT ![o] = None]
    /\ UNCHANGED <<fsVars, streamVars, reading, crash>>

\* new File(0): no path, and no attributes.
NewStd(o) ==
    /\ Ready
    /\ o \notin live
    /\ live' = live \union {o}
    /\ path' = [path EXCEPT ![o] = None]
    /\ attr' = [attr EXCEPT ![o] = Blank]
    /\ handle' = [handle EXCEPT ![o] = Std]
    /\ UNCHANGED <<fsVars, streamVars, reading, crash>>

\* The script forgets an object; nothing closes its stream.
Collect(o) ==
    /\ Ready
    /\ o \in live
    /\ live' = live \ {o}
    /\ path' = [path EXCEPT ![o] = None]
    /\ attr' = [attr EXCEPT ![o] = Blank]
    /\ handle' = [handle EXCEPT ![o] = None]
    /\ lost' = lost \union ({handle[o]} \ {None, Std})
    /\ UNCHANGED <<fsVars, open, on, writers, dirty, reading, crash>>

\* file.stat(); refused, it throws and changes nothing.
Stat(o) ==
    /\ Ready
    /\ HasPath(o)
    /\ path[o] \notin denied
    /\ attr' = [attr EXCEPT ![o] = Look(link[path[o]], @)]
    /\ UNCHANGED <<fsVars, live, path, handle, streamVars, reading, crash>>

-----------------------------------------------------------------------------
(* The file a path names. *)

\* file.touch(): open creates it if need be and can, utimes succeeds if there is
\* a file then, and stat follows.
Touch(o) ==
    /\ Ready
    /\ HasPath(o)
    /\ path[o] \notin denied
    /\ LET p == path[o] IN
         \/ /\ link[p] # None
            /\ attr' = [attr EXCEPT ![o] = Look(link[p], @)]
            /\ UNCHANGED <<link, size>>
         \/ /\ link[p] = None
            /\ \E i \in FreeFiles :
                 /\ link' = [link EXCEPT ![p] = i]
                 /\ size' = [size EXCEPT ![i] = 0]
                 /\ attr' = [attr EXCEPT ![o] =
                               [exists |-> TRUE, mode |-> "file", size |-> 0]]
    /\ UNCHANGED <<denied, live, path, handle, streamVars, reading, crash>>

\* file.rename(q): the object goes with the file, its stream stays.  The file
\* gets the name as it is written, and the object what that expands to.
Rename(o, q) ==
    /\ Ready
    /\ HasPath(o)
    /\ LET p == path[o] IN
         /\ {p, q} \intersect denied = {}
         /\ link[p] # None
         /\ link[q] # None => Kind(link[q]) = Kind(link[p])
         /\ link' = [[link EXCEPT ![p] = None] EXCEPT ![q] = link[p]]
         /\ path' = [path EXCEPT ![o] = Expand(q)]
         /\ attr' = [attr EXCEPT ![o] = Look(link[p], @)]
    /\ UNCHANGED <<size, denied, live, handle, streamVars, reading, crash>>

\* file.delete(): the stream stays open on what has no path any more.
Delete(o) ==
    /\ Ready
    /\ HasPath(o)
    /\ path[o] \notin denied
    /\ link[path[o]] # None
    /\ link' = [link EXCEPT ![path[o]] = None]
    /\ attr' = [attr EXCEPT ![o] = Look(None, @)]
    /\ UNCHANGED <<size, denied, live, path, handle, streamVars, reading, crash>>

\* fopen for writing: the file is emptied or created, a directory refused.
CreateOrEmpty(p, i, n) ==
    /\ p \notin denied
    /\ \/ link[p] = i /\ i \notin Dirs
       \/ link[p] = None /\ i \in FreeFiles
    /\ link' = [link EXCEPT ![p] = i]
    /\ size' = [size EXCEPT ![i] = n]

\* file.write(text), whole or, when the disk is full, in part; no stat.
Write(o) ==
    /\ Ready
    /\ HasPath(o)
    /\ \E i \in Inodes, n \in Sizes : CreateOrEmpty(path[o], i, n)
    /\ UNCHANGED <<denied, objVars, streamVars, reading, crash>>

\* opendir returns NULL, whatever there is of descriptors and memory.
CannotList(o) ==
    \/ path[o] \in denied
    \/ link[path[o]] \notin Dirs

\* MUTANT (CrashesOnlyIfWarned): list asks only whether there is something.
ListAnything(o) ==
    /\ Ready
    /\ HasPath(o)
    /\ attr[o].exists
    /\ \E want \in BOOLEAN :
         /\ CannotList(o) \/ want
         /\ crash' = [by |-> o, in |-> "list", want |-> want]
    /\ UNCHANGED <<fsVars, objVars, streamVars, reading>>

\* file.list() looks at the mode of the last stat, and then reads through the
\* null pointer opendir may return, also for want of a descriptor or memory.
List(o) ==
    /\ Ready
    /\ HasPath(o)
    /\ attr[o].mode = "dir"
    /\ \E want \in BOOLEAN :
         /\ CannotList(o) \/ want
         /\ crash' = [by |-> o, in |-> "list", want |-> want]
    /\ UNCHANGED <<fsVars, objVars, streamVars, reading>>

-----------------------------------------------------------------------------
(* read(). *)

\* The last stat found a file, and fopen opens what the path names now.
Opens(o) ==
    /\ Ready
    /\ HasPath(o)
    /\ attr[o].exists
    /\ path[o] \notin denied
    /\ link[path[o]] # None

StartRead(o, n) ==
    /\ reading' = [inode |-> link[path[o]], size |-> n, i |-> 0, error |-> FALSE]
    /\ UNCHANGED crash

\* It asks how long the file is, and makes an array of that length, an int.
Read(o) ==
    /\ Opens(o)
    /\ link[path[o]] \notin Dirs
    /\ LET n == ToInt(size[link[path[o]]]) IN
         \/ Allocated(n) /\ StartRead(o, n)
         \/ \E want \in BOOLEAN :
              /\ ~Allocated(n) \/ want
              /\ crash' = [by |-> o, in |-> "read", want |-> want]
              /\ UNCHANGED reading
    /\ UNCHANGED <<fsVars, objVars, streamVars>>

\* The length of a directory is what its file system makes of the question:
\* nothing, something that is never read, or -1, which is written in front of
\* the buffer.
ReadDirectory(o) ==
    /\ Opens(o)
    /\ link[path[o]] \in Dirs
    /\ \/ \E n \in {0, 1} : StartRead(o, n)
       \/ crash' = [by |-> o, in |-> "read", want |-> FALSE] /\ UNCHANGED reading
    /\ UNCHANGED <<fsVars, objVars, streamVars>>

\* fread returns some of what is there; at the end, and as long as the disk has
\* an error, it returns 0 for ever.
ReadSome ==
    /\ crash = None
    /\ reading # None
    /\ reading.inode \notin Dirs
    /\ ~reading.error
    /\ \E j \in reading.i + 1..reading.size :
         /\ j <= size[reading.inode]
         /\ reading' = [reading EXCEPT !.i = j]
    /\ UNCHANGED <<fsVars, objVars, streamVars, crash>>

\* MUTANT (ReadEnds): the loop runs while i <= size.
ReadPastEnd ==
    /\ crash = None
    /\ reading # None
    /\ reading.i > reading.size
    /\ reading' = None
    /\ UNCHANGED <<fsVars, objVars, streamVars, crash>>

ReadDone ==
    /\ crash = None
    /\ reading # None
    /\ reading.i >= reading.size
    /\ reading' = None
    /\ UNCHANGED <<fsVars, objVars, streamVars, crash>>

-----------------------------------------------------------------------------
(* Streams. *)

\* file.open(flag): an error if the object has a stream already.
Open(o, flag) ==
    /\ Ready
    /\ HasPath(o)
    /\ handle[o] = None
    /\ path[o] \notin denied
    /\ \E s \in Streams \ open, i \in Inodes :
         /\ \/ flag \in {"r", "a"} /\ link[path[o]] = i /\ (flag = "a" => i \notin Dirs)
               /\ UNCHANGED <<link, size>>
            \/ flag = "a" /\ link[path[o]] = None /\ CreateOrEmpty(path[o], i, 0)
            \/ flag = "w" /\ CreateOrEmpty(path[o], i, 0)
         /\ handle' = [handle EXCEPT ![o] = s]
         /\ open' = open \union {s}
         /\ on' = [on EXCEPT ![s] = i]
         /\ writers' = IF flag = "r" THEN writers ELSE writers \union {s}
    /\ UNCHANGED <<denied, live, path, attr, dirty, reading, crash, lost>>

\* file.writeByte, writeString: into the buffer of the stream.
Put(o) ==
    /\ Ready
    /\ o \in live
    /\ handle[o] \in writers
    /\ dirty' = dirty \union {handle[o]}
    /\ UNCHANGED <<fsVars, objVars, open, on, writers, reading, crash, lost>>

\* The output of a stream reaches the file: when stdio sees fit, or by close.
Flushed(s) ==
    IF s \in dirty
      THEN \E n \in Sizes : n >= size[on[s]] /\ size' = [size EXCEPT ![on[s]] = n]
      ELSE UNCHANGED size

Flush(s) ==
    /\ Ready
    /\ s \in dirty
    /\ Flushed(s)
    /\ dirty' = dirty \ {s}
    /\ UNCHANGED <<link, denied, objVars, open, on, writers, reading, crash, lost>>

\* MUTANT (HandlesOwned): the internal field is not reset.
CloseKeepsHandle(o) ==
    /\ Ready
    /\ HasPath(o)
    /\ handle[o] # None
    /\ Flushed(handle[o])
    /\ open' = open \ {handle[o]}
    /\ on' = [on EXCEPT ![handle[o]] = None]
    /\ writers' = writers \ {handle[o]}
    /\ dirty' = dirty \ {handle[o]}
    /\ UNCHANGED <<link, denied, objVars, reading, crash, lost>>

\* MUTANT (TypeOK): the stream is closed with its output still to be written.
CloseUnflushed(o) ==
    /\ Ready
    /\ HasPath(o)
    /\ handle[o] # None
    /\ handle' = [handle EXCEPT ![o] = None]
    /\ open' = open \ {handle[o]}
    /\ on' = [on EXCEPT ![handle[o]] = None]
    /\ writers' = writers \ {handle[o]}
    /\ UNCHANGED <<fsVars, live, path, attr, dirty, reading, crash, lost>>

\* file.close(): an error for a File of Std, and if nothing is open.
Close(o) ==
    /\ Ready
    /\ HasPath(o)
    /\ handle[o] # None
    /\ Flushed(handle[o])
    /\ handle' = [handle EXCEPT ![o] = None]
    /\ open' = open \ {handle[o]}
    /\ on' = [on EXCEPT ![handle[o]] = None]
    /\ writers' = writers \ {handle[o]}
    /\ dirty' = dirty \ {handle[o]}
    /\ UNCHANGED <<link, denied, live, path, attr, reading, crash, lost>>

-----------------------------------------------------------------------------
(* Other processes. *)

\* A path is given to a new file or directory, or to none.
OthersLink(p) ==
    /\ crash = None
    /\ \E i \in (Inodes \ (InUse \union IF reading = None THEN {} ELSE {reading.inode}))
                 \union {None} :
         /\ link' = [link EXCEPT ![p] = i]
         /\ IF i = None \/ i \in Dirs
              THEN UNCHANGED size
              ELSE \E n \in Sizes : size' = [size EXCEPT ![i] = n]
    /\ UNCHANGED <<denied, objVars, streamVars, reading, crash>>

\* A file is written or cut.
OthersResize(i) ==
    /\ crash = None
    /\ i \in InUse \ (Dirs \union {None})
    /\ \E n \in Sizes : size' = [size EXCEPT ![i] = n]
    /\ UNCHANGED <<link, denied, objVars, streamVars, reading, crash>>

\* The permissions of a path's directory change.
OthersDeny(p) ==
    /\ crash = None
    /\ denied' = IF p \in denied THEN denied \ {p} ELSE denied \union {p}
    /\ UNCHANGED <<link, size, objVars, streamVars, reading, crash>>

\* The disk has an error where read() has got to, or has it no longer.
DiskFails ==
    /\ crash = None
    /\ reading # None
    /\ reading' = [reading EXCEPT !.error = ~@]
    /\ UNCHANGED <<fsVars, objVars, streamVars, crash>>

-----------------------------------------------------------------------------
Init ==
    /\ link = [p \in Paths |-> None]
    /\ size = [i \in Inodes |-> 0]
    /\ denied = {}
    /\ live = {}
    /\ path = [o \in Objs |-> None]
    /\ attr = [o \in Objs |-> Blank]
    /\ handle = [o \in Objs |-> None]
    /\ open = {Std}
    /\ on = [s \in Streams |-> None]
    /\ writers = {}
    /\ dirty = {}
    /\ reading = None
    /\ crash = None
    /\ lost = {}

Calls(o) ==
    \/ \E p \in Paths : New(o, p)
    \/ NewStd(o)
    \/ Collect(o)
    \/ Stat(o)
    \/ Touch(o)
    \/ \E q \in Paths : Rename(o, q)
    \/ Delete(o)
    \/ Write(o)
    \/ List(o)
    \/ Read(o)
    \/ ReadDirectory(o)
    \/ \E flag \in {"r", "w", "a"} : Open(o, flag)
    \/ Put(o)
    \/ Close(o)

Others ==
    \/ \E p \in Paths : OthersLink(p)
    \/ \E p \in Guarded : OthersDeny(p)
    \/ \E i \in Inodes : OthersResize(i)
    \/ DiskFails

Next ==
    \/ \E o \in Objs : Calls(o)
    \/ ReadSome
    \/ ReadDone
    \/ \E s \in Streams : Flush(s)
    \/ Others

Spec == Init /\ [][Next]_vars /\ WF_vars(ReadSome \/ ReadDone)
-----------------------------------------------------------------------------
(* Properties. *)

\* Every variable has its type, and what a path or a stream refers to exists.
TypeOK ==
    /\ link \in [Paths -> Inodes \union {None}]
    /\ size \in [Inodes -> Sizes]
    /\ denied \subseteq Paths
    /\ live \subseteq Objs
    /\ path \in [Objs -> Paths \union {None}]
    /\ attr \in [Objs -> Attr]
    /\ handle \in [Objs -> Streams \union {None}]
    /\ open \subseteq Streams /\ lost \subseteq Streams
    /\ on \in [Streams -> Inodes \union {None}]
    /\ \A s \in open \ {Std} : on[s] \in Inodes
    /\ dirty \subseteq writers /\ writers \subseteq open \ {Std}
    /\ reading \in [inode : Inodes, size : Nat, i : Nat, error : BOOLEAN] \union {None}
    /\ crash \in [by : Objs, in : {"list", "read"}, want : BOOLEAN] \union {None}

\* However open, close, rename, delete and errors follow each other, an object
\* holds a stream that is open or none, no two share one (but Std, which
\* nobody closes), so none is closed twice or used after; and every open stream
\* is held by an object, unless it was collected with it: file.cpp:567-615.
HandlesOwned ==
    /\ Std \in open
    /\ \A o \in live :
         /\ handle[o] \in open \union {None}
         /\ handle[o] = Std <=> path[o] = None
         /\ handle[o] \notin lost
         /\ \A r \in live \ {o} : handle[o] = handle[r] => handle[o] \in {Std, None}
    /\ \A s \in open \ {Std} : s \in lost \/ \E o \in live : handle[o] = s

\* list and read look at the attributes before they touch the file.  If those
\* are true, say that the file is what the call is for and no longer than an
\* int can tell, and it may be opened and descriptors and memory are there, the
\* process does not crash, whatever others do and however the attributes went
\* stale and were made true again: file.cpp:456-529.
CrashesOnlyIfWarned ==
    crash # None =>
      LET o == crash.by IN
        \/ ~Fresh(o)
        \/ path[o] \in denied
        \/ crash.want
        \/ crash.in = "read" /\ (attr[o].mode = "dir" \/ ~Allocated(ToInt(attr[o].size)))

\* read() returns, unless the file got shorter while it was read, or is a
\* directory, or cannot be read: fread then returns nothing, for ever
\* (file.cpp:521).
ReadEnds ==
    reading # None ~> \/ reading = None
                      \/ reading.inode \in Dirs
                      \/ size[reading.inode] < reading.size
                      \/ reading.error
                      \/ crash # None
=============================================================================
