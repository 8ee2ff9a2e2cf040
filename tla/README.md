# Verification of LTIContainerSpawner

LTIContainerSpawner connects a Moodle (the LMS) with a JupyterHub. A student
follows an LTI link in Moodle; the browser reaches a reverse proxy written for
this purpose (`ltictr_proxy`), which passes the launch on to the hub. The hub
starts a container for the student and registers it with the proxy's API. From
then on the proxy relays HTTP and websockets to the container, and reports to
Moodle, by XML-RPC, which session belongs to which course and which cells were
executed in it.

This directory holds TLA+ models of that code, TLC configurations that check
them, and proofs for TLAPS. Paths below are relative to the repository (`src/`).

## 1. Inventory

| Component | Code | State | Operations |
|---|---|---|---|
| API server | `ltictr_proxy/ltictr_api_server.c`, `ltictr_api.c` | `lproxy`, the list of routes; `Aofd`, the connection | accept; GET, POST, DELETE of `/api/routes...`; restart after a signal |
| Proxy server (root) | `ltictr_proxy/ltictr_proxy_server.c` | `PIDList`, `APIChildPID`, `NoSigchld`, `PendingSigchld` | fork of the API server and of a child per connection; `sig_child`, `sig_term` |
| Proxy connection | `ltictr_proxy/ltictr_proxy.c` | the process's `lproxy`: user, target, socket, `ctrl` | `select`, route lookup, relay in both directions, end of file, timeout, `proc_chunked` |
| LMS sessions | `ltictr_proxy/ltictr_relay.c`, `ltictr_xmlrpc.c` | `SessionInfo`, `ServerURL`, `ServerPath`, `ServerToken`; cookies | read the launch, set the cookies, read them, report |
| Websocket reassembly | `ltictr_proxy/ltictr_ws.c` | `cring`, `sring` and their state | `ws_json_client`, `ws_json_server`, `ws_json_parse` |
| Launch settings | `etc/jupyterhub_ltictr_config.py`, `jupyterhub_docker_config.py`, `jupyterhub_podman_config.py` | `custom_*`, `ext_*`, the user's ids | `init_parameters`, `userdata_hook`, `get_userid`, `get_groupname`, `get_volumes_info`, `get_env` |
| Docker spawner | `LTIDockerSpawner` in the first two | the object, the home on the host | `start`, `create_dir` |
| Podman spawner | `LTIPodmanSpawner` in the first and the third | `cid`, `port`, the hub's saved state | `start`, `podman_start`, `poll`, `stop`, `get_state`, `load_state`, `clear_state` |
| Container start script | `bin/start.sh` | the home, the volumes with owner and mode, the links | one run as root for each start of a container |
| Trash of the images | `dockerfile/vhtec/plat_other.py` | the trash directories `files` and `info` | `send2trash`, `trash_move` |
| Notebook tools | `src/ipynb_conv.c`, `ipynb_extract.c`, `ipynb_tocsv.c`, `json2.c`, `json_file.c` | none | convert a notebook |
| Shell commands | `bin/submit`, `extract`, `tocsv`, `ipynb_*` | none | wrappers |
| The rest | `sh/`, `dockerfile/`, units and `.conf` files, recorded traffic | none | none |

How they interact:

```
 Moodle --LTI launch--> browser --> ltictr_proxy_server (root)
   ^                                   | fork                | fork
   |XML-RPC                            v                     v
   +------------------- receipt_proxy, one per      ltictr_api_server
                        connection: cached routes --GET-->  routes
                             |                               ^ POST, DELETE
                             v                               |
                        hub, user's container <--starts-- JupyterHub + spawner
                                 start.sh, shared volumes
```

- The root, the API server and each `receipt_proxy` are processes. They share
  no memory after `fork()`; a child has its own copy of every list and global.
- The root and its children meet in signals, `waitpid` and exit status.
- `receipt_proxy` asks the API server over a connection of its own for each
  user it has not met yet, and never forgets what it was told.
- What a `receipt_proxy` learns from a launch travels through cookies in the
  browser to the `receipt_proxy` of another connection.
- The spawner tells the start script by environment variables whom it starts for
  and which volumes to link, and tells the engine which of them to mount.
- Containers share the host: task and submit volumes, and under Podman the ports
  (`--net host`). What a container leaves in the home and in the volumes meets
  the next one.

What is hard about it, and what makes each component right:

- **API server.** Names are compared without regard to case, and deletion takes
  the first match. Right: one route per user; a refused request changes
  nothing. A slow client holds up the rest: for `HTTP_TIMEOUT` with http, in the
  TLS handshake without limit.
- **Root.** Handlers interrupt the main loop and each other and free list nodes
  under a running loop. Right: every child is known, every exit is reaped,
  nobody is left behind.
- **Connection.** A cache of routes that change, a message without an address
  (a frame), several servers and one client, timeouts, ends in any order.
  Right: a request goes to its own user's server; nothing waits for ever.
- **LMS sessions.** Globals that outlive the request, cookies shared by
  connections, launches from several LMSs. Right: what is reported to an LMS
  belongs to it.
- **Websocket.** Reads and frames do not coincide. Right: every text is found.
- **Launch settings.** Several LMSs, with their own ids, groups, courses and
  texts. Right: two users who share a volume are not one on the host.
- **Spawners.** The hub and the containers end between any two steps; the id of a
  container is saved after it runs. Right: no container is forgotten, none works
  in the home of another, every start is answered.
- **Start script.** Several scripts chown and chmod the same volumes, and any of
  them may be killed. Right: what a launch gives to a user is there, reachable
  and theirs, and nothing of another launch is.
- **Trash.** A move is a copy and an unlink, of a folder file by file, and each
  may fail. Right: no file is lost.

The list of hazards, each at its line, is in `PROJECT.json`.

## 2. Modules

| Module | Models | Role |
|---|---|---|
| `RouteTable` | | what the routing API promises: a map from names to targets |
| `ApiServer` | API server | detailed specification; implements `RouteTable` |
| `ApiServerProofs` | | proofs about `ApiServer` |
| `ProxyServer` | root process | |
| `ProxyServerProofs` | | proofs about `ProxyServer` |
| `ProxyConnection` | `receipt_proxy` | uses the list operations of `ApiServer` for the hub's edits and the lookups |
| `ProxyConnectionProofs` | | proofs about `ProxyConnection` |
| `LmsSession` | relay and XML-RPC | |
| `LmsSessionProofs` | | proofs about `LmsSession` |
| `WsReassembly` | reassembly of frames | |
| `WsReassemblyProofs` | | proofs about `WsReassembly` |
| `LaunchSettings` | the code that both spawners share | operators only; extended by the next three |
| `StartSh` | `start.sh` of several containers | actions, without a `Next` of its own |
| `DockerSpawner` | `LTIDockerSpawner` | composed with `StartSh` |
| `DockerSpawnerProofs` | | proofs about the composition |
| `PodmanSpawner` | `LTIPodmanSpawner` | |
| `PodmanSpawnerProofs` | | proofs about `PodmanSpawner` |
| `Trash` | `plat_other.py` | |
| `TrashProofs` | | proofs about `Trash` |
| `MC...` | | instances for TLC |

Operators that are marked `Mutant` in a comment are wrong variants of a mapped
definition. Each is paired in `PROJECT.json` with the property that it breaks.
They are not part of the specifications.

### ApiServer

The process serves one connection at a time, so its actions are one request
each: `Accept` takes the oldest connection of the kernel's queue (`backlog`);
with `Https`, `Handshake` is the TLS handshake, for which the process waits as
long as the client likes (`ltictr_api_server.c:197` has no timeout);
`Unreadable`, `Refused`, `Get`, `Post`, `PostRefused`, `Delete` and
`DeleteMissing` are the ways through `api_main_process`; `Refusal` keeps the
order in which the code looks at token, path and body. `lproxy` is the list in
order of registration, because the order decides what a client is told.
`Fold` stands for `strcasecmp`. `Restart` is `sig_term` or `sig_segmen`
followed by the start of a new process: the routes are lost.

### ProxyServer

Three contexts, `main`, `term` (the SIGTERM handler) and `chld` (the SIGCHLD
handler), each with a frame that says where it is in `sig_child` or `sig_term`.
`Executing` says who may run: SIGCHLD interrupts everything but itself, also
the SIGTERM handler, whose `sa_mask` is empty; the mask of the SIGCHLD handler
contains SIGTERM. The main loop is one action per statement that touches
something a handler touches: `AcceptAndFork`, `Guard`, `AddPid`, `Unguard`,
`CheckPending`, `ClearPending`, and `ForkApi`, `RecordApi`, `AddApi` for the API
server. `Reap`, `ReapNone`, `SearchOn`, `Found`, `NotFound` and `Unlist` are
`sig_child`: the search for the pid is one step per node, because the instance
that the main loop calls is interrupted by the one of the handler. `KillNode`,
`NextPid` and `Exit` are `sig_term` with `term_main`.

A freed node keeps its `next` pointer (`stale`) and loses its pid: this is what
`free()` of the allocator leaves, and it is how the loop of `term_main` goes on
when SIGCHLD frees the node it stands on. Linking and unlinking one node is one
step: `del_tList_node` is the library's, and that two instances of `sig_child`
may be inside it at once is not modelled. A `fork()` that fails is not either:
`term_main` passes over the -1 it would enter (356). Of SIGHUP, SIGINT and SIGTERM, which share a handler, SIGTERM is modelled.

### ProxyConnection

`pc` follows the loop: `Select` (with the timeout), `ReadClient`,
`SelectMiddle` (the second, short select), `ReadAnswer`, `ReadWebsocket`,
`ReadEof` and `ServersRead` for the loop over the servers. `Routed` is the
search for the entry of a message with all its fallbacks: the cache, the API
server, the entry for `/`. An API server that does not answer gives no target.
`HubPosts` and `HubDeletes` apply `api_add_user` and `api_del_user` to the
routes at any time, as often as the hub likes; only the number of routes at one
time is bounded. The browser sends one request at a time and waits for the answer:
pipelining, with which several servers could be ready in one `select`, is not
modelled, so nothing is said of the `break` in line 275, which skips the others.

The process never learns that a route it has cached is gone. `changed` remembers
whose route the hub has edited since this process entered it, and
`RequestReachesItsUser` admits an old target for these users only. The entry for `/`
takes the requests of users without a route. With `-h` it is the hub; without,
it is what `get_proxy_target` took for `/`, which may be a user's server
(`connection_hub`), and a request that it relays may go there.

### LmsSession

`SessionInfo` and `Server` (URL, path and token of one LMS are one value) are
kept per connection, the cookies once. `RelayLaunch`, `RelaySession` and
`RelayExecute` are the branches of `relay_to_server`; `RelayAnswer` and
`RelayReply` those of `relay_to_client`. `RelayAnswer` may lose the cookies:
they are inserted behind a `Set-Cookie` or `Host` header, and an answer may have
neither. `PostCell` kills the process when `ServerPath` is `NULL`. All four
launch parameters are taken to be present, and the LMS to accept any call.

### WsReassembly

The stream is built from frames by `Encode`; `Read` hands over any number of
bytes; `ParseText`, `ParseNull` and `ParseNothing` are the outcomes of one call
of `ws_json_parse`. `Ref` is `ref_ringBuffer` of JunkBox_Lib: `NULL` beyond the
byte behind the data, and that byte is whatever was left there (`Stale`).
A read is only ever a prefix of what was not read yet, so a frame may be cut
anywhere and frames may arrive together. The operator `^` of C is the constant
`ByteXor`, of which the proofs need only that it undoes itself; the instances take
that of the community modules. A body is a few bytes (`StreamsAssumption`: fewer
than 126), also behind a long header.

`TextIsParsed` counts: `Due` are the text frames that have arrived completely and
hold JSON, and between two calls the texts returned are as many, each the body of
the frame of its rank.

### LaunchSettings

A launch (`auth_state`) is a function from the settings it names to values;
`userdata_hook` fills in what it does not name from `init_parameters`, which the
code calls first: nothing of an earlier launch stays. A value that makes the hook
raise (`int()` or `split(...)[1]`) is `Bad`. `get_userid` and `group_id` are the
three sources of ids in the order of the code: an account of the host, the ids
that the LMS sends, `base_id` plus the LMS's own id. `get_volumes_info` has the
rule about display names and lists of users; one operator serves the three kinds
of volumes. A volume's directory is its kind, name, course and LMS.

Each of the two classes exists twice, in `jupyterhub_ltictr_config.py` and in
`jupyterhub_docker_config.py` or `jupyterhub_podman_config.py`; the two copies of
a class have the same syntax tree, method for method. Between the classes only
`start`, `get_env`, `get_args` and `get_lms_userinfo` differ (and what only one of them
has): `DockerSpawner` and `PodmanSpawner` have operators of their own where a
difference matters. So the map names one of up to four equal copies for a
definition, for `DockerSpawner` and `PodmanSpawner` one of their own class. A change
to one copy has to be compared with the model again.

Left out or abstracted: `re.sub()` on texts; the order of a launch's settings,
which decides only how far a hook gets that raises; `JUPYTERHUB_OAUTH_SCOPES` and
other variables that no rule depends on; CPU guarantee and limit are one amount,
and so are those of memory. The host name is `netloc`, with its port: the name of
a container then has a `:` and the engine refuses it (`NameRefused`). The iframe
arguments (`Framer`) are used by the Docker spawner only.

### StartSh

`Setup` is the part up to line 154, which works in the user's home only and is
repeated from the beginning by the next container. From there on each command
that other containers can see is a step: `TaskVolume` (chown and `chmod 0664`)
and `TaskOpen` (`chmod 2775` and the link), `SubmitVolume` and `SubmitOpen`,
`SubmitAsItIs`, `PersonalVolume`. `End` kills the container anywhere; `cut`
remembers the volumes at which a script was killed between two commands.
`UserFile` is the user's work in the running notebook: names in the work
directory that a later launch finds taken.

What the script does with names is modelled as far as it decides which link is made:

- The links to remove are found by `ls -l`, which does not list names that begin
  with a dot (`Dotted`): these survive into the next launch (`Cleaned`).
- `[[ -e "$LK" ]]` tests the name with the mark `-` of a hidden volume, the link is
  made under the name without it (`Tested`, `LinkRuns`). So `ln -s` may find the
  name taken: it fails on a file, and on a link to a volume it makes its link
  inside that volume (`Inside`), where all members of the course see it.
  `StraysAreHidden` says how far this goes: such a link leads to a hidden volume,
  and only a teacher's script makes it.
- For `.` the test is passed over, and the link gets the name of the directory
  (`Here`, `LinkName`).

Left out: the second links in the subdirectory `.volumes`, which repeat the first;
links that `ln -s` makes inside a personal volume or inside one that this container
does not mount; names with a further `-` behind the mark; names with spaces or
pattern characters. The code matches the commands of a launch by prefix; here their
names are exact. `CHOWN_HOME` is set by the configuration and not used by the script.
Accounts, groups and sudo inside the container end with it.

### DockerSpawner

`Launch` is `auth_state_hook`, `Start` the part of `start()` that may raise,
`MakeDir` and `ChownDir` are `create_dir` for one directory after the other,
`Create` is `DockerSpawner.start()` with the environment of `get_env`. `user_id`
is -1: `start()` calls `get_groupname`, which does not set it, and `os.chown` with
-1 changes nothing. `HubCrash` forgets what was under way. Steps of the scripts
and of the hub interleave.

### PodmanSpawner

The hub is single-threaded and waits for each podman command, so a command is a
step. Every command may fail for any reason, also while the container runs: `poll`
raises then, and so does `stop` (1820-1822, 1833-1835). `Save` is a step of its own: JupyterHub writes `get_state()` to its database
after `start()` has returned. `box` is what podman has; `lost` remembers the
containers whose id was not saved when the hub crashed, and those that ran when
the hub dropped their entry after such an error. Both go on running unknown to the
hub, beside the user's next container: the code has nothing against that, and the
properties say that it happens in these two ways only. `Boot` binds the port at
some later time: between `random_port` and it another container may bind it.
`Exit` and `Remove` (`--rm`) happen by themselves.

What JupyterHub does with the methods is external: it polls before it stops, logs
an error of a periodic poll, and after an error in a stop the entry of the server
stays or goes, by its version; both are modelled (`Failed`). The graceful end of
the hub, which stops all servers, is not modelled. The id loses its last digit
(`output[:-2]`); podman accepts a prefix. `podman_start` blocks the hub, so that
`start_timeout` cannot take effect. The home is made as by the Docker spawner and
modelled there. `pull_image_first` is not modelled.

### Trash

`send2trash` holds the tests before anything is done, `ChooseName` the loop over
names, `WriteInfo` the note, `Move` the call of `shutil.move`: a rename, which may
fail for any reason and always does between mounts, and then a copy and an unlink.
What is moved is a file or a folder of files. Of a folder the files are copied
one by one (`CopyFile`, `Copied`); after an error `copytree` goes on with the others
and raises at its end, so that nothing is unlinked (`CopyFails`, `AllDone`).
`Unlink` is `os.unlink`, or `rmtree`, which lists the folder again and ends at its
first error, as it does in a sticky submit volume with files of others.

Home and volumes are bind mounts of one device: they have equal `st_dev`, so that
files of a volume go to the trash of the home, and rename fails between them. A file
is known by its path and the how-manieth one it is there, so that a copy of an older
file is told from a newer one. Restoring and emptying the trash are left out: the
notebook has no such function. So are symbolic links, folders in folders and empty
folders.

## 3. Runs

| Run | Checks | Result |
|---|---|---|
| `api` | types, one route per user, refinement of `RouteTable` | holds |
| `proxy_server` | types, children listed, zombies announced, staleness, no orphan, three liveness properties | holds |
| `proxy_server_stop` | a stop by SIGTERM ends with status 0 | violated |
| `connection` | types, a request reaches its user, one websocket, every request is resolved | holds |
| `connection_hub` | a request for the hub goes to a target of the hub | violated |
| `lms_session` | types, cookies of the launch, report to the LMS of the instance, cells to the LMS of the session | holds |
| `ws` | types, every text is parsed, crashes only in a header | holds |
| `ws_kana` | every text is parsed, with a hiragana in it | violated |
| `docker` | types, homes, ids, links, links inside volumes, mounts and modes of the volumes, every start is answered | holds |
| `podman` | types, running containers are known or `lost`, homes are free of all others, a stop ends the container or fails, every start is answered | holds |
| `podman_poll` | the hub notices that a server has ended | violated |
| `trash` | no file is lost, every file of a trash can be put back | holds |

What the violated runs show:

- `proxy_server_stop`. `term_main` forwards SIGTERM to the API server first.
  When that exits before the loop is through, SIGCHLD interrupts the handler,
  `sig_child` sees the pid of the API server and exits with the number of
  SIGCHLD. The comment in `ltictr_proxy_server.c:382` wants status 0.
- `connection_hub`. The answer for `/` is the list of all routes, and the first
  `target` in it is taken. It is the hub's only as long as the hub's route was
  registered before the users' and not again after them.
- `ws_kana`. A read that begins with `0x81` while a frame is incomplete empties
  the ring buffer. `0x81` is the second byte of many hiragana in UTF-8.
- `podman_poll`. When a container has ended, `--rm` removes it, and from then on
  `podman container inspect` fails and `poll()` raises instead of returning a
  status. The hub logs it and keeps the server as running until somebody stops it.

Known behaviour without a run: after a websocket's server has left, a frame falls
back to the entry for `/`, which is meant for requests (`ltictr_proxy.c:125`).

What the passing runs say where the code could have failed:

- Some properties name the only ways in which the code does fail, and exempt them:
  `StaleOnlyByLateEntry` an exit in the fork window; `ClosedOnlyInBetween` and
  `SubmitIsOpen` a script at work, or killed, between two commands (the next script
  of the course mends a task volume, nobody a submit volume); `LiveIsKnown`,
  `HomeIsFree` and `StopEndsContainer` a crash of the hub before it has saved the id,
  and an entry dropped with an error of podman; `LinksLeadToMounts` links whose names
  begin with a dot; `NothingIsLost` a file made where a move has already copied, or
  looked, and has yet to unlink; `RequestReachesItsUser` a route edited after it was
  cached.
- `HomeIsUsers` holds although `start()` leaves a new home to root, because
  `start.sh` chowns it; `SharersDiffer` holds although two LMSs use the same ids,
  because the directories carry the LMS's name.

### Bounds, and why they are enough

- `api`: the hub, two users and a second spelling of one; two targets, so that
  a registration can change a route; two clients and a queue of two, so that
  one waits behind the other. Three routes at once let a deletion hit the
  first, middle and last node. The list cannot grow longer than the number of
  distinct users, which is what `OneRoutePerUser` says.
- `proxy_server`: `MaxForks = 3`, the API server and two connections. A node can
  be freed before, at and behind the loop; a child can exit in the fork window
  of another. The theorems hold for any number.
- `connection`: the hub, two users, a second spelling of one; two targets, so that
  a request can reach the other user's server and a route can change under the entry
  made of it. `MaxMessages = 2`: the second message finds what the first has left,
  an entry that may be stale by now or a websocket. Three messages (two servers, then
  a websocket) are left to the theorems. `MaxRoutes = 2` routes at one time, which the hub registers, changes and
  removes without limit. The safety theorems hold for any number of both.
- `lms_session`: no counter is bounded. Two connections share the cookies;
  two launches of one LMS and one of another distinguish instance from LMS.
- `ws`: no counter is bounded but the length of the stream; four frames with
  the three kinds of header, masked or not, also a terminal's text and a binary
  frame. Bodies have two or three bytes also behind long headers. In this run no
  byte but the first of a frame is `0x81`, and there are no control frames among
  the texts: with them `TextIsParsed` fails, as `ws_kana` shows for one case. The
  theorems hold for any number of JSON texts; the terminal's and the binary stream
  are in this run only.
- `docker`: two users who both teach a course of one LMS, so that either may be the
  first at its volumes; the second is also a student of another LMS, with the id
  that the first has in the common course. Volumes of all three kinds; a task and a
  hidden submission by one name; a volume whose name begins with a dot, one shown as
  `.`, one without a name; a file of the user by the name of the hidden volume; and
  three launches that come to nothing. Nothing but the user's file names is bounded.
- `podman` and `podman_poll`: two users, the teacher with two courses, the student
  also with a launch that podman refuses; two ports and two ids. An id is used
  once, so two containers are started in all: a lost one beside a new one, or
  two that want one port. The theorems hold for any number.
- `trash`: two teachers; two homes of one device, a submit volume of another, where
  only one of them has a `.Trash`. One deletes a folder of two files in the submit
  volume and a file of the home, the other the files of the folder, which have one
  name. `MaxNew`: one of the files can be made again, after it was deleted or while
  it is being moved. `MaxCount`: a name and one more. The theorems hold for any.

The largest instances have 225 thousand (`proxy_server`), 300 thousand
(`lms_session`), 500 thousand (`docker`), 710 thousand (`connection`) and 3.1 million
states (`trash`); with two workers `docker` takes about three minutes, every other run
less than two.

Deadlock is checked for `api`, `lms_session`, `docker` and `podman`. The others
end: the root and the connection exit, the stream of a websocket is finite, and
so are the files and names of `trash`.

### Fairness

- `ApiServer`: none. A client that is silent in the TLS handshake stops the process,
  and everybody behind it, for as long as it likes; so there is nothing to promise.
- `ProxyServer`: the root runs (`RootStep`) and the kernel delivers signals that
  are not blocked. Connections, exits of children and `systemctl` owe nothing.
- `ProxyConnection`: the process runs and `select` times out (`ProxyStep`).
  Browser, hub and servers owe nothing; an answer that is never given ends in
  the timeout.
- `DockerSpawner`: each user's launch goes on (`Progress`), by the hub and then by
  the script. Launches, ends of containers and crashes owe nothing.
- `PodmanSpawner`: the hub goes on (`HubStep`), systemd starts it again after a
  crash (`HubRestart`), and podman removes what has ended (`Remove`). Neither
  containers nor users owe anything; a container that never serves is answered by
  `http_timeout`.
- `ApiServer`, `LmsSession`, `WsReassembly` and `Trash` have safety properties only.

## 4. Proofs

All theorems hold for every value of the constants that satisfies the named
assumptions in the modules: that `Fold` is idempotent and folds nothing else to
`/`, that `None` is no other value, that bounds are numbers, that every launch
has an LMS, that `.` is among the names with a dot and no directory of a volume, that frames have legal fields, that `ByteXor` undoes itself.
TLC evaluates the assumptions in the runs.

**ApiServerProofs.** `Inv == TypeOK /\ OneRoutePerUser` is inductive: because
there is at most one match, deleting the first match deletes all, and a name can
be appended after its deletion. The lemmas `DeleteProperties` and
`AddProperties` say so about the list operations. `TypeCorrect` and
`RoutesAreUnique` follow. `ImplementationCorrect` proves the refinement of
`RouteTable`: the table maps a folded name to the first node that matches, and
the lemmas `RouteOfDelete` and `RouteOfAdd` show that the list operations change
it at one key. The refinement needs `OneRoutePerUser`: with two nodes for a
name, deletion would uncover the second.

**ProxyServerProofs.** `Inv` joins the type invariant with `LiveChildIsListed`,
`ZombieIsAnnounced` and facts about the flags and the frames (a context that
holds a pid to delete has reaped it; `NoSigchld` is set exactly around `AddPid`;
and so on). `TypeCorrect`, `ChildrenAreListed` and `ZombiesAreAnnounced` follow,
and `StalenessIsLateEntry` for every step from it. `NoOrphanIsLeft` needs more:
`LoopInv` says there is a set of freed nodes whose `stale` pointers lead on in
the list, so that from wherever each loop of `term_main` stands, every node that
has not been signalled is still ahead of it, and likewise the node that a search
of `sig_child` is looking for (`SearchesReach`).

**LmsSessionProofs.** `IInv` adds to the properties that the cookies are those
of one launch (`JarIsOfOneLaunch`), that only a process that waits for the
answer to a launch remembers one (`InfoIsOfTheRequest`), and that the session
of a websocket was reported to `Server` (`SessionIsReported`). Without
`InfoIsOfTheRequest` an answer to another request could take `ServerURL` away
from a session, or give old cookies to the browser. All four properties of the
run are theorems.

**ProxyConnectionProofs.** `RequestReachesItsUser` is proved for every step from
`Known`: each entry of the process but those for `/` has the target that the API
server has for its user, or the hub has edited this user's route since it was made;
and with `-h` the entry for `/` is the hub's and stays. That the API server's answer
is such a target rests on lemmas about its list (`DeleteKeeps`, `AddKeeps`,
`GetKeeps`): an edit of one user's route leaves the others', and the answer for a user
is a route of that user. `HubRouteIsTheHubs` is false (`connection_hub`), so the
theorem says of a request that falls back to `/` without `-h` only that it does.
`WebsocketIsUnique` is not inductive, because an entry becomes a websocket by an
answer to a request that was sent long before. `OnePending` counts the entries
that are or may become one: marked, with an upgrade to read, or owing the answer to
a request. There is at most one because client and servers take turns, which is
`Dialog`: an idle client has nothing under way; a waiting one has either its
request in the socket and no server at work, or at most one server at work, and
sends nothing until that one has answered or the process has ended; one with a
websocket sends frames only, which no server answers with an upgrade. `AllSound`
says that only open entries owe or send.

**WsReassemblyProofs.** `TypeCorrect` holds for every stream. The other two theorems
have the premise `JsonStream`, a condition on what is sent: all frames are texts
that hold JSON, and the byte `0x81` stands in front of a frame only. The streams
`Server` and `Client` of the run satisfy it. It is what the code needs: `0x81` inside
a frame empties the buffer (`ws_kana`), and another frame among the texts stays in
the buffer and ends the loop. Under it, `JsonInv` says where everything is: the first
`Done` texts have been returned (`Returned`); the ring buffer is the stream from the
end of the last of them to what has been read (`Buffered`); between two calls the next
frame is incomplete, and `state` tells whether a part of it is there (`Between`); a
call begins in `JBXL_NORMAL` (`InCall`); and the process is dead only of a header
(`Dead`). The heart is `HeaderRead`: however much of a frame is in the buffer, and
whatever byte stands behind it, the parser either sees that it is incomplete, or
has read its lengths right. A byte too few makes it take a stale byte for a length,
but then the frame is never thought complete.

What `FlattenSeq` and the length loop compute by recursive functions is had from
`Smallest`, that a non-empty set of numbers has a least member: a function that
satisfies the equation exists and is unique, because there is no smallest index at
which it fails (`FlatExists`, `FlatUnique`, `HighBytesExists`).

**PodmanSpawnerProofs.** A container's id is in two places, the object and the
database, and `SameId` says which of them is right at which point of a start or
stop; `EntryFirst` that an object at work has an entry; `NameIsOwn` that a running
container has the home of its user. With `LiveIsKnown` they are inductive, with
poll, stop and run failing whenever they like.
`HomesAreFree` follows: an object about to start names no container, so one in
the same home could only be a lost one. `StopIsComplete` is proved for every step
from the same invariant. This module and the next begin with lemmas about
`LaunchSettings`: the types of what its operators return, and that the volumes of
the environment and of the mounts are those of the lists.

**DockerSpawnerProofs.** `Base` says that spawners at work and containers come from
launches (`Phases`, `Launched`) and that a script works through the list of its
round (`Rounds`). On it rest separate invariants, which do not need each other:
`OwnedIsShared` and `TasksAreShared` for the group of the task volumes,
`HomesAreUsers`, `LinksAreFresh` and `NamesAreTaken` for the home from the setup
on, and `NoneIsHere` (no link is named `.`) for the links inside volumes: a link on
which `ln -s` runs although the name is taken can then only be a hidden volume's,
and only a teacher's script links those. Lemmas such as `Quiet`, `Bystanders` and `Undisturbed` say which steps leave
a part of the state alone, so that a proof has only the steps that do not.
`SharersAreDistinct` has the premise `DistinctIds`, that an LMS gives different
ids to different users; TLC evaluates it for the instance of `docker`.

**TrashProofs.** `Proper` says of a process at work that it works in the trash of its
own user only; that its name is free until it writes there (`ProperName`); that
what it has still to copy is not yet in the trash, and a copy under way is partial
(`ProperCopy`); and, in `Covered`, that whatever its move will unlink without a look
(`Doomed`) is in the trash whole, or is a `late` file, or is gone. `Bystander`
carries this over the steps of other processes. With `Latest` (what is at a path was
made there last) the two properties are inductive, and both are theorems.

Only model-checked: the liveness properties, which depend on fairness and are out
of the prover's reach; and `TextIsParsed` and `CrashIsInHeader` on streams with other
frames than JSON texts (a terminal's texts, binary frames). The four findings are
counterexamples of TLC.

## 5. What is not modelled

- **Chunked bodies.** `proc_chunked` and `get_chunked_size` work on the octets
  of one read; `ProxyConnection` takes an answer as one message. That the
  terminating chunk is relayed only when it comes first in the buffer
  (`ltictr_proxy.c:368`), and that a size line may be cut (355), are hazards
  without a property. A module of its own for them, a function from the way a
  body is cut into reads to what is relayed, would come next.
- **Notebook tools and shell commands** (`src/ipynb_*.c`, `json2.c`, `json_file.c`,
  `bin/submit` and so on): sequential filters over one file, without state between
  calls; most of them is parsing and formatting.
- **A composition of `ProxyConnection` and `LmsSession`** through the order of the
  answers on one connection: its states are too many for TLC with the bounds at
  which either of them is interesting.
- The text of HTTP headers, JSON and XML, the parsing of options, TLS, the build
  files and images, third-party scripts, the demonstration notebooks, the
  administration scripts under `sh/`, and the recorded traffic have no behaviour
  over time that belongs to the project.
- JunkBox_Lib, JupyterHub, Docker, Podman, the browser and Moodle are external; the
  models take from them what the code relies on.
