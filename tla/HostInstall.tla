--------------------------- MODULE HostInstall ---------------------------
(* host-init and host-uninit (cli/pf/host): each platform's provider is a   *)
(* list of steps on the machine, and either command may fail or be killed   *)
(* before any of them.  The commands may be repeated in any order; an       *)
(* administrator edits the file that pf adds its block to, the invitation   *)
(* of the server works once, the machine restarts, and the refresh job may  *)
(* be started by a change of the network while uninit removes it.           *)
EXTENDS Naturals, FiniteSets, Sequences

CONSTANTS Systems,        \* the platforms, of {"linux", "macos", "windows"}
          Lines,          \* lines an administrator may add to that file
          MaxKeys,        \* bound: account keys made, that is, inits begun
          MaxInvitations, \* bound: invitations written for this host
          FollowAdvice    \* whether he removes what a refused init names

ASSUME InstallAssumption ==
    /\ Systems \subseteq {"linux", "macos", "windows"}
    /\ MaxKeys \in Nat /\ MaxInvitations \in Nat
    /\ FollowAdvice \in BOOLEAN

VARIABLES system,      \* the platform
          sound,       \* nobody but the trusted users can change its pf
          disk,        \* what pf keeps on the machine, by name
          key,         \* the account key of the state directory, 0: none
          block,       \* pf's block is in /etc/pam.d/sshd, or sshd_config
          lines,       \* the administrator's lines of that file
          due,         \* those of them added while no init was running
          theirs,      \* an account of pf's name was there before pf
          account,     \* "none", "half" made, "ours" or "foreign"
          jobs,        \* the jobs the system starts by itself
          loaded,      \* the running sshd has read pf's directives
          refresher,   \* "idle", or the refresh job is "running" or "certified"
          raced,       \* it was started after uninit had stopped it
          registered,  \* the account key the server knows, 0: none
          invitations, \* invitations written and not accepted, and in all
          cmd,         \* the command that runs: name, next step, lines it read
          last         \* how the last command ended

installVars == <<system, sound, theirs, disk, key, block, lines, due, account, jobs, loaded,
          refresher, raced, registered, invitations, cmd, last>>

machine == <<disk, key, block, lines, account, jobs, loaded>>
NoCommand == [name |-> "none", at |-> 0, read |-> {}]
InState == {"state", "config", "marker", "xml"}

Put(x) == <<"put", {x}>>
Drop(x) == <<"drop", {x}>>
Do(verb) == <<verb, {}>>
Start(j) == <<"start", {j}>>
Stop(j) == <<"stop", {j}>>

(* The providers' lists. *)
LinuxInit == <<Put("state"), Put("logs"), Do("key"), Put("config"), Do("accept"),
    Do("refresh"), Put("dropin"), Do("account"), Put("bastion"), Do("block"),
    Put("refresh_unit"), Start("refresh"), Do("load"), Put("bastion_unit"),
    Put("reaper_unit"), Start("reaper"), Start("bastion"), Put("dispatcher")>>

LinuxUninit == <<Stop("refresh"), Drop("refresh_unit"), Stop("bastion"),
    Drop("bastion_unit"), Stop("reaper"), Drop("reaper_unit"), Drop("dispatcher"),
    Do("strip"), Drop("dropin"), Drop("ca"), Drop("certs"), <<"drop", InState>>,
    Drop("bastion"), Do("delete_account"), Do("load")>>

MacInit == <<Put("state"), Put("logs"), Put("deadlines"), Do("key"), Put("config"),
    Do("account"), Put("bastion"), Put("requests"), Do("accept"), Do("refresh"),
    Put("dropin"), Start("refresh"), Start("bastion"), Start("reaper")>>

MacUninit == <<Stop("refresh"), Stop("bastion"), Stop("reaper"), Drop("dropin"),
    Drop("ca"), Drop("certs"), <<"drop", InState>>, Drop("deadlines"), Drop("bastion"),
    Do("delete_account"), Drop("requests")>>

WindowsInit == <<Put("state"), Put("deadlines"), Put("requests"), Do("account"),
    Do("marker"), Do("key"), Put("config"), Put("bastion"), Do("accept"),
    Do("refresh"), Put("dropin"), Do("include"), Put("xml"), Start("refresh"),
    Start("bastion"), Start("reaper"), Drop("xml")>>

WindowsUninit_StateFirst == <<Stop("refresh"), Stop("bastion"), Stop("reaper"),
    Do("strip"), Do("restart"), Drop("dropin"), Drop("ca"), Drop("certs"),
    <<"drop", InState>>, Do("delete_account"), Drop("deadlines"), Drop("bastion"),
    Drop("requests")>>
WindowsUninit == <<Stop("refresh"), Stop("bastion"), Stop("reaper"), Do("strip"),
    Do("restart"), Drop("dropin"), Drop("ca"), Drop("certs"), Do("delete_account"),
    <<"drop", InState>>, Drop("deadlines"), Drop("bastion"), Drop("requests")>>

Steps(name) ==
    CASE system = "linux" -> IF name = "init" THEN LinuxInit ELSE LinuxUninit
      [] system = "macos" -> IF name = "init" THEN MacInit ELSE MacUninit
      [] system = "windows" -> IF name = "init" THEN WindowsInit ELSE WindowsUninit

(* Why init refuses to start: a drop-in that sets pf's directives, pf's     *)
(* block, an account of that name that pf did not make, or a pf that others *)
(* could change.                                                            *)
Conflict == "dropin" \in disk
BlockPresent == system \in {"linux", "windows"} /\ block
NotOurUser == system = "linux" /\ account = "foreign"
NotOurAccount == system = "macos" /\ account \in {"foreign", "half"}
UnsafePf == system # "windows" /\ ~sound
UnsafeAcl == system = "windows" /\ ~sound
Refused ==
    Conflict \/ BlockPresent \/ NotOurUser \/ NotOurAccount \/ UnsafePf \/ UnsafeAcl

InstallInit ==
    /\ system \in Systems /\ sound \in BOOLEAN
    /\ disk = {} /\ key = 0 /\ block = FALSE /\ lines = {} /\ due = {}
    /\ theirs \in BOOLEAN /\ account = IF theirs THEN "foreign" ELSE "none"
    /\ jobs = {} /\ loaded = FALSE /\ refresher = "idle" /\ raced = FALSE
    /\ registered = 0 /\ invitations = [open |-> 1, written |-> 1]
    /\ cmd = NoCommand /\ last = "none"

(* host-init checks everything it can, and reads the file it will change,   *)
(* before its first step.                                                   *)
BeginInit ==
    /\ cmd = NoCommand
    /\ ~Refused
    /\ cmd' = [name |-> "init", at |-> 1, read |-> lines]
    /\ raced' = FALSE
    /\ UNCHANGED <<system, sound, theirs, machine, due, refresher, registered,
                   invitations, last>>

RefuseInit ==
    /\ cmd = NoCommand
    /\ Refused
    /\ last' = "refused"
    /\ UNCHANGED <<system, sound, theirs, machine, due, refresher, raced,
                   registered, invitations, cmd>>

BeginUninit ==
    /\ cmd = NoCommand
    /\ cmd' = [name |-> "uninit", at |-> 1, read |-> {}]
    /\ raced' = FALSE
    /\ UNCHANGED <<system, sound, theirs, machine, due, refresher, registered,
                   invitations, last>>

Verb == Steps(cmd.name)[cmd.at][1]
Arg == Steps(cmd.name)[cmd.at][2]

(* The command goes on to its next step, or ends. *)
Advance ==
    IF cmd.at = Len(Steps(cmd.name))
    THEN cmd' = NoCommand /\ last' = cmd.name
    ELSE cmd' = [cmd EXCEPT !.at = @ + 1] /\ UNCHANGED last

GiveUp == cmd' = NoCommand /\ last' = "failed"

server == <<registered, invitations>>

(* Files, directories, units. *)
PutOrDrop ==
    /\ Verb \in {"put", "drop"}
    /\ disk' = IF Verb = "put" THEN disk \cup Arg ELSE disk \ Arg
    /\ key' = IF Verb = "drop" /\ "state" \in Arg THEN 0 ELSE key
    /\ Advance
    /\ UNCHANGED <<system, sound, theirs, block, lines, due, account, jobs,
                   loaded, refresher, raced, server>>

(* A job is stopped and no longer started, with its process. *)
StartOrStop ==
    /\ Verb \in {"start", "stop"}
    /\ jobs' = IF Verb = "start" THEN jobs \cup Arg ELSE jobs \ Arg
    /\ refresher' = IF Verb = "stop" /\ "refresh" \in Arg THEN "idle" ELSE refresher
    /\ Advance
    /\ UNCHANGED <<system, sound, theirs, disk, key, block, lines, due,
                   account, loaded, raced, server>>

(* A new account key takes the place of the one that is there. *)
NewKey ==
    /\ Verb = "key"
    /\ key < MaxKeys
    /\ key' = 1 + (IF key > registered THEN key ELSE registered)
    /\ key' <= MaxKeys
    /\ Advance
    /\ UNCHANGED <<system, sound, theirs, disk, block, lines, due, account,
                   jobs, loaded, refresher, raced, server>>

(* The server takes the key in exchange for the invitation; the answer may  *)
(* be lost, and the command then fails all the same.                        *)
Accept ==
    /\ Verb = "accept"
    /\ invitations.open > 0
    /\ registered' = key
    /\ invitations' = [invitations EXCEPT !.open = @ - 1]
    /\ Advance \/ GiveUp
    /\ UNCHANGED <<system, sound, theirs, machine, due, refresher, raced>>

(* host-refresh: the certificates of the host keys, then the authority's    *)
(* public key, each with a request that a registered key signs.             *)
Refresh ==
    /\ Verb = "refresh"
    /\ key = registered
    /\ \/ disk' = disk \cup {"certs", "ca"} /\ Advance
       \/ disk' = disk \cup {"certs"} /\ GiveUp
    /\ UNCHANGED <<system, sound, theirs, key, block, lines, due, account,
                   jobs, loaded, refresher, raced, server>>

(* The account the bastion job, or on Windows the principals command, runs  *)
(* as.  useradd makes it in one go; on macOS and Windows several commands   *)
(* make it, and only the last ones mark it as ours.                         *)
Useradd == account' = "ours" /\ Advance
Dscl ==
    \/ account' = "ours" /\ Advance
    \/ account' = "half" /\ GiveUp
AccountScript == account' = "half" /\ (Advance \/ GiveUp)
CreateAccount ==
    /\ Verb = "account"
    /\ \/ account # "none" /\ UNCHANGED account /\ Advance
       \/ account = "none" /\ system = "linux" /\ Useradd
       \/ account = "none" /\ system = "macos" /\ Dscl
       \/ account = "none" /\ system = "windows" /\ AccountScript
    /\ UNCHANGED <<system, sound, theirs, disk, key, block, lines, due, jobs,
                   loaded, refresher, raced, server>>

(* Windows remembers in a file of the state directory the account that this *)
(* init created, and there is nothing else that tells whose it is.          *)
Mark ==
    /\ Verb = "marker"
    /\ account' = IF account = "half" THEN "ours" ELSE account
    /\ disk' = IF account = "half" THEN disk \cup {"marker"} ELSE disk
    /\ Advance
    /\ UNCHANGED <<system, sound, theirs, key, block, lines, due, jobs,
                   loaded, refresher, raced, server>>

DeleteAccount ==
    /\ Verb = "delete_account"
    /\ account' = IF account = "ours" /\ (system = "windows" => "marker" \in disk)
                  THEN "none" ELSE account
    /\ Advance
    /\ UNCHANGED <<system, sound, theirs, disk, key, block, lines, due, jobs,
                   loaded, refresher, raced, server>>

(* The file is written from the text init read when it began. *)
AddBlock ==
    /\ Verb = "block"
    /\ block' = TRUE /\ lines' = cmd.read
    /\ Advance
    /\ UNCHANGED <<system, sound, theirs, disk, key, due, account, jobs,
                   loaded, refresher, raced, server>>

(* Windows: the old text is kept aside, the include goes in and sshd is     *)
(* restarted; when sshd refuses it or does not restart the old text is put  *)
(* back.  A kill in between leaves the include and the running sshd as is.  *)
EnableInclude ==
    /\ Verb = "include"
    /\ disk' = disk \cup {"backup"} /\ lines' = cmd.read
    /\ \/ block' = TRUE /\ loaded' = TRUE /\ Advance
       \/ block' = FALSE /\ UNCHANGED loaded /\ GiveUp
       \/ block' = TRUE /\ UNCHANGED loaded /\ GiveUp
    /\ UNCHANGED <<system, sound, theirs, key, due, account, jobs, refresher,
                   raced, server>>

(* uninit reads the file anew and takes out the block, and nothing else. *)
StripBlock ==
    /\ Verb = "strip"
    /\ block' = FALSE
    /\ disk' = IF system = "windows" /\ block THEN disk \ {"backup"} ELSE disk
    /\ IF system = "windows" /\ ~block
       THEN cmd' = [cmd EXCEPT !.at = @ + 2] /\ UNCHANGED last
       ELSE Advance
    /\ UNCHANGED <<system, sound, theirs, key, lines, due, account, jobs,
                   loaded, refresher, raced, server>>

(* sshd reads its configuration again: a reload, or a restart that Windows  *)
(* only tries when sshd finds nothing wrong with the rest of the file.      *)
InForce == "dropin" \in disk /\ (system = "windows" => block)

(* macOS starts an sshd for every connection. *)
Serving == IF system = "macos" THEN InForce ELSE loaded
Load ==
    /\ Verb \in {"load", "restart"}
    /\ \/ loaded' = InForce
       \/ Verb = "restart" /\ UNCHANGED loaded
    /\ Advance
    /\ UNCHANGED <<system, sound, theirs, disk, key, block, lines, due,
                   account, jobs, refresher, raced, server>>

(* The command fails, is killed, or the machine stops, before a step. *)
Break ==
    /\ GiveUp
    /\ UNCHANGED <<system, sound, theirs, machine, due, refresher, raced,
                   server>>

Step ==
    /\ cmd # NoCommand
    /\ \/ PutOrDrop \/ StartOrStop \/ NewKey \/ Accept \/ Refresh \/ CreateAccount
       \/ Mark \/ DeleteAccount \/ AddBlock \/ EnableInclude \/ StripBlock \/ Load
       \/ Break

(* The network changes: the dispatcher starts the refresh job, also while   *)
(* uninit runs.  It needs its unit, the key and the configuration.          *)
StartRefresh ==
    /\ refresher = "idle"
    /\ {"dispatcher", "refresh_unit", "config"} \subseteq disk
    /\ key > 0
    /\ cmd.name # "init"
    /\ refresher' = "running"
    /\ raced' = (cmd.name = "uninit" /\ cmd.at > 1)
    /\ UNCHANGED <<system, sound, theirs, machine, due, server, cmd, last>>

RunRefresh ==
    /\ refresher # "idle"
    /\ \/ /\ refresher = "running"
          /\ disk' = disk \cup {"certs"} /\ refresher' = "certified"
       \/ /\ refresher = "certified"
          /\ disk' = disk \cup {"ca"} /\ refresher' = "idle"
       \/ refresher' = "idle" /\ UNCHANGED disk
    /\ UNCHANGED <<system, sound, theirs, key, block, lines, due, account,
                   jobs, loaded, raced, server, cmd, last>>

(* The machine starts again: every job of it too, and sshd. *)
Reboot ==
    /\ cmd = NoCommand
    /\ loaded' = InForce /\ refresher' = "idle"
    /\ UNCHANGED <<system, sound, theirs, disk, key, block, lines, due,
                   account, jobs, raced, server, cmd, last>>

Edit(l) ==
    /\ l \notin lines \cup due
    /\ lines' = lines \cup {l}
    /\ due' = IF cmd.name = "init" THEN due ELSE due \cup {l}
    /\ UNCHANGED <<system, sound, theirs, disk, key, block, account, jobs,
                   loaded, refresher, raced, server, cmd, last>>

Invite ==
    /\ cmd = NoCommand
    /\ invitations.open = 0 /\ invitations.written < MaxInvitations
    /\ invitations' = [open |-> 1, written |-> invitations.written + 1]
    /\ UNCHANGED <<system, sound, theirs, machine, due, refresher, raced,
                   registered, cmd, last>>

(* A refused init says what to remove before it is tried again. *)
Advised ==
    /\ FollowAdvice
    /\ last = "refused" /\ cmd = NoCommand
    /\ disk' = disk \ {"dropin"} /\ block' = FALSE
    /\ UNCHANGED <<system, sound, theirs, key, lines, due, account, jobs,
                   loaded, refresher, raced, server, cmd, last>>

InstallNext ==
    \/ BeginInit \/ RefuseInit \/ BeginUninit \/ Step
    \/ StartRefresh \/ RunRefresh \/ Reboot \/ Invite \/ Advised
    \/ \E l \in Lines : Edit(l)

InstallSpec == InstallInit /\ [][InstallNext]_installVars
-----------------------------------------------------------------------------
(* The configuration that sshd may read at any moment names files that are  *)
(* there: the authority's key and the certificates come before the drop-in  *)
(* and go after it, wherever init or uninit stops.                          *)
LiveConfigIsBacked == "dropin" \in disk => {"certs", "ca"} \subseteq disk

(* The jobs that talk to the server, which the system starts whenever it    *)
(* likes, find a configuration and a key the server knows.                  *)
RunningJobsAreRegistered ==
    jobs \cap {"refresh", "bastion"} # {} =>
        key > 0 /\ key = registered /\ {"config", "bastion"} \subseteq disk

(* What an uninit that came to its end leaves: the logs, on Windows the     *)
(* copy of an sshd_config that sshd refused, what a refresh that began      *)
(* under it wrote, and never pf's block, its account, a job, or a reason to *)
(* refuse the next init other than an account that is not marked as ours.   *)
Leftover ==
    {"logs"} \cup (IF system = "windows" THEN {"backup"} ELSE {})
             \cup (IF raced THEN {"certs", "ca"} ELSE {})
UninitMakesRoom ==
    (last = "uninit" /\ cmd = NoCommand) =>
        /\ disk \subseteq Leftover
        /\ ~block /\ jobs = {} /\ account # "ours"
        /\ system # "windows" => ~Serving
        /\ (account = "none" /\ sound) => ~Refused

(* No command loses a line that the administrator wrote while no init was   *)
(* running: init writes back what it read, uninit only takes its block out. *)
(* An account that was there before pf is never deleted.                    *)
AdministratorKeeps == due \subseteq lines /\ (theirs => account = "foreign")

(* What base.py calls undoing init, taken at its word: the accounts that pf *)
(* began to make go as well, and sshd forgets pf's configuration.           *)
UninitUndoesAccounts ==
    (last = "uninit" /\ cmd = NoCommand) => account \in {"none", "foreign"}
UninitUnloads == (last = "uninit" /\ cmd = NoCommand) => ~Serving

(* A host that the server knows keeps the key it is known by.               *)
KnownKeyIsKept ==
    (registered > 0 /\ cmd = NoCommand /\ "config" \in disk) => key = registered

(* No line an administrator writes is ever lost.                            *)
NoLineIsLost == [][lines \subseteq lines']_installVars

(* Installations are safe to break off, to repeat and to undo. *)
InstallIsSafe ==
    LiveConfigIsBacked /\ RunningJobsAreRegistered /\ AdministratorKeeps

(* A host is set up as a whole or can be set up again: the steps of init, of *)
(* a repeated init and of uninit leave nothing that the next one trips over  *)
(* (host init, host uninit).                                                 *)
InitAndUninitAreSafe == InstallIsSafe /\ UninitMakesRoom
=============================================================================
