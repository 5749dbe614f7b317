------------------------------- MODULE MCLaunch -------------------------------
(* Small instances of Launch: an api with two instances and a preferred port, *)
(* a web service behind the router, a worker, and a range of two ports beside *)
(* a preferred one that may be taken.                                         *)
EXTENDS Launch

CONSTANTS api, web, job

order == <<api, web, job>>
instancesOf == [s \in {api, web, job} |-> IF s = api THEN 2 ELSE 1]
preferredOf == [s \in {api, web, job} |-> IF s = api THEN 1 ELSE None]
requests == {{api}, {web}, {job}, {"unknown"}}
===============================================================================
