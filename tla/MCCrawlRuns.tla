------------------------------ MODULE MCCrawlRuns ------------------------------
(* Constants for model-checking CrawlRuns.                                 *)
EXTENDS CrawlRuns

MCCapacity == [c \in Clusters |-> 1]
================================================================================
