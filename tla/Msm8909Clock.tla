--------------------------- MODULE Msm8909Clock ----------------------------
(***************************************************************************)
(* The clock tables of msm8909-clock.c, rates in kHz, and what the clock   *)
(* hardware makes of a root's registers.                                   *)
(***************************************************************************)
EXTENDS Integers, TLC

cxo == "cxo"
gpll0 == "gpll0"
gpll1 == "gpll1"
SourceClocks == {cxo, gpll0, gpll1}
SourceRate == (cxo :> 19200) @@ (gpll0 :> 800000) @@ (gpll1 :> 614400)

\* F(f, s, div, m, n): the register holds 2 * div - 1, N as its difference to
\* M inverted, and 0 for all of them when n is 0.
F(khz, s, div2, m, n) == khz :> [src |-> s, div2 |-> div2, m |-> m, n |-> n]

ftbl_gcc_sdcc1_2_apps_clk ==
    F(144, cxo, 32, 3, 25) @@ F(400, cxo, 24, 1, 4) @@ F(20000, gpll0, 20, 1, 4)
    @@ F(25000, gpll0, 32, 1, 2) @@ F(50000, gpll0, 32, 0, 0) @@ F(100000, gpll0, 16, 0, 0)
    @@ F(177770, gpll0, 9, 0, 0) @@ F(200000, gpll0, 8, 0, 0)

ftbl_gcc_blsp1_qup2_i2c_apps_clk_src ==
    F(96, cxo, 20, 1, 2) @@ F(4800, cxo, 8, 0, 0) @@ F(9600, cxo, 4, 0, 0)
    @@ F(16000, gpll0, 20, 1, 5) @@ F(19200, gpll0, 2, 0, 0) @@ F(25000, gpll0, 32, 1, 2)
    @@ F(50000, gpll0, 32, 0, 0)

\* The first three and 58982.4 MHz are not whole kHz.
ftbl_gcc_blsp1_2_uart1_6_apps_clk ==
    F(3686, gpll0, 2, 72, 15625) @@ F(7372, gpll0, 2, 144, 15625)
    @@ F(14745, gpll0, 2, 288, 15625) @@ F(16000, gpll0, 20, 1, 5) @@ F(19200, cxo, 2, 0, 0)
    @@ F(24000, gpll0, 2, 3, 100) @@ F(25000, gpll0, 32, 1, 2) @@ F(32000, gpll0, 2, 1, 25)
    @@ F(40000, gpll0, 2, 1, 20) @@ F(46400, gpll0, 2, 29, 500) @@ F(48000, gpll0, 2, 3, 50)
    @@ F(51200, gpll0, 2, 8, 125) @@ F(56000, gpll0, 2, 7, 100)
    @@ F(58982, gpll0, 2, 1152, 15625) @@ F(60000, gpll0, 2, 3, 40)

ftbl_mdp_clk ==
    F(50000, gpll0, 32, 0, 0) @@ F(80000, gpll0, 20, 0, 0) @@ F(100000, gpll0, 16, 0, 0)
    @@ F(160000, gpll0, 10, 0, 0) @@ F(177780, gpll0, 9, 0, 0) @@ F(200000, gpll0, 8, 0, 0)
    @@ F(266670, gpll0, 6, 0, 0) @@ F(307200, gpll1, 8, 0, 0)

MndRoots == {"sdcc1_apps_clk_src", "sdcc2_apps_clk_src", "blsp1_uart1_apps_clk_src"}
QupRoots == {"qup1_src", "qup2_src", "qup3_src", "qup4_src", "qup5_src", "qup6_src"}
HidRoots == QupRoots \cup {"usb_hs_system_clk_src", "ce1_clk_src", "dsi_esc0_clk_src",
                           "vsync_clk_src", "mdss_mdp_clk_src"}
RootClocks == MndRoots \cup HidRoots

freq_tbl ==
    [r \in RootClocks |->
        CASE r \in {"sdcc1_apps_clk_src", "sdcc2_apps_clk_src"} -> ftbl_gcc_sdcc1_2_apps_clk
          [] r = "blsp1_uart1_apps_clk_src" -> ftbl_gcc_blsp1_2_uart1_6_apps_clk
          [] r \in QupRoots -> ftbl_gcc_blsp1_qup2_i2c_apps_clk_src
          [] r = "usb_hs_system_clk_src" -> F(80000, gpll0, 20, 0, 0)
          [] r = "ce1_clk_src" -> F(160000, gpll0, 10, 0, 0)
          [] r \in {"dsi_esc0_clk_src", "vsync_clk_src"} -> F(19200, cxo, 2, 0, 0)
          [] r = "mdss_mdp_clk_src" -> ftbl_mdp_clk]

VoteClocks == {"gcc_blsp1_ahb_clk", "gcc_ce1_clk", "gcc_ce1_axi_clk", "gcc_ce1_ahb_clk"}

parent ==
    ("gcc_sdcc1_apps_clk" :> "sdcc1_apps_clk_src") @@ ("gcc_sdcc2_apps_clk" :> "sdcc2_apps_clk_src")
    @@ ("gcc_blsp1_uart1_apps_clk" :> "blsp1_uart1_apps_clk_src")
    @@ ("gcc_usb_hs_system_clk" :> "usb_hs_system_clk_src")
    @@ ("qup1_clk" :> "qup1_src") @@ ("qup2_clk" :> "qup2_src") @@ ("qup3_clk" :> "qup3_src")
    @@ ("qup4_clk" :> "qup4_src") @@ ("qup5_clk" :> "qup5_src") @@ ("qup6_clk" :> "qup6_src")
    @@ ("mdss_esc0_clk" :> "dsi_esc0_clk_src") @@ ("mdss_vsync_clk" :> "vsync_clk_src")
    @@ ("mdss_mdp_clk" :> "mdss_mdp_clk_src")
Siblings == {"gcc_sdcc1_ahb_clk", "gcc_sdcc2_ahb_clk", "gcc_usb_hs_ahb_clk",
             "mdss_axi_clk", "mdp_ahb_clk"}
BranchClocks == DOMAIN parent \cup Siblings

\* The last two names find the clocks of QUP5.
msm_clocks_msm8909 ==
    ("sdc1_iface_clk" :> "gcc_sdcc1_ahb_clk") @@ ("sdc1_core_clk" :> "gcc_sdcc1_apps_clk")
    @@ ("sdc2_iface_clk" :> "gcc_sdcc2_ahb_clk") @@ ("sdc2_core_clk" :> "gcc_sdcc2_apps_clk")
    @@ ("uart1_iface_clk" :> "gcc_blsp1_ahb_clk")
    @@ ("uart1_core_clk" :> "gcc_blsp1_uart1_apps_clk")
    @@ ("usb_iface_clk" :> "gcc_usb_hs_ahb_clk") @@ ("usb_core_clk" :> "gcc_usb_hs_system_clk")
    @@ ("ce1_ahb_clk" :> "gcc_ce1_ahb_clk") @@ ("ce1_axi_clk" :> "gcc_ce1_axi_clk")
    @@ ("ce1_core_clk" :> "gcc_ce1_clk") @@ ("ce1_src_clk" :> "ce1_clk_src")
    @@ ("blsp1_qup2_ahb_iface_clk" :> "gcc_blsp1_ahb_clk")
    @@ ("gcc_blsp1_qup1_i2c_apps_clk_src" :> "qup1_src")
    @@ ("gcc_blsp1_qup1_i2c_apps_clk" :> "qup1_clk")
    @@ ("gcc_blsp1_qup2_i2c_apps_clk_src" :> "qup2_src")
    @@ ("gcc_blsp1_qup2_i2c_apps_clk" :> "qup2_clk")
    @@ ("gcc_blsp1_qup3_i2c_apps_clk_src" :> "qup3_src")
    @@ ("gcc_blsp1_qup3_i2c_apps_clk" :> "qup3_clk")
    @@ ("gcc_blsp1_qup4_i2c_apps_clk_src" :> "qup4_src")
    @@ ("gcc_blsp1_qup4_i2c_apps_clk" :> "qup4_clk")
    @@ ("gcc_blsp1_qup5_i2c_apps_clk_src" :> "qup5_src")
    @@ ("gcc_blsp1_qup5_i2c_apps_clk" :> "qup5_clk")
    @@ ("gcc_blsp1_qup6_i2c_apps_clk_src" :> "qup5_src")
    @@ ("gcc_blsp1_qup6_i2c_apps_clk" :> "qup5_clk")
    @@ ("mdp_ahb_clk" :> "mdp_ahb_clk") @@ ("mdss_esc0_clk" :> "mdss_esc0_clk")
    @@ ("mdss_axi_clk" :> "mdss_axi_clk") @@ ("mdss_vsync_clk" :> "mdss_vsync_clk")
    @@ ("mdss_mdp_clk_src" :> "mdss_mdp_clk_src") @@ ("mdss_mdp_clk" :> "mdss_mdp_clk")

\* The hardware divides the source by half of div2, then multiplies by M/N
\* in dual edge mode, which passes no clock while N is 0.
RootRate(conf) ==
    LET divided == (2 * SourceRate[conf.src]) \div conf.div2
    IN  CASE conf.dual /\ conf.n = 0 -> 0
          [] conf.dual /\ conf.n # 0 -> (divided * conf.m) \div conf.n
          [] ~conf.dual -> divided

\* The entries whose rate is not what their values divide to: three of the
\* QUP table need M and N, which its roots do not program, and two name the
\* wrong source or divider.
Misprogrammed(r, khz) ==
    \/ r \in QupRoots /\ khz \in {96, 16000, 19200, 25000}
    \/ r = "mdss_mdp_clk_src" /\ khz = 307200

\* Names that share a clock or a root are used together.
NameGroups == {
    {"sdc1_iface_clk", "sdc1_core_clk"}, {"sdc2_iface_clk", "sdc2_core_clk"},
    {"uart1_iface_clk", "blsp1_qup2_ahb_iface_clk", "uart1_core_clk"},
    {"usb_iface_clk", "usb_core_clk"},
    {"ce1_ahb_clk", "ce1_axi_clk", "ce1_core_clk", "ce1_src_clk"},
    {"gcc_blsp1_qup1_i2c_apps_clk_src", "gcc_blsp1_qup1_i2c_apps_clk"},
    {"gcc_blsp1_qup2_i2c_apps_clk_src", "gcc_blsp1_qup2_i2c_apps_clk"},
    {"gcc_blsp1_qup3_i2c_apps_clk_src", "gcc_blsp1_qup3_i2c_apps_clk"},
    {"gcc_blsp1_qup4_i2c_apps_clk_src", "gcc_blsp1_qup4_i2c_apps_clk"},
    {"gcc_blsp1_qup5_i2c_apps_clk", "gcc_blsp1_qup6_i2c_apps_clk"},
    {"gcc_blsp1_qup5_i2c_apps_clk_src", "gcc_blsp1_qup6_i2c_apps_clk_src"},
    {"mdp_ahb_clk", "mdss_esc0_clk", "mdss_axi_clk"}, {"mdss_vsync_clk"},
    {"mdss_mdp_clk_src", "mdss_mdp_clk"}}
=============================================================================
